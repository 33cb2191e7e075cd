---------------------------- MODULE ConfigProofs ----------------------------
(***************************************************************************)
(* Theorems about Config and ConfigLoad, for every set of files, documents *)
(* and expressions, and every command line.                                *)
(***************************************************************************)
EXTENDS Config, SequenceTheorems, FiniteSetTheorems, TLAPS

W == INSTANCE WellFoundedInduction

Cell == File \cup {Unused}

------------------------------------------------------------------------------
(* The slice of loaded paths *)

(* One element of a sequence replaced.                                      *)
LEMMA OneReplaced ==
  ASSUME NEW S, NEW s \in Seq(S), NEW n \in 1 .. Len(s), NEW x \in S
  PROVE  /\ [s EXCEPT ![n] = x] \in Seq(S) /\ Len([s EXCEPT ![n] = x]) = Len(s)
         /\ \A i \in 1 .. Len(s) : [s EXCEPT ![n] = x][i] = IF i = n THEN x ELSE s[i]
<1>1. DOMAIN s = 1 .. Len(s)
  BY LenProperties
<1>2. QED BY <1>1, ExceptSeq

(* A slice of the heap: its cells are within its array.                     *)
IsSlice(slice) ==
  /\ slice.len \in Nat
  /\ IF slice.array = 0 THEN slice.len = 0
     ELSE slice.array \in 1 .. Len(heap) /\ slice.len <= Len(heap[slice.array])

(* What append owes to the slice it is given and to every other: the slice  *)
(* it returns has the file behind the same elements, and no array loses one *)
(* of its first slice.len cells.                                            *)
Appends(slice, file, new) ==
  /\ new.heap \in Seq(Seq(Cell)) /\ Len(new.heap) >= Len(heap)
  /\ new.slice \in [array : Nat, len : Nat]
  /\ new.slice.array \in 1 .. Len(new.heap)
  /\ new.slice.len = slice.len + 1
  /\ slice.len + 1 <= Len(new.heap[new.slice.array])
  /\ new.heap[new.slice.array][slice.len + 1] = file
  /\ \A j \in 1 .. slice.len : new.heap[new.slice.array][j] = heap[slice.array][j]
  /\ \A b \in 1 .. Len(heap) :
       /\ Len(new.heap[b]) = Len(heap[b])
       /\ \A j \in 1 .. slice.len : new.heap[b][j] = heap[b][j]

LEMMA AppendPathAppends ==
  ASSUME heap \in Seq(Seq(Cell)), NEW slice \in [array : Nat, len : Nat], IsSlice(slice), NEW file \in File
  PROVE  Appends(slice, file, AppendPath(slice, file))
<1> DEFINE new == AppendPath(slice, file)
           k == slice.len
           old == IF slice.array = 0 THEN <<>> ELSE heap[slice.array]
<1>1. old \in Seq(Cell) /\ k \in Nat /\ k <= Len(old) /\ file \in Cell
      /\ (slice.array # 0 => slice.array \in 1 .. Len(heap) /\ old = heap[slice.array])
      /\ (slice.array = 0 => k = 0)
  BY DEF IsSlice, Cell
<1>2. Cap(slice) = Len(old)
  BY DEF Cap
<1>3. CASE Len(old) - k > 0
  <2>1. slice.array \in 1 .. Len(heap) /\ k + 1 \in 1 .. Len(heap[slice.array])
    BY <1>1, <1>3
  <2>2. /\ new.slice = [slice EXCEPT !.len = @ + 1]
        /\ new.heap = [heap EXCEPT ![slice.array][k + 1] = file]
    BY <1>2, <1>3 DEF AppendPath
  <2> HIDE DEF new, old
  <2> DEFINE a == slice.array
             row == [heap[a] EXCEPT ![k + 1] = file]
  <2>3. heap[a] \in Seq(Cell) /\ row \in Seq(Cell) /\ Len(row) = Len(heap[a])
        /\ row[k + 1] = file /\ \A j \in 1 .. k : row[j] = heap[a][j]
    <3>1. heap[a] \in Seq(Cell)
      BY <2>1
    <3>2. row \in Seq(Cell) /\ Len(row) = Len(heap[a])
      BY <1>1, <2>1, <3>1, ExceptSeq
    <3>3. DOMAIN heap[a] = 1 .. Len(heap[a]) /\ Len(heap[a]) \in Nat
      BY <3>1, LenProperties
    <3>4. QED BY <1>1, <2>1, <3>1, <3>2, <3>3
  <2> HIDE DEF row
  <2>4. new.heap = [heap EXCEPT ![a] = row]
    BY <2>2 DEF row
  <2>5. new.heap \in Seq(Seq(Cell)) /\ Len(new.heap) = Len(heap) /\ new.heap[a] = row
        /\ \A b \in 1 .. Len(heap) : b # a => new.heap[b] = heap[b]
    BY <2>1, <2>3, <2>4
  <2>6. new.slice.array = a /\ new.slice.len = k + 1 /\ new.slice \in [array : Nat, len : Nat]
    <3>1. /\ [slice EXCEPT !.len = @ + 1] \in [array : Nat, len : Nat]
          /\ [slice EXCEPT !.len = @ + 1].array = slice.array
          /\ [slice EXCEPT !.len = @ + 1].len = slice.len + 1
      OBVIOUS
    <3>2. QED BY <2>2, <3>1
  <2>7. Len(heap) \in Nat
    BY LenProperties
  <2>8. \A b \in 1 .. Len(heap) :
          Len(new.heap[b]) = Len(heap[b]) /\ \A j \in 1 .. k : new.heap[b][j] = heap[b][j]
    BY <2>3, <2>5
  <2>9. QED BY <1>1, <2>1, <2>3, <2>5, <2>6, <2>7, <2>8, SMTT(30) DEF Appends, new
<1>4. CASE ~(Len(old) - k > 0)
  <2> DEFINE pad == [i \in 1 .. (IF k = 0 THEN 0 ELSE k - 1) |-> Unused]
             row == Elements(slice) \o <<file>> \o pad
  <2>1. /\ new.slice = [array |-> Len(heap) + 1, len |-> k + 1]
        /\ new.heap = Append(heap, row)
    BY <1>2, <1>4 DEF AppendPath
  <2>2. k = Len(old)
    BY <1>1, <1>4
  <2>3. Elements(slice) = old
    <3>1. CASE slice.array = 0
      BY <3>1 DEF Elements
    <3>2. CASE slice.array # 0
      BY <1>1, <2>2, <3>2, SubSeqFull DEF Elements
    <3>3. QED BY <3>1, <3>2
  <2>4. pad \in Seq(Cell)
    BY <1>1 DEF Cell
  <2> HIDE DEF new, old, pad
  <2>5. /\ old \o <<file>> \in Seq(Cell) /\ Len(old \o <<file>>) = k + 1
        /\ (old \o <<file>>)[k + 1] = file
        /\ \A j \in 1 .. k : (old \o <<file>>)[j] = old[j]
    BY <1>1, <2>2
  <2>6. /\ row \in Seq(Cell) /\ Len(row) >= k + 1 /\ Len(row) \in Nat
        /\ \A j \in 1 .. k + 1 : row[j] = (old \o <<file>>)[j]
    BY <1>1, <2>3, <2>4, <2>5, ConcatProperties, LenProperties
  <2> HIDE DEF row
  <2>7. /\ new.heap \in Seq(Seq(Cell)) /\ Len(new.heap) = Len(heap) + 1
        /\ new.heap[Len(heap) + 1] = row
        /\ \A b \in 1 .. Len(heap) : new.heap[b] = heap[b]
    BY <2>1, <2>6
  <2>8. /\ new.slice.array = Len(heap) + 1 /\ new.slice.len = k + 1
        /\ new.slice \in [array : Nat, len : Nat]
    BY <1>1, <2>1, LenProperties
  <2>9. \A j \in 1 .. k : row[j] = heap[slice.array][j]
    <3>1. ASSUME NEW j \in 1 .. k PROVE row[j] = old[j]
      <4>1. j \in 1 .. k + 1
        BY <1>1
      <4>2. QED BY <2>5, <2>6, <4>1
    <3>2. k # 0 => old = heap[slice.array]
      BY <1>1
    <3>3. CASE k = 0
      BY <3>3
    <3>4. CASE k # 0
      BY <3>1, <3>2, <3>4
    <3>5. QED BY <3>3, <3>4
  <2>10. row[k + 1] = file /\ Len(heap) \in Nat
    BY <1>1, <2>5, <2>6, LenProperties
  <2>11. /\ new.slice.array \in 1 .. Len(new.heap)
         /\ Len(new.heap[new.slice.array]) >= k + 1
         /\ new.heap[new.slice.array][k + 1] = file
         /\ \A j \in 1 .. k : new.heap[new.slice.array][j] = heap[slice.array][j]
    BY <2>6, <2>7, <2>8, <2>9, <2>10, SMTT(30)
  <2>12. /\ Len(new.heap) >= Len(heap)
         /\ \A b \in 1 .. Len(heap) :
              Len(new.heap[b]) = Len(heap[b]) /\ \A j \in 1 .. k : new.heap[b][j] = heap[b][j]
    BY <2>7, <2>10, SMTT(30)
  <2>13. QED BY <2>7, <2>8, <2>11, <2>12 DEF Appends, new
<1>5. QED BY <1>3, <1>4
------------------------------------------------------------------------------
(* Replacing the last element of a sequence, and dropping it.               *)
LEMMA LastReplaced ==
  ASSUME NEW S, NEW s \in Seq(S), s # <<>>, NEW x \in S
  PROVE  /\ Last(s) \in S /\ Len(s) \in Nat \ {0} /\ Last(s) = s[Len(s)]
         /\ Front(s) \in Seq(S) /\ Len(Front(s)) = Len(s) - 1
         /\ \A i \in 1 .. Len(s) - 1 : Front(s)[i] = s[i]
         /\ Append(Front(s), x) \in Seq(S) /\ Len(Append(Front(s), x)) = Len(s)
         /\ Append(Front(s), x)[Len(s)] = x
         /\ \A i \in 1 .. Len(s) - 1 : Append(Front(s), x)[i] = s[i]
<1>1. Len(s) \in Nat \ {0} /\ Last(s) = s[Len(s)] /\ Last(s) \in S
  BY LenProperties, EmptySeq, ElementOfSeq DEF Last
<1>2. /\ Front(s) \in Seq(S) /\ Len(Front(s)) = Len(s) - 1
      /\ \A i \in 1 .. Len(s) - 1 : Front(s)[i] = s[i]
  <2> DEFINE n == Len(s) - 1
  <2>1. n \in Nat /\ \A i \in 1 .. n : s[i] \in S
    BY <1>1
  <2>2. Front(s) = SubSeq(s, 1, n)
    BY DEF Front
  <2> HIDE DEF n
  <2>3. /\ SubSeq(s, 1, n) \in Seq(S)
        /\ Len(SubSeq(s, 1, n)) = IF 1 <= n THEN n - 1 + 1 ELSE 0
        /\ \A i \in 1 .. n - 1 + 1 : SubSeq(s, 1, n)[i] = s[1 + i - 1]
    BY <2>1, SubSeqProperties
  <2>4. /\ Front(s) \in Seq(S) /\ Len(Front(s)) = n
        /\ \A i \in 1 .. n : Front(s)[i] = s[i]
    BY <2>1, <2>2, <2>3
  <2>5. QED BY <2>4 DEF n
<1>3. QED BY <1>1, <1>2

(* Every call lists the files on its own chain in the first cells of its    *)
(* array.                                                                   *)
Chained(calls, arrays) ==
  \A i \in 1 .. Len(calls) :
    /\ calls[i].loadedPaths.len = i
    /\ calls[i].loadedPaths.array \in 1 .. Len(arrays)
    /\ i <= Len(arrays[calls[i].loadedPaths.array])
    /\ \A j \in 1 .. i : arrays[calls[i].loadedPaths.array][j] = calls[j].file

ChainInv == Chained(stack, heap)

LoadInv ==
  /\ LoadTypeOK
  /\ ChainInv

LEMMA InitLoadInv == LoadInit => LoadInv
BY LoadAssumption DEF LoadInit, LoadInv, LoadTypeOK, ChainInv, Chained

(* The calls that stay keep their files and slices.                         *)
LEMMA ChainsKept ==
  ASSUME stack \in Seq(Frame), stack' \in Seq(Frame), ChainInv, heap' = heap,
         Len(stack') <= Len(stack),
         \A i \in 1 .. Len(stack') :
           stack'[i].file = stack[i].file /\ stack'[i].loadedPaths = stack[i].loadedPaths
  PROVE  ChainInv'
<1>1. Len(stack) \in Nat /\ Len(stack') \in Nat
  BY LenProperties
<1>2. ASSUME NEW i \in 1 .. Len(stack')
      PROVE  /\ i \in 1 .. Len(stack) /\ stack'[i].loadedPaths = stack[i].loadedPaths
             /\ \A j \in 1 .. i : stack'[j].file = stack[j].file
  BY <1>1
<1>3. QED BY <1>2 DEF ChainInv, Chained

(* LoadTypeOK says of a slice no more than that.                            *)
LEMMA SlicesTyped ==
  ASSUME NEW calls \in Seq(Frame), NEW arrays \in Seq(Seq(Cell)), Chained(calls, arrays)
  PROVE  \A i \in DOMAIN calls :
           LET slice == calls[i].loadedPaths
           IN  slice.array \in DOMAIN arrays /\ slice.len <= Len(arrays[slice.array])
<1>1. DOMAIN calls = 1 .. Len(calls) /\ DOMAIN arrays = 1 .. Len(arrays)
  BY LenProperties
<1>2. QED BY <1>1 DEF Chained

(* What is known of the state of the loader, and of the call on top.        *)
LEMMA LoaderState ==
  ASSUME LoadInv
  PROVE  /\ content \in [File -> Seq(Document) \cup {Unreadable, Malformed}]
         /\ heap \in Seq(Seq(Cell)) /\ stack \in Seq(Frame) /\ loaded \in Seq(File)
         /\ Len(stack) \in Nat
         /\ stack # <<>> => Len(stack) > 0 /\ Top = stack[Len(stack)] /\ Top \in Frame
<1>1. /\ content \in [File -> Seq(Document) \cup {Unreadable, Malformed}]
      /\ heap \in Seq(Seq(Cell)) /\ stack \in Seq(Frame) /\ loaded \in Seq(File)
  BY DEF LoadInv, LoadTypeOK, Cell
<1>2. Len(stack) \in Nat /\ (stack # <<>> => Len(stack) > 0 /\ stack[Len(stack)] \in Frame)
  BY <1>1, LenProperties, EmptySeq, ElementOfSeq
<1>3. QED BY <1>1, <1>2 DEF Top, Last

(* A step of the loader that leaves the heap, replaces the call on top by   *)
(* one of the same file and slice, or drops it and changes what the caller  *)
(* has gathered.                                                            *)
LEMMA StackKept ==
  ASSUME LoadInv, stack' \in Seq(Frame), Len(stack') <= Len(stack),
         \A i \in 1 .. Len(stack') :
           stack'[i].file = stack[i].file /\ stack'[i].loadedPaths = stack[i].loadedPaths,
         UNCHANGED <<content, heap>>, loaded' \in Seq(File),
         outcome' \in {"none", "loaded", "circular", "failed"}
  PROVE  LoadInv'
<1>1. ChainInv'
  BY LoaderState, ChainsKept DEF LoadInv
<1>2. heap' \in Seq(Seq(Cell)) /\ content' \in [File -> Seq(Document) \cup {Unreadable, Malformed}]
  BY LoaderState
<1>3. (\A i \in DOMAIN stack : LET slice == stack[i].loadedPaths
        IN  slice.array \in DOMAIN heap /\ slice.len <= Len(heap[slice.array]))'
  BY <1>1, <1>2, SlicesTyped DEF ChainInv
<1>4. QED BY <1>1, <1>2, <1>3 DEF LoadInv, LoadTypeOK, Cell

(* The slice that the next call is handed.                                  *)
LEMMA SliceOfCaller ==
  ASSUME LoadInv
  PROVE  /\ LoadedPaths \in [array : Nat, len : Nat] /\ LoadedPaths.len = Len(stack)
         /\ IsSlice(LoadedPaths)
<1>1. CASE stack = <<>>
  BY <1>1 DEF LoadedPaths, NilSlice, IsSlice
<1>2. CASE stack # <<>>
  <2>1. /\ LoadedPaths = stack[Len(stack)].loadedPaths
        /\ LoadedPaths \in [array : Nat, len : Nat]
        /\ Len(stack) \in 1 .. Len(stack)
    BY <1>2, LoaderState, SMTT(30) DEF LoadedPaths, Frame
  <2>2. Chained(stack, heap)
    BY DEF LoadInv, ChainInv
  <2>3. /\ LoadedPaths.len = Len(stack) /\ LoadedPaths.array \in 1 .. Len(heap)
        /\ LoadedPaths.len <= Len(heap[LoadedPaths.array])
    BY <2>1, <2>2 DEF Chained
  <2>4. IsSlice(LoadedPaths)
    BY <2>1, <2>3 DEF IsSlice
  <2>5. QED BY <2>1, <2>3, <2>4
<1>3. QED BY <1>1, <1>2

(* The calls below the new one keep what they list, although one of them    *)
(* may share its array.                                                     *)
LEMMA LoadKeeps == LoadInv /\ Load => LoadInv'
<1> SUFFICES ASSUME LoadInv, Load PROVE LoadInv'
  OBVIOUS
<1> DEFINE n == Len(stack)
           new == AppendPath(LoadedPaths, Callee)
           caller == IF stack = <<>> THEN <<>> ELSE [stack EXCEPT ![n].paths = Tail(@)]
           call == [file |-> Callee, docs |-> content[Callee], paths |-> <<>>,
                    loadedPaths |-> new.slice, out |-> <<>>]
<1>1. /\ heap' = new.heap /\ stack' = Append(caller, call)
      /\ UNCHANGED <<content, outcome, loaded>>
      /\ content[Callee] \notin {Unreadable, Malformed}
      /\ stack # <<>> => Top.paths # <<>>
  BY DEF Load, Calling
<1>2. /\ n \in Nat /\ stack \in Seq(Frame) /\ heap \in Seq(Seq(Cell))
      /\ content \in [File -> Seq(Document) \cup {Unreadable, Malformed}]
      /\ stack # <<>> => n > 0 /\ Top = stack[n] /\ Top \in Frame
  BY LoaderState
<1>3. Callee \in File
  <2>1. stack # <<>> => Head(Top.paths) \in Name
    BY <1>1, <1>2, HeadTailProperties DEF Frame
  <2>2. QED BY <2>1, LoadAssumption DEF Callee
<1>4. LoadedPaths \in [array : Nat, len : Nat] /\ LoadedPaths.len = n /\ IsSlice(LoadedPaths)
  BY SliceOfCaller
<1>5. Appends(LoadedPaths, Callee, new)
  BY <1>2, <1>3, <1>4, AppendPathAppends
<1> HIDE DEF new
<1>6. /\ caller \in Seq(Frame) /\ Len(caller) = n
      /\ \A i \in 1 .. n : caller[i].file = stack[i].file /\ caller[i].loadedPaths = stack[i].loadedPaths
  <2>1. CASE stack = <<>>
    BY <2>1
  <2>2. CASE stack # <<>>
    <3>1. n \in 1 .. n /\ caller = [stack EXCEPT ![n] = [stack[n] EXCEPT !.paths = Tail(@)]]
      BY <1>2, <2>2
    <3> DEFINE top == [stack[n] EXCEPT !.paths = Tail(@)]
    <3>2. top \in Frame /\ top.file = stack[n].file /\ top.loadedPaths = stack[n].loadedPaths
      <4>1. Tail(stack[n].paths) \in Seq(Name)
        BY <1>1, <1>2, <2>2, HeadTailProperties DEF Frame
      <4>2. QED BY <1>2, <2>2, <4>1 DEF Frame
    <3> HIDE DEF top, caller
    <3>3. caller = [stack EXCEPT ![n] = top]
      BY <3>1 DEF top
    <3>4. /\ caller \in Seq(Frame) /\ Len(caller) = n
          /\ \A i \in 1 .. n : caller[i] = IF i = n THEN top ELSE stack[i]
      <4> DEFINE replaced == [stack EXCEPT ![n] = top]
      <4>1. stack \in Seq(Frame) /\ n \in 1 .. Len(stack) /\ top \in Frame
        BY <1>2, <3>1, <3>2
      <4>2. /\ replaced \in Seq(Frame) /\ Len(replaced) = n
            /\ \A i \in 1 .. n : replaced[i] = IF i = n THEN top ELSE stack[i]
        BY <4>1, OneReplaced
      <4>3. QED BY <3>3, <4>2
    <3>5. QED BY <3>2, <3>4
  <2>3. QED BY <2>1, <2>2
<1>7. call \in Frame /\ call.file = Callee /\ call.loadedPaths = new.slice
  <2>1. new.slice \in [array : Nat, len : Nat]
    BY <1>5 DEF Appends
  <2>2. content[Callee] \in Seq(Document)
    BY <1>1, <1>2, <1>3
  <2>3. QED BY <1>3, <2>1, <2>2 DEF Frame
<1> HIDE DEF caller, call
<1>8. /\ stack' \in Seq(Frame) /\ Len(stack') = n + 1 /\ stack'[n + 1] = call
      /\ \A i \in 1 .. n : stack'[i] = caller[i]
  BY <1>1, <1>2, <1>6, <1>7
<1>9. heap' \in Seq(Seq(Cell))
  BY <1>1, <1>5 DEF Appends
<1>10. ChainInv'
  <2>1. ASSUME NEW i \in 1 .. n
        PROVE  LET slice == stack'[i].loadedPaths
               IN  /\ slice.len = i /\ slice.array \in 1 .. Len(heap')
                   /\ i <= Len(heap'[slice.array])
                   /\ \A j \in 1 .. i : heap'[slice.array][j] = stack'[j].file
    <3> DEFINE a == stack[i].loadedPaths.array
    <3>1. /\ stack'[i].loadedPaths = stack[i].loadedPaths
          /\ \A j \in 1 .. i : stack'[j].file = stack[j].file
      <4>1. \A j \in 1 .. i : j \in 1 .. n
        BY <1>2
      <4>2. QED BY <1>6, <1>8, <4>1
    <3>2. /\ stack[i].loadedPaths.len = i /\ a \in 1 .. Len(heap) /\ i <= Len(heap[a])
          /\ \A j \in 1 .. i : heap[a][j] = stack[j].file
      BY DEF LoadInv, ChainInv, Chained
    <3> HIDE DEF a
    <3>3. /\ Len(heap') >= Len(heap) /\ Len(heap) \in Nat /\ Len(heap') \in Nat
          /\ Len(heap'[a]) = Len(heap[a])
          /\ \A j \in 1 .. n : heap'[a][j] = heap[a][j]
      BY <1>1, <1>2, <1>4, <1>5, <1>9, <3>2, LenProperties DEF Appends
    <3>4. \A j \in 1 .. i : j \in 1 .. n
      BY <1>2
    <3>5. QED BY <3>1, <3>2, <3>3, <3>4 DEF a
  <2>2. LET slice == stack'[n + 1].loadedPaths
        IN  /\ slice.len = n + 1 /\ slice.array \in 1 .. Len(heap')
            /\ n + 1 <= Len(heap'[slice.array])
            /\ \A j \in 1 .. n + 1 : heap'[slice.array][j] = stack'[j].file
    <3> DEFINE a == new.slice.array
    <3>1. /\ new.slice.len = n + 1 /\ a \in 1 .. Len(heap')
          /\ n + 1 <= Len(heap'[a]) /\ heap'[a][n + 1] = Callee
          /\ \A j \in 1 .. n : heap'[a][j] = heap[LoadedPaths.array][j]
      BY <1>1, <1>4, <1>5 DEF Appends
    <3>2. \A j \in 1 .. n : heap[LoadedPaths.array][j] = stack[j].file
      <4>1. n > 0 => LoadedPaths = stack[n].loadedPaths /\ n \in 1 .. n
        BY <1>2 DEF LoadedPaths
      <4>2. CASE n > 0
        BY <4>1, <4>2 DEF LoadInv, ChainInv, Chained
      <4>3. CASE n = 0
        BY <4>3
      <4>4. QED BY <1>2, <4>2, <4>3
    <3>3. \A j \in 1 .. n : stack'[j].file = stack[j].file
      BY <1>6, <1>8
    <3>4. stack'[n + 1].loadedPaths = new.slice /\ stack'[n + 1].file = Callee
      BY <1>7, <1>8
    <3>5. \A j \in 1 .. n + 1 : heap'[a][j] = stack'[j].file
      <4>1. ASSUME NEW j \in 1 .. n + 1 PROVE j = n + 1 \/ j \in 1 .. n
        BY <1>2
      <4>2. QED BY <3>1, <3>2, <3>3, <3>4, <4>1
    <3>6. QED BY <3>1, <3>4, <3>5
  <2>3. \A i \in 1 .. n + 1 : i \in 1 .. n \/ i = n + 1
    BY <1>2
  <2>4. QED BY <1>8, <2>1, <2>2, <2>3 DEF ChainInv, Chained
<1>11. (\A i \in DOMAIN stack : LET slice == stack[i].loadedPaths
        IN  slice.array \in DOMAIN heap /\ slice.len <= Len(heap[slice.array]))'
  BY <1>8, <1>9, <1>10, SlicesTyped DEF ChainInv
<1>12. QED BY <1>1, <1>8, <1>9, <1>10, <1>11 DEF LoadInv, LoadTypeOK, Cell

LEMMA TakeDocumentKeeps == LoadInv /\ TakeDocument => LoadInv'
<1> SUFFICES ASSUME LoadInv, TakeDocument PROVE LoadInv'
  OBVIOUS
<1> DEFINE n == Len(stack)
           doc == Head(Top.docs)
           rest == [Top EXCEPT !.docs = Tail(@)]
<1>1. /\ stack # <<>> /\ Top.docs # <<>> /\ UNCHANGED <<content, heap, loaded>>
      /\ outcome' \in {outcome, "failed"} /\ outcome = "none"
      /\ \/ stack' = Append(Front(stack), [rest EXCEPT !.out = Append(@, Top.file)])
         \/ stack' = stack
         \/ doc \notin {Plain, BadPattern} /\ stack' = Append(Front(stack), [rest EXCEPT !.paths = doc])
  BY DEF TakeDocument, Expanding
<1>2. /\ stack \in Seq(Frame) /\ loaded \in Seq(File) /\ Top \in Frame /\ n \in Nat \ {0}
      /\ Top = stack[n]
  BY <1>1, LoaderState
<1>3. /\ doc \in Document /\ Tail(Top.docs) \in Seq(Document)
      /\ Top.file \in File /\ Top.out \in Seq(File)
  BY <1>1, <1>2, HeadTailProperties DEF Frame
<1>4. /\ rest \in Frame /\ rest.file = Top.file /\ rest.loadedPaths = Top.loadedPaths
      /\ Append(rest.out, Top.file) \in Seq(File)
  <2>1. /\ rest \in Frame /\ rest.file = Top.file /\ rest.loadedPaths = Top.loadedPaths
        /\ rest.out = Top.out
    BY <1>2, <1>3, EmptySeq DEF Frame
  <2>2. QED BY <1>3, <2>1
<1> HIDE DEF rest
<1>5. \/ stack' = stack
      \/ \E call \in Frame :
           /\ call.file = Top.file /\ call.loadedPaths = Top.loadedPaths
           /\ stack' = Append(Front(stack), call)
  <2>1. CASE stack' = Append(Front(stack), [rest EXCEPT !.out = Append(@, Top.file)])
    <3> DEFINE out == Append(rest.out, Top.file)
    <3>1. out \in Seq(File) /\ stack' = Append(Front(stack), [rest EXCEPT !.out = out])
      BY <1>4, <2>1
    <3> HIDE DEF out
    <3>2. /\ [rest EXCEPT !.out = out] \in Frame
          /\ [rest EXCEPT !.out = out].file = Top.file
          /\ [rest EXCEPT !.out = out].loadedPaths = Top.loadedPaths
      BY <1>4, <3>1 DEF Frame
    <3>3. QED BY <3>1, <3>2
  <2>2. CASE doc \notin {Plain, BadPattern} /\ stack' = Append(Front(stack), [rest EXCEPT !.paths = doc])
    <3>1. doc \in Seq(Name)
      BY <1>3, <2>2 DEF Document
    <3> HIDE DEF doc
    <3>2. /\ [rest EXCEPT !.paths = doc] \in Frame
          /\ [rest EXCEPT !.paths = doc].file = Top.file
          /\ [rest EXCEPT !.paths = doc].loadedPaths = Top.loadedPaths
      BY <1>4, <3>1 DEF Frame
    <3>3. QED BY <2>2, <3>2
  <2>3. QED BY <1>1, <2>1, <2>2
<1> HIDE DEF doc
<1>6. ASSUME NEW call \in Frame, call.file = Top.file, call.loadedPaths = Top.loadedPaths,
             stack' = Append(Front(stack), call)
      PROVE  /\ stack' \in Seq(Frame) /\ Len(stack') = n
             /\ \A i \in 1 .. n :
                  stack'[i].file = stack[i].file /\ stack'[i].loadedPaths = stack[i].loadedPaths
  <2>1. /\ stack' \in Seq(Frame) /\ Len(stack') = n /\ stack'[n] = call
        /\ \A i \in 1 .. n - 1 : stack'[i] = stack[i]
    <3>1. stack # <<>> /\ stack \in Seq(Frame) /\ call \in Frame
      BY <1>1, <1>2
    <3>2. /\ Append(Front(stack), call) \in Seq(Frame) /\ Len(Append(Front(stack), call)) = n
          /\ Append(Front(stack), call)[n] = call
          /\ \A i \in 1 .. n - 1 : Append(Front(stack), call)[i] = stack[i]
      BY <3>1, LastReplaced
    <3>3. QED BY <1>6, <3>2
  <2>2. \A i \in 1 .. n : i = n \/ i \in 1 .. n - 1
    BY <1>2
  <2>3. QED BY <1>2, <1>6, <2>1, <2>2
<1>7. /\ stack' \in Seq(Frame) /\ Len(stack') <= Len(stack)
      /\ \A i \in 1 .. Len(stack') :
           stack'[i].file = stack[i].file /\ stack'[i].loadedPaths = stack[i].loadedPaths
  <2>1. CASE stack' = stack
    BY <1>2, <2>1
  <2>2. CASE stack' # stack
    <3>1. PICK call \in Frame : /\ call.file = Top.file /\ call.loadedPaths = Top.loadedPaths
                                /\ stack' = Append(Front(stack), call)
      BY <1>5, <2>2
    <3>2. QED BY <1>2, <1>6, <3>1
  <2>3. QED BY <2>1, <2>2
<1>8. QED BY <1>1, <1>2, <1>7, StackKept

LEMMA ReturnKeeps == LoadInv /\ Return => LoadInv'
<1> SUFFICES ASSUME LoadInv, Return PROVE LoadInv'
  OBVIOUS
<1> DEFINE n == Len(stack)
           caller == [Front(stack)[n - 1] EXCEPT !.out = @ \o Top.out]
<1>1. /\ stack # <<>> /\ UNCHANGED <<content, heap>> /\ outcome = "none"
      /\ \/ outcome' = "loaded" /\ loaded' = Top.out /\ stack' = <<>>
         \/ /\ n # 1 /\ UNCHANGED <<outcome, loaded>>
            /\ stack' = [Front(stack) EXCEPT ![n - 1] = caller]
  BY DEF Return, Expanding
<1>2. /\ stack \in Seq(Frame) /\ loaded \in Seq(File) /\ Top \in Frame /\ n \in Nat \ {0}
  BY <1>1, LoaderState
<1>3. Top.out \in Seq(File)
  BY <1>2 DEF Frame
<1>4. /\ Front(stack) \in Seq(Frame) /\ Len(Front(stack)) = n - 1
      /\ \A i \in 1 .. n - 1 : Front(stack)[i] = stack[i]
  BY <1>1, <1>2, LastReplaced
<1>5. CASE stack' = <<>>
  BY <1>1, <1>2, <1>3, <1>5, StackKept
<1>6. CASE n # 1 /\ stack' = [Front(stack) EXCEPT ![n - 1] = caller] /\ UNCHANGED <<outcome, loaded>>
  <2>1. n - 1 \in 1 .. n - 1 /\ Front(stack)[n - 1] \in Frame
    BY <1>2, <1>4, <1>6, ElementOfSeq
  <2>2. /\ caller \in Frame /\ caller.file = Front(stack)[n - 1].file
        /\ caller.loadedPaths = Front(stack)[n - 1].loadedPaths
    <3> DEFINE below == Front(stack)[n - 1]
               out == below.out \o Top.out
    <3>1. below \in Frame /\ out \in Seq(File) /\ caller = [below EXCEPT !.out = out]
      BY <1>3, <2>1, ConcatProperties DEF Frame
    <3> HIDE DEF below, out, caller
    <3>2. caller \in Frame /\ caller.file = below.file /\ caller.loadedPaths = below.loadedPaths
      BY <3>1 DEF Frame
    <3>3. QED BY <3>2 DEF below
  <2> HIDE DEF caller
  <2>3. /\ stack' \in Seq(Frame) /\ Len(stack') = n - 1
        /\ \A i \in 1 .. n - 1 : stack'[i] = IF i = n - 1 THEN caller ELSE Front(stack)[i]
    <3> DEFINE s == Front(stack)
               m == n - 1
    <3>1. s \in Seq(Frame) /\ m \in 1 .. Len(s) /\ caller \in Frame /\ Len(s) = m
          /\ stack' = [s EXCEPT ![m] = caller]
      BY <1>4, <1>6, <2>1, <2>2
    <3> HIDE DEF s, m
    <3>2. /\ stack' \in Seq(Frame) /\ Len(stack') = Len(s)
          /\ \A i \in 1 .. Len(s) : stack'[i] = IF i = m THEN caller ELSE s[i]
      BY <3>1, OneReplaced
    <3>3. QED BY <3>1, <3>2 DEF s, m
  <2>4. \A i \in 1 .. n - 1 :
          stack'[i].file = stack[i].file /\ stack'[i].loadedPaths = stack[i].loadedPaths
    BY <1>4, <2>2, <2>3
  <2>5. QED BY <1>1, <1>2, <1>6, <2>3, <2>4, StackKept
<1>7. QED BY <1>1, <1>5, <1>6

LEMMA NextLoadInv == LoadInv /\ LoadNext => LoadInv'
<1> SUFFICES ASSUME LoadInv, LoadNext PROVE LoadInv'
  OBVIOUS
<1>1. CASE Circular \/ ReadFails
  BY <1>1, LoaderState, StackKept DEF Circular, ReadFails
<1>2. QED BY <1>1, LoadKeeps, TakeDocumentKeeps, ReturnKeeps DEF LoadNext

(* LoadInv is about the loader's variables only.                            *)
LEMMA LoadInvKept == LoadInv /\ UNCHANGED loadVars => LoadInv'
BY DEF LoadInv, LoadTypeOK, ChainInv, loadVars

LEMMA StepLoadInv == LoadInv /\ [Next]_vars => LoadInv'
BY NextLoadInv, LoadInvKept
   DEF Next, vars, Main, LoadTreeMaps, LoadFails, Loaded, EditFails, EditOne, Decide, Report,
       Start, Listen, BindFails

(* The chains of the stack and the types of the loader, in every behaviour of *)
(* a command (load.go 23-79).                                               *)
THEOREM LoadInvariant == Spec => []LoadInv
<1>1. Init => LoadInv
  BY InitLoadInv DEF Init
<1>2. QED BY <1>1, StepLoadInv, PTL DEF Spec

(* The types of the loader's variables. *)
THEOREM LoadTypeCorrect == Spec => []LoadTypeOK
<1>1. LoadInv => LoadTypeOK
  BY DEF LoadInv
<1>2. QED BY <1>1, LoadInvariant, PTL

(* A slice within its array lists what the first cells of the array hold.   *)
LEMMA ChainListed == LoadInv => ChainExact
<1> SUFFICES ASSUME LoadInv, NEW i \in DOMAIN stack
             PROVE  Elements(stack[i].loadedPaths) = [j \in 1 .. i |-> stack[j].file]
  BY DEF ChainExact
<1> DEFINE a == stack[i].loadedPaths.array
           row == heap[a]
<1>1. stack \in Seq(Frame) /\ heap \in Seq(Seq(Cell)) /\ i \in 1 .. Len(stack)
  BY LoaderState, LenProperties
<1>2. /\ stack[i].loadedPaths.len = i /\ a \in 1 .. Len(heap) /\ i <= Len(row)
      /\ \A j \in 1 .. i : row[j] = stack[j].file
  BY <1>1 DEF LoadInv, ChainInv, Chained
<1>3. row \in Seq(Cell) /\ Len(row) \in Nat /\ i \in Nat
  BY <1>1, <1>2, ElementOfSeq, LenProperties
<1>4. Elements(stack[i].loadedPaths) = SubSeq(row, 1, i)
  BY <1>1, <1>2 DEF Elements
<1> HIDE DEF row
<1>5. SubSeq(row, 1, i) = [j \in 1 .. i |-> row[j]]
  BY <1>2, <1>3
<1>6. QED BY <1>2, <1>4, <1>5

(* The slice of every call in progress lists exactly the files on its own   *)
(* chain, for every way in which files include each other: whatever calls   *)
(* next to it append to an array that they share (load.go 39, 71).          *)
THEOREM ChainTheorem == Spec => []ChainExact
BY ChainListed, LoadInvariant, PTL
------------------------------------------------------------------------------
(* Documents and expressions *)

(* What Main is given has the types of InputAssumption.                     *)
InputInv ==
  /\ command.edits \in Seq(Range(command.edits))
  /\ \A n \in DOMAIN command.edits :
       LET expr == command.edits[n]
       IN  expr # BadExpr => /\ expr.at \in Nat
                             /\ expr.key \in DOMAIN Kind \cup {"misspelt"}
                             /\ IsValue(expr.key, expr.value)
  /\ \A f \in File : \A key \in DOMAIN written[f] : IsValue(key, written[f][key])

Count == IF command.file THEN Len(loaded) ELSE 1
Kept == Dumps /\ command.edits # <<>>
Given == Len(command.edits)

(* Where each document and each clone is; the clones are as written.        *)
PlacesInv ==
  /\ ms = [i \in 1 .. Count |-> i]
  /\ preEdit = IF Kept THEN [i \in 1 .. Count |-> Count + i] ELSE <<>>
  /\ DOMAIN maps = 1 .. (IF Kept THEN Count + Count ELSE Count)
  /\ Kept => \A i \in 1 .. Count : maps[Count + i] = AsWritten[i]

(* The expressions that have been applied to document i under a key.        *)
Done == Given - Len(exprs)
Applied(edits, done, i, key) ==
  {n \in 1 .. done : edits[n].key = key /\ edits[n].at \in {0, i}}

(* Each document is as written, with the last expression applied to a key   *)
(* in force.                                                                *)
Follow(document, source, edits, done, i) ==
  /\ \A key : key \in DOMAIN document <=> key \in DOMAIN source \/ Applied(edits, done, i, key) # {}
  /\ \A key \in DOMAIN document :
       /\ Applied(edits, done, i, key) = {} => document[key] = source[key]
       /\ \A n \in Applied(edits, done, i, key) :
            (\A m \in Applied(edits, done, i, key) : m <= n) =>
              document[key] = Literal(edits[n].value)

EditsInv ==
  /\ exprs \in Seq(Range(command.edits)) /\ Len(exprs) <= Given
  /\ \A j \in 1 .. Len(exprs) : exprs[j] = command.edits[Done + j]
  /\ \A n \in 1 .. Done : command.edits[n] # BadExpr
  /\ \A i \in 1 .. Count : Follow(maps[i], AsWritten[i], command.edits, Done, i)

Before == {"flags", "load", "told", "rejected"}

(* A document that ValidateTreeMaps and FromTreeMaps accept.                *)
Accepted(document) == Valid(document) /\ Decodable(document) /\ Normal(Decode(document))

(* What Decide made of the documents.                                       *)
DecidedInv ==
  /\ exprs = <<>>
  /\ \A i \in 1 .. Count : Accepted(maps[i])
  /\ configs = [i \in 1 .. Count |-> Normalize(Decode(maps[i]))]

(* Why a command was refused.                                               *)
RefusedInv ==
  \/ outcome \in {"circular", "failed"}
  \/ \E n \in DOMAIN command.edits : command.edits[n] = BadExpr
  \/ PlacesInv /\ EditsInv /\ exprs = <<>> /\ \E i \in 1 .. Count : ~Accepted(maps[i])

MainInv ==
  /\ LoadInv
  /\ InputInv
  /\ stage \notin Before =>
       outcome = (IF command.file THEN "loaded" ELSE "none") /\ PlacesInv /\ EditsInv
  /\ stage \notin Before \cup {"edit"} => DecidedInv
  /\ stage = "rejected" => RefusedInv
  /\ stage = "dumped" => DumpAsWritten
  /\ IF stage \in Before \cup {"edit"} THEN listening = {} ELSE listening \subseteq Addresses

LEMMA InitMainInv == Init => MainInv
<1> SUFFICES ASSUME Init PROVE MainInv
  OBVIOUS
<1>1. content \in Contents
  BY DEF Init, LoadInit
<1>2. PICK given \in Invocations(content) : command = given[1] /\ written = given[2]
  BY DEF Init
<1>3. InputInv
  BY <1>1, <1>2, InputAssumption DEF InputInv
<1>4. LoadInv /\ stage = "flags" /\ listening = {}
  BY InitLoadInv DEF Init
<1>5. QED BY <1>3, <1>4 DEF MainInv, Before

(* The documents as written are a sequence, one for each that was loaded.   *)
LEMMA Documents ==
  ASSUME LoadInv
  PROVE  /\ Count \in Nat /\ DOMAIN AsWritten = 1 .. Count /\ Len(AsWritten) = Count
         /\ AsWritten \in Seq(Range(AsWritten))
<1>1. loaded \in Seq(File) /\ Len(loaded) \in Nat /\ DOMAIN loaded = 1 .. Len(loaded)
  BY LoaderState, LenProperties
<1>2. CASE command.file
  <2> DEFINE d == [i \in 1 .. Len(loaded) |-> written[loaded[i]]]
  <2>1. AsWritten = d /\ Count = Len(loaded)
    BY <1>1, <1>2 DEF AsWritten, Count
  <2>2. Range(d) = {d[i] : i \in 1 .. Len(loaded)}
    BY DEF Range
  <2>3. \A i \in 1 .. Len(loaded) : d[i] \in Range(d)
    BY <2>2
  <2>4. d \in Seq(Range(d)) /\ Len(d) = Len(loaded) /\ DOMAIN d = 1 .. Len(loaded)
    BY <1>1, <2>3, IsASeq
  <2>5. QED BY <1>1, <2>1, <2>4
<1>3. CASE ~command.file
  <2>1. AsWritten = <<Minimal>> /\ Count = 1
    BY <1>3 DEF AsWritten, Count
  <2>2. Range(<<Minimal>>) = {Minimal}
    BY DEF Range
  <2>3. QED BY <2>1, <2>2
<1>4. QED BY <1>2, <1>3

(* What the documents are does not change once they are loaded.             *)
LEMMA SameDocuments ==
  ASSUME UNCHANGED <<command, written, loaded>>
  PROVE  /\ AsWritten' = AsWritten /\ Count' = Count /\ Kept' = Kept /\ Given' = Given
BY DEF AsWritten, Count, Kept, Dumps, Given

LEMMA LoadedKeeps ==
  ASSUME MainInv, Loaded
  PROVE  PlacesInv' /\ EditsInv'
<1>1. /\ maps' = AsWritten \o (IF Kept THEN AsWritten ELSE <<>>)
      /\ ms' = [i \in DOMAIN AsWritten |-> i]
      /\ preEdit' = IF Kept THEN [i \in DOMAIN AsWritten |-> Len(AsWritten) + i] ELSE <<>>
      /\ exprs' = command.edits /\ UNCHANGED <<command, written, loaded>>
  BY DEF Loaded, loadVars, inputVars, AsWritten, Kept, Clone
<1>2. /\ Count \in Nat /\ DOMAIN AsWritten = 1 .. Count /\ Len(AsWritten) = Count
      /\ AsWritten \in Seq(Range(AsWritten))
  BY Documents DEF MainInv
<1>3. /\ AsWritten' = AsWritten /\ Count' = Count /\ Kept' = Kept /\ Given' = Given
  BY <1>1, SameDocuments
<1>4. /\ DOMAIN maps' = 1 .. (IF Kept THEN Count + Count ELSE Count)
      /\ \A i \in 1 .. Count : maps'[i] = AsWritten[i]
      /\ Kept => \A i \in 1 .. Count : maps'[Count + i] = AsWritten[i]
  <2> DEFINE S == Range(AsWritten)
  <2>1. CASE Kept
    <3>1. maps' = AsWritten \o AsWritten
      BY <1>1, <2>1
    <3>2. /\ maps' \in Seq(S) /\ Len(maps') = Count + Count
          /\ \A i \in 1 .. Count + Count :
               maps'[i] = IF i <= Count THEN AsWritten[i] ELSE AsWritten[i - Count]
      BY <1>2, <3>1, ConcatProperties
    <3>3. DOMAIN maps' = 1 .. Count + Count
      BY <3>2, LenProperties
    <3>4. ASSUME NEW i \in 1 .. Count
          PROVE  maps'[i] = AsWritten[i] /\ maps'[Count + i] = AsWritten[i]
      <4>1. i \in 1 .. Count + Count /\ Count + i \in 1 .. Count + Count /\ (Count + i) - Count = i
            /\ i <= Count /\ ~(Count + i <= Count)
        BY <1>2
      <4>2. QED BY <3>2, <4>1
    <3>5. QED BY <2>1, <3>3, <3>4
  <2>2. CASE ~Kept
    <3>1. maps' = AsWritten
      BY <1>1, <1>2, <2>2, ConcatEmptySeq
    <3>2. QED BY <1>2, <2>2, <3>1
  <2>3. QED BY <2>1, <2>2
<1>5. PlacesInv'
  BY <1>1, <1>2, <1>3, <1>4 DEF PlacesInv
<1>6. command.edits \in Seq(Range(command.edits)) /\ Given \in Nat /\ Done' = 0
  BY <1>1, <1>3, LenProperties DEF MainInv, InputInv, Given, Done
<1>7. \A edits, i, key : Applied(edits, 0, i, key) = {}
  BY DEF Applied
<1>8. \A i \in 1 .. Count : Follow(maps'[i], AsWritten'[i], command.edits', 0, i)
  BY <1>3, <1>4, <1>7 DEF Follow
<1>9. EditsInv'
  <2>1. /\ exprs' \in Seq(Range(command.edits')) /\ Len(exprs') = Given'
        /\ command.edits' = command.edits /\ Given' \in Nat
    BY <1>1, <1>3, <1>6 DEF Given
  <2>2. \A j \in 1 .. Len(exprs') : exprs'[j] = command.edits'[Done' + j]
    <3>1. \A j \in 1 .. Len(exprs') : Done' + j = j
      BY <1>6
    <3>2. QED BY <1>1, <2>1, <3>1
  <2>3. \A n \in 1 .. Done' : command.edits'[n] # BadExpr
    BY <1>6
  <2>4. \A i \in 1 .. Count' : Follow(maps'[i], AsWritten'[i], command.edits', Done', i)
    BY <1>3, <1>6, <1>8
  <2>5. QED BY <2>1, <2>2, <2>3, <2>4 DEF EditsInv
<1>10. QED BY <1>5, <1>9

(* One expression more.                                                     *)
LEMMA AppliedNext ==
  ASSUME NEW edits, NEW done \in Nat, NEW i, NEW key
  PROVE  Applied(edits, done + 1, i, key) =
           Applied(edits, done, i, key) \cup
             (IF edits[done + 1].key = key /\ edits[done + 1].at \in {0, i} THEN {done + 1} ELSE {})
BY DEF Applied

LEMMA EditKeeps ==
  ASSUME MainInv, EditOne
  PROVE  PlacesInv' /\ EditsInv'
<1> DEFINE expr == Head(exprs)
           places == {ms[i] : i \in Targets(expr)}
<1>1. /\ stage = "edit" /\ exprs # <<>> /\ expr # BadExpr /\ Targets(expr) \subseteq DOMAIN ms
      /\ maps' = [p \in DOMAIN maps |->
                    IF p \in places THEN Put(maps[p], expr.key, Literal(expr.value)) ELSE maps[p]]
      /\ exprs' = Tail(exprs) /\ UNCHANGED <<ms, preEdit, command, written, loaded>>
  BY DEF EditOne, loadVars, inputVars
<1>2. PlacesInv /\ EditsInv
  BY <1>1 DEF MainInv, Before
<1>3. Count \in Nat /\ Given \in Nat
  BY Documents, LenProperties DEF MainInv, InputInv, Given
<1>4. /\ AsWritten' = AsWritten /\ Count' = Count /\ Kept' = Kept /\ Given' = Given
  BY <1>1, SameDocuments
<1>5. /\ Len(exprs) \in Nat /\ Len(exprs) > 0 /\ expr = exprs[1]
      /\ exprs' \in Seq(Range(command.edits)) /\ Len(exprs') = Len(exprs) - 1
      /\ \A j \in 1 .. Len(exprs') : exprs'[j] = exprs[j + 1]
  BY <1>1, <1>2, HeadTailProperties, LenProperties, EmptySeq DEF EditsInv
<1>6. /\ Done \in Nat /\ Done' = Done + 1 /\ expr = command.edits[Done + 1]
  <2>1. Len(exprs) <= Given /\ exprs[1] = command.edits[Done + 1]
    BY <1>2, <1>5 DEF EditsInv
  <2>2. QED BY <1>3, <1>4, <1>5, <2>1 DEF Done
<1> HIDE DEF expr
<1>7. \A p \in 1 .. Count : p \in places <=> expr.at \in {0, p}
  BY <1>1, <1>2, <1>3 DEF PlacesInv, Targets
<1>8. \A p \in places : p \in 1 .. Count
  BY <1>1, <1>2 DEF PlacesInv
<1> HIDE DEF places
<1>9. DOMAIN maps' = DOMAIN maps /\ \A i \in 1 .. Count : i \in DOMAIN maps /\ (Kept => Count + i \in DOMAIN maps)
  BY <1>1, <1>2, <1>3 DEF PlacesInv
<1>10. PlacesInv'
  <2>1. ASSUME Kept, NEW i \in 1 .. Count PROVE maps'[Count + i] = AsWritten[i]
    <3>1. Count + i \notin places
      BY <1>3, <1>8
    <3>2. QED BY <1>1, <1>2, <1>9, <2>1, <3>1 DEF PlacesInv
  <2>2. QED BY <1>1, <1>2, <1>4, <1>9, <2>1 DEF PlacesInv
<1>11. ASSUME NEW i \in 1 .. Count PROVE Follow(maps'[i], AsWritten[i], command.edits, Done + 1, i)
  <2>1. Follow(maps[i], AsWritten[i], command.edits, Done, i)
    BY <1>2 DEF EditsInv
  <2>2. CASE expr.at \in {0, i}
    <3> DEFINE value == Literal(expr.value)
    <3>1. maps'[i] = Put(maps[i], expr.key, value)
      BY <1>1, <1>7, <1>9, <2>2
    <3> HIDE DEF value
    <3>2. /\ \A key : key \in DOMAIN maps'[i] <=> key \in DOMAIN maps[i] \/ key = expr.key
          /\ maps'[i][expr.key] = value
          /\ \A key \in DOMAIN maps[i] : key # expr.key => maps'[i][key] = maps[i][key]
      BY <3>1 DEF Put
    <3>3. \A key : Applied(command.edits, Done + 1, i, key) =
                     Applied(command.edits, Done, i, key) \cup (IF key = expr.key THEN {Done + 1} ELSE {})
      BY <1>6, <2>2, AppliedNext
    <3>4. \A key : \A n \in Applied(command.edits, Done, i, key) : n \in Nat /\ n <= Done
      BY <1>6 DEF Applied
    <3>5. \A key : key \in DOMAIN maps'[i] <=>
                     key \in DOMAIN AsWritten[i] \/ Applied(command.edits, Done + 1, i, key) # {}
      BY <2>1, <3>2, <3>3 DEF Follow
    <3>6. ASSUME NEW key \in DOMAIN maps'[i]
          PROVE  /\ Applied(command.edits, Done + 1, i, key) = {} => maps'[i][key] = AsWritten[i][key]
                 /\ \A n \in Applied(command.edits, Done + 1, i, key) :
                      (\A m \in Applied(command.edits, Done + 1, i, key) : m <= n) =>
                        maps'[i][key] = Literal(command.edits[n].value)
      <4>1. CASE key = expr.key
        <5>1. \A n \in Applied(command.edits, Done + 1, i, key) :
                (\A m \in Applied(command.edits, Done + 1, i, key) : m <= n) => n = Done + 1
          BY <1>6, <3>3, <3>4, <4>1
        <5>2. Applied(command.edits, Done + 1, i, key) # {}
          BY <3>3, <4>1
        <5>3. QED BY <1>6, <3>2, <4>1, <5>1, <5>2 DEF value
      <4>2. CASE key # expr.key
        <5>1. Applied(command.edits, Done + 1, i, key) = Applied(command.edits, Done, i, key)
          BY <3>3, <4>2
        <5>2. key \in DOMAIN maps[i] /\ maps'[i][key] = maps[i][key]
          BY <3>2, <4>2
        <5>3. QED BY <2>1, <5>1, <5>2 DEF Follow
      <4>3. QED BY <4>1, <4>2
    <3>7. QED BY <3>5, <3>6 DEF Follow
  <2>3. CASE expr.at \notin {0, i}
    <3>1. maps'[i] = maps[i]
      BY <1>1, <1>7, <1>9, <2>3
    <3>2. ASSUME NEW key
          PROVE  Applied(command.edits, Done + 1, i, key) = Applied(command.edits, Done, i, key)
      <4> DEFINE next == command.edits[Done + 1]
      <4>1. ~(next.key = key /\ next.at \in {0, i})
        BY <1>6, <2>3
      <4>2. Applied(command.edits, Done + 1, i, key) =
              Applied(command.edits, Done, i, key) \cup
                (IF next.key = key /\ next.at \in {0, i} THEN {Done + 1} ELSE {})
        BY <1>6, AppliedNext
      <4> HIDE DEF next
      <4>3. QED BY <4>1, <4>2
    <3>3. QED BY <2>1, <3>1, <3>2 DEF Follow
  <2>4. QED BY <2>2, <2>3
<1>12. \A n \in 1 .. Done + 1 : command.edits[n] # BadExpr
  <2>1. \A n \in 1 .. Done : command.edits[n] # BadExpr
    BY <1>2 DEF EditsInv
  <2>2. QED BY <1>1, <1>6, <2>1
<1>13. \A j \in 1 .. Len(exprs') : exprs'[j] = command.edits[Done + 1 + j]
  <2>1. \A j \in 1 .. Len(exprs) : exprs[j] = command.edits[Done + j]
    BY <1>2 DEF EditsInv
  <2>2. ASSUME NEW j \in 1 .. Len(exprs')
        PROVE  j + 1 \in 1 .. Len(exprs) /\ Done + (j + 1) = Done + 1 + j
    BY <1>5, <1>6
  <2>3. QED BY <1>5, <2>1, <2>2
<1>14. Len(exprs') <= Given
  BY <1>2, <1>3, <1>5 DEF EditsInv
<1>15. \A i \in 1 .. Count : Follow(maps'[i], AsWritten'[i], command.edits', Done + 1, i)
  BY <1>1, <1>4, <1>11
<1>16. EditsInv'
  BY <1>1, <1>4, <1>5, <1>6, <1>12, <1>13, <1>14, <1>15 DEF EditsInv
<1>17. QED BY <1>10, <1>16

(* Nothing that Decide and the invariants read has changed.                 *)
LEMMA SameInvariants ==
  ASSUME UNCHANGED <<command, written, loaded, maps, ms, preEdit, exprs>>
  PROVE  /\ PlacesInv' = PlacesInv /\ EditsInv' = EditsInv /\ InputInv' = InputInv
         /\ AsWritten' = AsWritten /\ Count' = Count
         /\ \A document : Accepted(document)' = Accepted(document)
<1>1. AsWritten' = AsWritten /\ Count' = Count /\ Kept' = Kept /\ Given' = Given
  BY SameDocuments
<1>2. PlacesInv' = PlacesInv
  BY <1>1 DEF PlacesInv
<1>3. Done' = Done
  BY <1>1 DEF Done
<1>4. EditsInv' = EditsInv
  BY <1>1, <1>3 DEF EditsInv
<1>5. InputInv' = InputInv
  BY DEF InputInv
<1>6. \A document : Accepted(document)' = Accepted(document)
  BY DEF Accepted, Normal
<1>7. QED BY <1>1, <1>2, <1>4, <1>5, <1>6

LEMMA LoadStepsKeep ==
  ASSUME MainInv, Main \/ LoadTreeMaps \/ LoadFails
  PROVE  MainInv'
<1>1. LoadInv'
  BY StepLoadInv DEF MainInv, Next
<1>2. InputInv'
  BY DEF MainInv, InputInv, Main, LoadTreeMaps, LoadFails, inputVars
<1>3. stage' \in {"told", "load", "rejected"} /\ listening' = listening
      /\ (stage' = "rejected" => outcome' \in {"circular", "failed"})
  BY DEF Main, LoadTreeMaps, LoadFails, loadVars, outputVars
<1>4. listening = {}
  BY DEF MainInv, Before, Main, LoadTreeMaps, LoadFails
<1>5. QED BY <1>1, <1>2, <1>3, <1>4 DEF MainInv, Before, RefusedInv

LEMMA EditStepsKeep ==
  ASSUME MainInv, Loaded \/ EditFails \/ EditOne
  PROVE  MainInv'
<1>1. LoadInv'
  BY StepLoadInv DEF MainInv, Next
<1>2. InputInv'
  BY DEF MainInv, InputInv, Loaded, EditFails, EditOne, inputVars
<1>3. listening' = {}
  BY DEF MainInv, Before, Loaded, EditFails, EditOne, outputVars
<1>4. CASE Loaded
  <2>1. PlacesInv' /\ EditsInv' /\ stage' = "edit"
    BY <1>4, LoadedKeeps DEF Loaded
  <2>2. outcome' = (IF command'.file THEN "loaded" ELSE "none")
    BY <1>4 DEF Loaded, loadVars, inputVars
  <2>3. QED BY <1>1, <1>2, <1>3, <2>1, <2>2 DEF MainInv, Before
<1>5. CASE EditOne
  <2>1. PlacesInv' /\ EditsInv' /\ stage' = "edit"
    BY <1>5, EditKeeps DEF EditOne
  <2>2. outcome' = (IF command'.file THEN "loaded" ELSE "none")
    BY <1>5 DEF EditOne, MainInv, Before, loadVars, inputVars
  <2>3. QED BY <1>1, <1>2, <1>3, <2>1, <2>2 DEF MainInv, Before
<1>6. CASE EditFails
  <2>1. stage' = "rejected" /\ command' = command /\ Head(exprs) = BadExpr /\ exprs # <<>> /\ EditsInv
    BY <1>6 DEF EditFails, MainInv, Before, inputVars
  <2>2. Len(exprs) \in Nat /\ Len(exprs) > 0 /\ Head(exprs) = exprs[1] /\ Len(exprs) <= Given
    BY <2>1, HeadTailProperties, EmptySeq, LenProperties DEF EditsInv
  <2>3. Given \in Nat /\ DOMAIN command.edits = 1 .. Given
    BY LenProperties DEF MainInv, InputInv, Given
  <2>4. Done + 1 \in DOMAIN command.edits /\ command.edits[Done + 1] = BadExpr
    <3>1. Done + 1 \in 1 .. Given
      BY <2>2, <2>3 DEF Done
    <3>2. exprs[1] = command.edits[Done + 1]
      BY <2>1, <2>2 DEF EditsInv
    <3>3. QED BY <2>1, <2>2, <2>3, <3>1, <3>2
  <2>5. QED BY <1>1, <1>2, <1>3, <2>1, <2>4 DEF MainInv, Before, RefusedInv
<1>7. QED BY <1>4, <1>5, <1>6

LEMMA DecideKeeps ==
  ASSUME MainInv, Decide
  PROVE  MainInv'
<1>1. LoadInv'
  BY StepLoadInv DEF MainInv, Next
<1>2. /\ UNCHANGED <<command, written, loaded, maps, ms, preEdit, exprs, outcome, listening>>
      /\ exprs = <<>> /\ stage = "edit"
  BY DEF Decide, loadVars, inputVars, mapVars
<1>3. PlacesInv /\ EditsInv /\ InputInv /\ outcome = (IF command.file THEN "loaded" ELSE "none") /\ listening = {}
  BY <1>2 DEF MainInv, Before
<1>4. /\ PlacesInv' /\ EditsInv' /\ InputInv' /\ Count' = Count
      /\ \A document : Accepted(document)' = Accepted(document)
      /\ outcome' = (IF command'.file THEN "loaded" ELSE "none") /\ listening' = {}
  BY <1>2, <1>3, SameInvariants
<1>5. DOMAIN ms = 1 .. Count /\ \A i \in 1 .. Count : ms[i] = i
  BY <1>3 DEF PlacesInv
<1>6. IF \A i \in 1 .. Count : Accepted(maps[i])
      THEN configs' = [i \in 1 .. Count |-> Normalize(Decode(maps[i]))] /\ stage' = "decided"
      ELSE stage' = "rejected"
  BY <1>5 DEF Decide, Accepted
<1>7. CASE \A i \in 1 .. Count : Accepted(maps[i])
  <2>1. configs' = [i \in 1 .. Count' |-> Normalize(Decode(maps'[i]))] /\ stage' = "decided"
    BY <1>2, <1>4, <1>6, <1>7
  <2>2. DecidedInv'
    BY <1>2, <1>4, <1>7, <2>1 DEF DecidedInv, Normalize, Decode, IsSet, Decoded
  <2>3. QED BY <1>1, <1>4, <2>1, <2>2 DEF MainInv, Before
<1>8. CASE ~\A i \in 1 .. Count : Accepted(maps[i])
  <2>1. stage' = "rejected" /\ \E i \in 1 .. Count : ~Accepted(maps[i])
    BY <1>6, <1>8
  <2>2. (\E i \in 1 .. Count : ~Accepted(maps[i]))'
    BY <1>2, <1>4, <2>1
  <2>3. QED BY <1>1, <1>2, <1>4, <2>1, <2>2 DEF MainInv, Before, RefusedInv
<1>9. QED BY <1>7, <1>8

LEMMA ServeStepsKeep ==
  ASSUME MainInv, Report \/ Start \/ Listen \/ BindFails
  PROVE  MainInv'
<1>1. LoadInv'
  BY StepLoadInv DEF MainInv, Next
<1>2. /\ UNCHANGED <<command, written, loaded, maps, ms, preEdit, exprs, outcome, configs>>
      /\ stage \in {"decided", "starting"}
      /\ stage' \in {"dumped", "tested", "exited", "starting", "serving", "failed"}
  BY DEF Report, Start, Listen, BindFails, loadVars, inputVars, mapVars, outputVars
<1>3. /\ PlacesInv /\ EditsInv /\ InputInv /\ DecidedInv /\ listening \subseteq Addresses
      /\ outcome = (IF command.file THEN "loaded" ELSE "none")
  BY <1>2 DEF MainInv, Before
<1>4. /\ PlacesInv' /\ EditsInv' /\ InputInv' /\ Count' = Count /\ AsWritten' = AsWritten
      /\ \A document : Accepted(document)' = Accepted(document)
      /\ outcome' = (IF command'.file THEN "loaded" ELSE "none")
  BY <1>2, <1>3, SameInvariants
<1>5. DecidedInv'
  <2>1. [i \in 1 .. Count |-> Normalize(Decode(maps[i]))]' = [i \in 1 .. Count |-> Normalize(Decode(maps[i]))]
    BY <1>2, <1>4 DEF Normalize, Decode, IsSet, Decoded
  <2>2. (\A i \in 1 .. Count : Accepted(maps[i]))'
    BY <1>2, <1>3, <1>4 DEF DecidedInv
  <2>3. QED BY <1>2, <1>3, <2>1, <2>2 DEF DecidedInv
<1>6. listening' \subseteq Addresses'
  <2>1. listening' \subseteq listening \cup Addresses
    BY DEF Report, Start, Listen, BindFails, outputVars
  <2>2. QED BY <1>2, <1>3, <2>1 DEF Addresses
<1>7. stage' = "dumped" => DumpAsWritten'
  <2> SUFFICES ASSUME stage' = "dumped" PROVE DumpAsWritten'
    OBVIOUS
  <2>1. Report /\ Dumps
    BY DEF Report, Start, Listen, BindFails
  <2>2. dump' = [preEdit |-> [i \in DOMAIN preEdit |-> maps[preEdit[i]]], configs |-> configs]
    BY <2>1 DEF Report
  <2>3. [i \in DOMAIN preEdit |-> maps[preEdit[i]]] = IF command.edits = <<>> THEN <<>> ELSE AsWritten
    <3>1. CASE command.edits = <<>>
      <4>1. preEdit = <<>>
        BY <1>3, <3>1 DEF PlacesInv, Kept
      <4>2. QED BY <3>1, <4>1
    <3>2. CASE command.edits # <<>>
      <4>1. Kept /\ preEdit = [i \in 1 .. Count |-> Count + i]
            /\ \A i \in 1 .. Count : maps[Count + i] = AsWritten[i]
        BY <1>3, <2>1, <3>2 DEF PlacesInv, Kept
      <4>2. DOMAIN AsWritten = 1 .. Count /\ AsWritten \in Seq(Range(AsWritten))
        BY Documents DEF MainInv
      <4>3. AsWritten = [i \in 1 .. Count |-> AsWritten[i]]
        BY <4>2
      <4>4. [i \in DOMAIN preEdit |-> maps[preEdit[i]]] = [i \in 1 .. Count |-> AsWritten[i]]
        BY <4>1
      <4>5. QED BY <3>2, <4>3, <4>4
    <3>3. QED BY <3>1, <3>2
  <2>4. QED BY <1>2, <1>4, <2>2, <2>3 DEF DumpAsWritten
<1>8. QED BY <1>1, <1>2, <1>4, <1>5, <1>6, <1>7 DEF MainInv, Before

LEMMA StutterKeeps == ASSUME MainInv, UNCHANGED vars PROVE MainInv'
<1>1. UNCHANGED <<loadVars, command, written, stage, maps, ms, preEdit, exprs, configs, listening, dump>>
  BY DEF vars, inputVars, mapVars, outputVars
<1>2. LoadInv' = LoadInv
  BY <1>1 DEF LoadInv, LoadTypeOK, ChainInv, loadVars
<1>3. outcome' = outcome /\ loaded' = loaded
  BY <1>1 DEF loadVars
<1>4. /\ PlacesInv' = PlacesInv /\ EditsInv' = EditsInv /\ InputInv' = InputInv
      /\ AsWritten' = AsWritten /\ Count' = Count
      /\ \A document : Accepted(document)' = Accepted(document)
  BY <1>1, <1>3, SameInvariants
<1>5. DecidedInv => DecidedInv'
  <2>1. [i \in 1 .. Count |-> Normalize(Decode(maps[i]))]' = [i \in 1 .. Count |-> Normalize(Decode(maps[i]))]
    BY <1>1, <1>4 DEF Normalize, Decode, IsSet, Decoded
  <2>2. (\A i \in 1 .. Count : Accepted(maps[i]))' = (\A i \in 1 .. Count : Accepted(maps[i]))
    BY <1>1, <1>4
  <2>3. QED BY <1>1, <2>1, <2>2 DEF DecidedInv
<1>9. RefusedInv' = RefusedInv
  <2>1. (\E i \in 1 .. Count : ~Accepted(maps[i]))' = (\E i \in 1 .. Count : ~Accepted(maps[i]))
    BY <1>1, <1>4
  <2>2. QED BY <1>1, <1>3, <1>4, <2>1 DEF RefusedInv
<1>6. DumpAsWritten' = DumpAsWritten
  BY <1>1, <1>4 DEF DumpAsWritten
<1>7. (listening \subseteq Addresses)' = (listening \subseteq Addresses)
  BY <1>1 DEF Addresses
<1>8. QED BY <1>1, <1>2, <1>3, <1>4, <1>5, <1>9, <1>6, <1>7 DEF MainInv

LEMMA StepMainInv == MainInv /\ [Next]_vars => MainInv'
BY LoadStepsKeep, EditStepsKeep, DecideKeeps, ServeStepsKeep, StutterKeeps DEF Next

(* Where documents, clones and configurations are and what is in them, at each *)
(* stage of a command (fasthttpd.go 153-300, dump.go 69-97).                *)
THEOREM MainInvariant == Spec => []MainInv
BY InitMainInv, StepMainInv, PTL DEF Spec

(* -T pairs the documents as written with what would be served: no edit     *)
(* reaches the snapshot, whatever documents and expressions there are       *)
(* (dump.go 75-78, 99-109).                                                 *)
THEOREM DumpTheorem == Spec => []DumpAsWritten
<1>1. MainInv => DumpAsWritten
  BY DEF MainInv, DumpAsWritten
<1>2. QED BY <1>1, MainInvariant, PTL

(* A sequence whose elements are the last ones of another is its end.       *)
LEMMA SuffixByPlaces ==
  ASSUME NEW S, NEW s \in Seq(S), NEW t \in Seq(S), Len(s) <= Len(t),
         \A j \in 1 .. Len(s) : s[j] = t[Len(t) - Len(s) + j]
  PROVE  IsSuffix(s, t)
<1> DEFINE a == Len(s)
           b == Len(t)
           u == Reverse(s)
           v == Reverse(t)
<1>1. /\ a \in Nat /\ b \in Nat /\ a <= b
      /\ \A i \in 1 .. a : s[i] \in S
      /\ \A i \in 1 .. b : t[i] \in S
  BY LenProperties
<1>2. u = [i \in 1 .. a |-> s[(a - i) + 1]] /\ v = [i \in 1 .. b |-> t[(b - i) + 1]]
  BY DEF Reverse
<1>3. \A j \in 1 .. a : s[j] = t[b - a + j]
  OBVIOUS
<1> HIDE DEF a, b, u, v
<1>4. /\ \A i \in 1 .. a : (a - i) + 1 \in 1 .. a /\ b - a + ((a - i) + 1) = (b - i) + 1
      /\ \A i \in 1 .. b : (b - i) + 1 \in 1 .. b
  BY <1>1
<1>5. u \in Seq(S) /\ v \in Seq(S) /\ Len(u) = a /\ Len(v) = b
  <2>1. \A i \in 1 .. a : s[(a - i) + 1] \in S
    BY <1>1, <1>4
  <2>2. \A i \in 1 .. b : t[(b - i) + 1] \in S
    BY <1>1, <1>4
  <2>3. [i \in 1 .. a |-> s[(a - i) + 1]] \in Seq(S)
    BY <1>1, <2>1, IsASeq
  <2>4. [i \in 1 .. b |-> t[(b - i) + 1]] \in Seq(S)
    BY <1>1, <2>2, IsASeq
  <2>5. QED BY <1>1, <1>2, <2>3, <2>4, LenProperties
<1>6. \A i \in 1 .. a : u[i] = v[i]
  <2> SUFFICES ASSUME NEW i \in 1 .. a PROVE u[i] = v[i]
    OBVIOUS
  <2>1. u[i] = s[(a - i) + 1] /\ v[i] = t[(b - i) + 1]
    BY <1>1, <1>2
  <2>2. s[(a - i) + 1] = t[b - a + ((a - i) + 1)]
    BY <1>3, <1>4
  <2>3. b - a + ((a - i) + 1) = (b - i) + 1
    BY <1>4
  <2>4. QED BY <2>1, <2>2, <2>3
<1>7. SubSeq(u, 1, a) = [i \in 1 .. a |-> u[i]] /\ SubSeq(v, 1, a) = [i \in 1 .. a |-> v[i]]
  BY <1>1, <1>5
<1>8. SubSeq(u, 1, a) = SubSeq(v, 1, a)
  BY <1>6, <1>7
<1>9. IsPrefix(u, v)
  BY <1>1, <1>5, <1>8 DEF IsPrefix
<1>10. QED BY <1>9 DEF IsSuffix, u, v

(* The documents and the snapshot are places of maps, and the expressions   *)
(* left are the end of those given.                                         *)
MapsTyped ==
  /\ Range(ms) \cup Range(preEdit) \subseteq DOMAIN maps
  /\ IsSuffix(exprs, command.edits)

StageTyped == stage \in Final \cup {"flags", "load", "edit", "decided", "starting"}

LEMMA LoadedTyped == ASSUME MainInv, stage \notin Before PROVE MapsTyped
<1>1. PlacesInv /\ EditsInv /\ Count \in Nat
  BY Documents DEF MainInv
<1>2. Range(ms) \cup Range(preEdit) \subseteq DOMAIN maps
  <2>1. Range(ms) = 1 .. Count
    BY <1>1 DEF PlacesInv, Range
  <2>2. CASE Kept
    <3>1. preEdit = [i \in 1 .. Count |-> Count + i] /\ DOMAIN maps = 1 .. (Count + Count)
      BY <1>1, <2>2 DEF PlacesInv
    <3>2. Range(preEdit) = {Count + i : i \in 1 .. Count}
      BY <3>1 DEF Range
    <3>3. QED BY <1>1, <2>1, <3>1, <3>2
  <2>3. CASE ~Kept
    <3>1. preEdit = <<>> /\ DOMAIN maps = 1 .. Count
      BY <1>1, <2>3 DEF PlacesInv
    <3>2. Range(preEdit) = {}
      BY <3>1 DEF Range
    <3>3. QED BY <2>1, <3>1, <3>2
  <2>4. QED BY <2>2, <2>3
<1>3. IsSuffix(exprs, command.edits)
  <2>1. command.edits \in Seq(Range(command.edits)) /\ exprs \in Seq(Range(command.edits))
    BY <1>1 DEF MainInv, InputInv, EditsInv
  <2>2. Len(exprs) <= Len(command.edits)
        /\ \A j \in 1 .. Len(exprs) : exprs[j] = command.edits[Len(command.edits) - Len(exprs) + j]
    BY <1>1 DEF EditsInv, Done, Given
  <2>3. QED BY <2>1, <2>2, SuffixByPlaces
<1>4. QED BY <1>2, <1>3 DEF MapsTyped

LEMMA InitMapsTyped == Init => MapsTyped /\ StageTyped
<1> SUFFICES ASSUME Init PROVE MapsTyped /\ StageTyped
  OBVIOUS
<1>1. StageTyped
  BY DEF Init, StageTyped
<1>2. Range(ms) = {} /\ Range(preEdit) = {}
  BY DEF Init, Range
<1>3. IsSuffix(exprs, command.edits)
  <2> DEFINE S == Range(command.edits)
             t == command.edits
  <2>1. t \in Seq(S)
    BY InitMainInv DEF MainInv, InputInv
  <2> HIDE DEF S, t
  <2>2. <<>> \in Seq(S) /\ Len(<<>>) = 0 /\ Len(t) \in Nat
    BY <2>1, LenProperties
  <2>3. IsSuffix(<<>>, t)
    <3>1. Len(<<>>) <= Len(t) /\ \A j \in 1 .. Len(<<>>) : <<>>[j] = t[Len(t) - Len(<<>>) + j]
      BY <2>2
    <3>2. QED BY <2>1, <2>2, <3>1, SuffixByPlaces
  <2>4. QED BY <2>3 DEF Init, t
<1>4. QED BY <1>1, <1>2, <1>3 DEF MapsTyped

LEMMA StepMapsTyped ==
  ASSUME MapsTyped, StageTyped, [Next]_vars
  PROVE  StageTyped' /\ (MapsTyped' \/ stage' \notin Before)
<1>1. ASSUME UNCHANGED <<maps, ms, preEdit, exprs, command>> PROVE MapsTyped'
  BY <1>1 DEF MapsTyped
<1>2. CASE Loaded \/ EditOne
  <2>1. stage' = "edit"
    BY <1>2 DEF Loaded, EditOne
  <2>2. QED BY <2>1 DEF Before, StageTyped
<1>3. CASE Main \/ LoadTreeMaps \/ LoadFails
  <2>1. MapsTyped'
    BY <1>1, <1>3 DEF Main, LoadTreeMaps, LoadFails, inputVars, mapVars
  <2>2. StageTyped'
    BY <1>3 DEF Main, LoadTreeMaps, LoadFails, StageTyped, Final
  <2>3. QED BY <2>1, <2>2
<1>4. CASE EditFails \/ Decide
  <2>1. MapsTyped'
    BY <1>1, <1>4 DEF EditFails, Decide, inputVars, mapVars
  <2>2. StageTyped'
    BY <1>4 DEF EditFails, Decide, StageTyped, Final
  <2>3. QED BY <2>1, <2>2
<1>5. CASE Report \/ Start \/ Listen \/ BindFails
  <2>1. MapsTyped'
    BY <1>1, <1>5 DEF Report, Start, Listen, BindFails, inputVars, mapVars
  <2>2. StageTyped'
    BY <1>5 DEF Report, Start, Listen, BindFails, StageTyped, Final
  <2>3. QED BY <2>1, <2>2
<1>6. CASE UNCHANGED vars
  <2>1. MapsTyped'
    BY <1>1, <1>6 DEF vars, inputVars, mapVars
  <2>2. StageTyped'
    BY <1>6 DEF vars, StageTyped
  <2>3. QED BY <2>1, <2>2
<1>7. QED BY <1>2, <1>3, <1>4, <1>5, <1>6 DEF Next

(* The types of the command's state, for every set of files, documents and  *)
(* expressions: documents and snapshots are in memory, the expressions left *)
(* are the last ones given, and only addresses of the configuration are     *)
(* served (fasthttpd.go 153-300, dump.go 69-97).                            *)
THEOREM ConfigTypeCorrect == Spec => []TypeOK
<1>1. Init => MapsTyped /\ StageTyped
  BY InitMapsTyped
<1>2. MapsTyped /\ StageTyped /\ [Next]_vars => StageTyped' /\ (MapsTyped' \/ (stage \notin Before)')
  BY StepMapsTyped
<1>3. MainInv /\ stage \notin Before => MapsTyped
  BY LoadedTyped
<1>4. MainInv /\ MapsTyped /\ StageTyped => TypeOK
  BY DEF MainInv, LoadInv, MapsTyped, StageTyped, TypeOK
<1>5. QED BY <1>1, <1>2, <1>3, <1>4, MainInvariant, PTL DEF Spec

------------------------------------------------------------------------------
(* What was decided *)

(* A set of natural numbers has a least element.                            *)
LEMMA LeastOf == ASSUME NEW S \in SUBSET Nat, S # {} PROVE \E n \in S : \A m \in S : n <= m
<1> DEFINE Below == {ss \in Nat \X Nat : ss[1] < ss[2]}
<1>1. W!IsWellFoundedOn(Below, Nat)
  BY W!NatLessThanWellFounded DEF W!OpToRel
<1>2. PICK n \in S : \A m \in S : ~(<<m, n>> \in Below)
  <2> HIDE DEF Below
  <2>1. QED BY <1>1, W!WFMin
<1>3. ASSUME NEW m \in S PROVE n <= m
  <2>1. ~(<<m, n>> \in Below)
    BY <1>2
  <2>2. QED BY <2>1
<1>4. QED BY <1>3

LEMMA MinOf ==
  ASSUME NEW S \in SUBSET Nat, S # {}
  PROVE  Min(S) \in S /\ \A m \in S : Min(S) <= m
BY LeastOf DEF Min

(* A bounded one has a greatest.                                            *)
LEMMA MaxOf ==
  ASSUME NEW bound \in Nat, NEW S \in SUBSET (1 .. bound), S # {}
  PROVE  Max(S) \in S /\ \A m \in S : m <= Max(S)
<1> DEFINE T == {bound - m : m \in S}
<1>1. T \in SUBSET Nat /\ T # {}
  <2>1. \A m \in S : m \in 1 .. bound /\ bound - m \in Nat
    OBVIOUS
  <2>2. QED BY <2>1
<1>2. PICK t \in T : \A m \in T : t <= m
  <2> HIDE DEF T
  <2>1. QED BY <1>1, LeastOf
<1>3. PICK n \in S : t = bound - n
  OBVIOUS
<1>4. \A m \in S : n >= m
  <2>1. ASSUME NEW m \in S PROVE n >= m
    <3>1. bound - n <= bound - m
      BY <1>2, <1>3
    <3>2. QED BY <3>1
  <2>2. QED BY <2>1
<1>5. \E x \in S : \A y \in S : x >= y
  BY <1>4
<1>6. Max(S) \in S /\ \A m \in S : Max(S) >= m
  <2> HIDE DEF T
  <2>1. QED BY <1>5 DEF Max
<1>7. QED BY <1>6

(* When the expressions are used up, each document is what is meant.        *)
LEMMA FinalDocument ==
  ASSUME InputInv, EditsInv, exprs = <<>>, NEW i \in 1 .. Count
  PROVE  /\ DOMAIN maps[i] = Keys(i)
         /\ \A key \in Keys(i) : maps[i][key] = Meant(i, key)
<1> DEFINE edits == command.edits
<1>1. Given \in Nat /\ DOMAIN edits = 1 .. Given /\ Done = Given
  BY LenProperties DEF InputInv, Given, Done
<1>2. \A key : Applied(edits, Done, i, key) = Edits(i, key)
  BY <1>1 DEF Applied, Edits
<1>3. Follow(maps[i], AsWritten[i], edits, Done, i)
  BY DEF EditsInv
<1>4. \A n \in 1 .. Given : edits[n].key \in DOMAIN Kind \cup {"misspelt"}
  BY <1>1 DEF InputInv, EditsInv
<1>5. \A key : Edits(i, key) # {} => key \in DOMAIN Kind \cup {"misspelt"}
  BY <1>1, <1>4 DEF Edits
<1>6. DOMAIN maps[i] = Keys(i)
  <2>1. \A key : key \in DOMAIN maps[i] <=> key \in DOMAIN AsWritten[i] \/ Edits(i, key) # {}
    BY <1>2, <1>3 DEF Follow
  <2>2. \A key : key \in Keys(i) <=> key \in DOMAIN AsWritten[i] \/ Edits(i, key) # {}
    BY <1>5 DEF Keys
  <2>3. QED BY <2>1, <2>2
<1>7. ASSUME NEW key \in Keys(i) PROVE maps[i][key] = Meant(i, key)
  <2>1. CASE Edits(i, key) = {}
    BY <1>2, <1>3, <1>6, <2>1 DEF Follow, Meant
  <2>2. CASE Edits(i, key) # {}
    <3> DEFINE E == Edits(i, key)
    <3>1. E \in SUBSET (1 .. Given)
      BY <1>1 DEF Edits
    <3>2. Max(E) \in E /\ \A m \in E : m <= Max(E)
      <4> HIDE DEF E
      <4>1. E # {}
        BY <2>2 DEF E
      <4>2. QED BY <1>1, <3>1, <4>1, MaxOf
    <3>3. maps[i][key] = Literal(edits[Max(E)].value)
      <4>1. \A n \in E : (\A m \in E : m <= n) => maps[i][key] = Literal(edits[n].value)
        BY <1>2, <1>3, <1>6 DEF Follow
      <4> HIDE DEF E
      <4>2. QED BY <3>2, <4>1
    <3>4. QED BY <2>2, <3>3 DEF Meant
  <2>3. QED BY <2>1, <2>2
<1>8. QED BY <1>6, <1>7

(* What Decode makes of a document, field by field.                         *)
LEMMA DecodeFields ==
  ASSUME NEW d
  PROVE  /\ Decode(d).ssl = IF IsSet(d, "ssl") THEN d["ssl"].is ELSE NoSSL
         /\ Decode(d).shutdownTimeout =
              IF IsSet(d, "shutdownTimeout") THEN d["shutdownTimeout"].is ELSE <<30, "s">>
         /\ Decode(d).routes = IF IsSet(d, "routes") THEN d["routes"].is ELSE <<>>
         /\ Decode(d).handlers = IF IsSet(d, "handlers") THEN d["handlers"].is ELSE <<>>
BY DEF Decode, Decoded, Defaults, Kind

(* The schema, the decoder and Normalize accept exactly the acceptable.     *)
LEMMA AcceptedIsAcceptable ==
  ASSUME InputInv, EditsInv, exprs = <<>>, NEW i \in 1 .. Count
  PROVE  Accepted(maps[i]) <=> Acceptable(i)
<1> DEFINE d == maps[i]
           cfg == Decode(d)
           Has(key) == IsSet(d, key)
           handlers == IF Has("handlers") THEN d["handlers"].is ELSE <<>>
           Checked == \A key \in DOMAIN d : key \in DOMAIN Kind /\ Follows(Kind[key], d[key])
           Held == \A key \in {"readBufferSize", "readTimeout"} \cap DOMAIN d :
                     d[key].tag # "float" /\ (d[key].tag = "int" => IsInt64(d[key].is))
           Timeout == Has("shutdownTimeout") =>
                        LET text == d["shutdownTimeout"].is
                        IN  text = <<>> \/ IsDuration(text)
           Routed == Has("routes") => Range(d["routes"].is) \subseteq DOMAIN handlers \cup {""}
           Homed == Has("ssl") /\ d["ssl"].is.autoCert =>
                      command.home \/ d["ssl"].is.autoCertCacheDir # NoFile
<1>1. DOMAIN d = Keys(i) /\ \A key \in DOMAIN d : d[key] = Meant(i, key)
  BY FinalDocument
<1>2. Acceptable(i) <=> Checked /\ Held /\ Timeout /\ Routed /\ Homed
  <2> HIDE DEF d
  <2>1. \A key : Has(key) <=> IsGiven(i, key)
    BY <1>1 DEF IsSet, IsGiven
  <2>2. \A key : Has(key) => d[key] = Meant(i, key)
    BY <1>1 DEF IsSet
  <2> HIDE DEF Has
  <2>3. QED BY <1>1, <2>1, <2>2 DEF Acceptable
<1> HIDE DEF d
<1>3. Valid(d) <=> Checked
  BY DEF Valid
<1>4. Checked => (Decodable(d) <=> Held)
  BY DEF Decodable, Follows, Kind
<1>5. Normal(cfg) <=> Timeout /\ Routed /\ Homed
  <2> HIDE DEF cfg
  <2>0. /\ cfg.ssl = IF Has("ssl") THEN d["ssl"].is ELSE NoSSL
        /\ cfg.shutdownTimeout = IF Has("shutdownTimeout") THEN d["shutdownTimeout"].is ELSE <<30, "s">>
        /\ cfg.routes = IF Has("routes") THEN d["routes"].is ELSE <<>>
        /\ cfg.handlers = handlers
    BY DecodeFields DEF cfg
  <2>1. (cfg.ssl.autoCert /\ cfg.ssl.autoCertCacheDir = NoFile => command.home) <=> Homed
    BY <2>0 DEF NoSSL
  <2>2. (cfg.shutdownTimeout # <<>> => IsDuration(cfg.shutdownTimeout)) <=> Timeout
    BY <2>0, ConfigAssumption DEF IsDuration
  <2>3. (\A k \in DOMAIN cfg.routes :
           cfg.routes[k] # "" => cfg.routes[k] \in DOMAIN cfg.handlers) <=> Routed
    <3>1. CASE Has("routes")
      <4> DEFINE routes == d["routes"].is
      <4>1. cfg.routes = routes /\ cfg.handlers = handlers
        BY <2>0, <3>1
      <4>2. Routed <=> \A k \in DOMAIN routes : routes[k] \in DOMAIN handlers \cup {""}
        BY <3>1 DEF Range
      <4> HIDE DEF routes, handlers, Routed
      <4>3. QED BY <4>1, <4>2
    <3>2. CASE ~Has("routes")
      <4>1. cfg.routes = <<>> /\ Routed
        BY <2>0, <3>2
      <4>2. DOMAIN <<>> = {}
        OBVIOUS
      <4> HIDE DEF Routed
      <4>3. QED BY <4>1, <4>2
    <3>3. QED BY <3>1, <3>2
  <2>4. QED BY <2>1, <2>2, <2>3 DEF Normal
<1>6. Accepted(d) <=> Acceptable(i)
  <2> HIDE DEF Checked, Held, Timeout, Routed, Homed
  <2>1. QED BY <1>2, <1>3, <1>4, <1>5 DEF Accepted
<1>7. QED BY <1>6 DEF d

LEMMA ProductNat == ASSUME NEW m \in Nat, NEW n \in Nat PROVE m * n \in Nat
OBVIOUS

(* What two's complement makes of a number is an int64, and differs from it *)
(* by whole multiples of 2^64.                                              *)
LEMMA WrappedMeans ==
  ASSUME NEW n \in Nat
  PROVE  /\ IsInt64(Wrapped(n))
         /\ \E lost \in 0 .. n : Wrapped(n) = n - lost * (2 * IntLimit)
<1> DEFINE L == 2 * IntLimit
           m == n + IntLimit
           q == m \div L
           r == m % L
<1>1. IntLimit \in Nat \ {0}
  BY ConfigAssumption
<1>2. L \in Nat \ {0} /\ m \in Nat /\ m < n + L
  BY <1>1
<1>3. q \in Nat /\ r \in 0 .. L - 1 /\ m = L * q + r
  <2> HIDE DEF L, m
  <2>1. QED BY <1>2
<1>4. Wrapped(n) = r - IntLimit
  BY DEF Wrapped
<1>5. IsInt64(Wrapped(n))
  <2> HIDE DEF r
  <2>1. QED BY <1>1, <1>3, <1>4 DEF IsInt64
<1>6. q \in 0 .. n
  <2> HIDE DEF L, m, q, r
  <2>1. SUFFICES ASSUME q >= n + 1 PROVE FALSE
    BY <1>3
  <2>2. L * q >= L * (n + 1)
    BY <1>2, <1>3, <2>1
  <2>3. L * (n + 1) >= n + L
    BY <1>2
  <2>4. L * q \in Nat /\ L * (n + 1) \in Nat
    BY <1>2, <1>3
  <2>5. QED BY <1>2, <1>3, <2>2, <2>3, <2>4
<1>7. Wrapped(n) = n - q * L
  <2>1. q * L = L * q /\ L * q \in Nat
    <3> HIDE DEF L, q
    <3>1. QED BY <1>2, <1>3
  <2>2. m = n + IntLimit
    OBVIOUS
  <2> HIDE DEF L, m, q, r
  <2>3. QED BY <1>1, <1>3, <1>4, <2>1, <2>2
<1>8. QED BY <1>5, <1>6, <1>7

(* What the decoder makes of a size or a duration is what it means.         *)
LEMMA DecodedMeans ==
  ASSUME NEW key \in {"readBufferSize", "readTimeout"}, NEW value,
         IsValue(key, value), Follows(Kind[key], value), value.tag \notin {"float", "null"}
  PROVE  IsMeant(key, value, Decoded(Kind[key], value))
<1>1. Kind["readBufferSize"] = "size" /\ Kind["readTimeout"] = "duration"
      /\ key \in DOMAIN Kind
  BY DEF Kind
<1>2. /\ value.tag \in {"int", "str"}
      /\ value.tag = "str" => value.is[1] \in Nat
      /\ value.tag = "str" /\ key = "readBufferSize" => value.is[2] \in DOMAIN UnitSize
  BY <1>1 DEF IsValue, Follows, IsSize, IsDuration
<1>3. CASE value.tag = "int"
  BY <1>3 DEF IsMeant, Decoded
<1>4. CASE value.tag = "str" /\ key = "readBufferSize"
  <2>1. Decoded(Kind[key], value) = Wrapped(Bytes(value.is))
    BY <1>1, <1>4 DEF Decoded, ParseSize, Bytes
  <2>2. Bytes(value.is) \in Nat
    <3> DEFINE number == value.is[1]
               unit == UnitSize[value.is[2]]
    <3>1. number \in Nat /\ unit \in Nat
      BY <1>2, <1>4, ConfigAssumption
    <3>2. Bytes(value.is) = number * unit
      BY DEF Bytes
    <3> HIDE DEF number, unit
    <3>3. QED BY <3>1, <3>2, ProductNat
  <2>3. QED BY <1>4, <2>1, <2>2, WrappedMeans DEF IsMeant
<1>5. CASE value.tag = "str" /\ key = "readTimeout"
  BY <1>1, <1>5 DEF IsMeant, Decoded, ParseDuration
<1>6. QED BY <1>2, <1>3, <1>4, <1>5

(* What is meant for a size or a duration is a number, or one with a suffix.*)
LEMMA MeantIsValue ==
  ASSUME LoadInv, InputInv, EditsInv, exprs = <<>>, NEW i \in 1 .. Count, NEW key \in Keys(i)
  PROVE  IsValue(key, Meant(i, key))
<1>1. DOMAIN command.edits = 1 .. Given /\ Given \in Nat /\ Done = Given
  BY LenProperties DEF InputInv, Given, Done
<1>2. CASE Edits(i, key) = {}
  <2>1. key \in DOMAIN AsWritten[i] /\ Meant(i, key) = AsWritten[i][key]
    BY <1>2 DEF Keys, Meant
  <2>2. CASE command.file
    <3>1. loaded \in Seq(File) /\ i \in 1 .. Len(loaded)
      BY <2>2, LoaderState DEF Count
    <3>2. loaded[i] \in File /\ DOMAIN loaded = 1 .. Len(loaded)
      BY <3>1, ElementOfSeq, LenProperties
    <3>3. AsWritten[i] = written[loaded[i]]
      BY <2>2, <3>1, <3>2 DEF AsWritten
    <3>4. QED BY <2>1, <3>2, <3>3 DEF InputInv
  <2>3. CASE ~command.file
    <3>1. AsWritten[i] = Minimal
      BY <2>3 DEF AsWritten, Count
    <3>2. key \in {"host", "handlers", "routes"}
      BY <2>1, <3>1 DEF Minimal
    <3>3. QED BY <3>2 DEF IsValue, Kind
  <2>4. QED BY <2>2, <2>3
<1>3. CASE Edits(i, key) # {}
  <2> DEFINE E == Edits(i, key)
  <2>1. E \in SUBSET (1 .. Given)
    BY <1>1 DEF Edits
  <2>2. Max(E) \in E
    <3> HIDE DEF E
    <3>1. E # {}
      BY <1>3 DEF E
    <3>2. QED BY <1>1, <2>1, <3>1, MaxOf
  <2>3. PICK n \in 1 .. Given : /\ n \in E /\ Meant(i, key) = Literal(command.edits[n].value)
    BY <1>3, <2>1, <2>2 DEF Meant
  <2>4. command.edits[n].key = key /\ command.edits[n] # BadExpr
    BY <1>1, <2>3 DEF Edits, EditsInv
  <2>5. IsValue(key, command.edits[n].value)
    BY <1>1, <2>4 DEF InputInv
  <2>6. QED BY <2>3, <2>5 DEF Literal, Str, IsValue
<1>4. QED BY <1>2, <1>3

LEMMA InvAsConfigured == MainInv => AsConfigured
<1> SUFFICES ASSUME MainInv PROVE AsConfigured
  OBVIOUS
<1> DEFINE faulty == \/ outcome \in {"circular", "failed"}
                     \/ BadExpr \in Range(command.edits)
                     \/ \E i \in DOMAIN AsWritten : ~Acceptable(i)
           Says(i, key, v) ==
             IF ~IsGiven(i, key) THEN v = Defaults[key]
             ELSE IF Kind[key] \in {"size", "duration"} THEN IsMeant(key, Meant(i, key), v)
             ELSE IF key = "ssl" THEN v = Secured(Meant(i, key).is)
             ELSE v = Meant(i, key).is
<1>1. LoadInv /\ InputInv /\ DOMAIN AsWritten = 1 .. Count
  BY Documents DEF MainInv
<1>2. BadExpr \in Range(command.edits) <=> \E n \in DOMAIN command.edits : command.edits[n] = BadExpr
  BY DEF Range
<1>3. stage = "rejected" => faulty
  <2> SUFFICES ASSUME stage = "rejected" PROVE faulty
    OBVIOUS
  <2>1. RefusedInv
    BY DEF MainInv
  <2>2. QED BY <1>1, <1>2, <2>1, AcceptedIsAcceptable DEF RefusedInv
<1>4. ASSUME Accepting
      PROVE  /\ ~faulty /\ DOMAIN configs = DOMAIN AsWritten
             /\ \A i \in DOMAIN configs : \A key \in DOMAIN Kind : Says(i, key, configs[i][key])
  <2>1. EditsInv /\ DecidedInv /\ outcome = (IF command.file THEN "loaded" ELSE "none")
    BY <1>4 DEF MainInv, Before, Accepting
  <2>2. exprs = <<>> /\ \A i \in 1 .. Count : Accepted(maps[i])
    BY <2>1 DEF DecidedInv
  <2>3. ~(BadExpr \in Range(command.edits))
    <3>1. Done = Given /\ DOMAIN command.edits = 1 .. Given
      BY <1>1, <2>2, LenProperties DEF Done, Given, InputInv
    <3>2. QED BY <1>2, <2>1, <3>1 DEF EditsInv
  <2>4. ~faulty
    BY <1>1, <2>1, <2>2, <2>3, AcceptedIsAcceptable
  <2>5. DOMAIN configs = 1 .. Count
    BY <2>1 DEF DecidedInv
  <2>6. ASSUME NEW i \in 1 .. Count, NEW key \in DOMAIN Kind
        PROVE  Says(i, key, configs[i][key])
    <3> DEFINE d == maps[i]
               cfg == Decode(d)
    <3>1. configs[i] = Normalize(cfg)
      BY <2>1 DEF DecidedInv
    <3>2. DOMAIN d = Keys(i) /\ \A k \in Keys(i) : d[k] = Meant(i, k)
      BY <1>1, <2>1, <2>2, FinalDocument
    <3>3. cfg[key] = IF IsGiven(i, key) THEN Decoded(Kind[key], Meant(i, key)) ELSE Defaults[key]
      <4>1. IsSet(d, key) <=> IsGiven(i, key)
        BY <3>2 DEF IsSet, IsGiven
      <4>2. IsGiven(i, key) => d[key] = Meant(i, key)
        BY <3>2 DEF IsGiven
      <4>3. cfg[key] = IF IsSet(d, key) THEN Decoded(Kind[key], d[key]) ELSE Defaults[key]
        BY DEF Decode
      <4> HIDE DEF d, cfg
      <4>4. QED BY <4>1, <4>2, <4>3
    <3>4. Accepted(d)
      BY <2>2
    <3>5. key # "ssl" => configs[i][key] = cfg[key]
      BY <3>1 DEF Normalize, Decode
    <3>6. configs[i].ssl = Secured(cfg.ssl)
      <4>1. cfg = [k \in DOMAIN Kind |-> cfg[k]] /\ "ssl" \in DOMAIN Kind
        BY DEF Decode, Kind
      <4> HIDE DEF cfg
      <4>2. QED BY <3>1, <4>1 DEF Normalize, Secured
    <3> HIDE DEF d, cfg
    <3>7. CASE ~IsGiven(i, key)
      <4>1. Secured(NoSSL) = NoSSL /\ Defaults["ssl"] = NoSSL
        BY DEF Secured, NoSSL, Defaults
      <4>2. QED BY <3>3, <3>5, <3>6, <3>7, <4>1
    <3>8. CASE IsGiven(i, key) /\ Kind[key] \notin {"size", "duration"}
      <4>1. Decoded(Kind[key], Meant(i, key)) = Meant(i, key).is
        BY <3>8 DEF Decoded
      <4>2. QED BY <3>3, <3>5, <3>6, <3>8, <4>1
    <3>9. CASE IsGiven(i, key) /\ Kind[key] \in {"size", "duration"}
      <4>1. key \in {"readBufferSize", "readTimeout"} /\ key \in Keys(i)
        BY <3>9 DEF Kind, IsGiven
      <4>2. IsValue(key, Meant(i, key))
        BY <1>1, <2>1, <2>2, <4>1, MeantIsValue
      <4>3. Follows(Kind[key], Meant(i, key)) /\ Meant(i, key).tag \notin {"float", "null"}
        BY <3>2, <3>4, <3>9, <4>1 DEF Accepted, Valid, Decodable, IsGiven
      <4>4. IsMeant(key, Meant(i, key), Decoded(Kind[key], Meant(i, key)))
        BY <4>1, <4>2, <4>3, DecodedMeans
      <4>5. configs[i][key] = Decoded(Kind[key], Meant(i, key))
        BY <3>3, <3>5, <3>9, <4>1
      <4>6. QED BY <3>9, <4>4, <4>5
    <3>10. QED BY <3>7, <3>8, <3>9
  <2>7. QED BY <1>1, <2>4, <2>5, <2>6
<1>5. QED
  <2> HIDE DEF faulty
  <2>1. QED BY <1>3, <1>4 DEF AsConfigured, faulty

(* -t, -T and a start agree on what a configuration is and means, for every *)
(* set of files, every document, every list of expressions and every width  *)
(* of an integer: it is refused exactly when it is at fault, and accepted   *)
(* as the last expression for each key says, null and what is not written   *)
(* being the default and a size no int64 holds what a shift leaves of it    *)
(* (dump.go 69-97, fasthttpd.go 153-168, load.go 85-173, config.go 48-160,  *)
(* schema.go 154-229).                                                      *)
THEOREM ConfiguredTheorem == Spec => []AsConfigured
BY InvAsConfigured, MainInvariant, PTL
------------------------------------------------------------------------------
(* The documents of one address *)

(* Induction over places, with the set of those where a statement holds.    *)
LEMMA Induction ==
  ASSUME NEW N \in Nat, NEW S, 0 \in S, \A n \in 0 .. N - 1 : n \in S => n + 1 \in S
  PROVE  \A n \in 0 .. N : n \in S
<1> DEFINE T == {n \in 0 .. N : n \notin S}
<1> SUFFICES ASSUME T # {} PROVE FALSE
  OBVIOUS
<1>1. PICK n \in T : \A m \in T : n <= m
  <2>1. T \in SUBSET Nat
    OBVIOUS
  <2> HIDE DEF T
  <2>2. QED BY <2>1, LeastOf
<1>2. n # 0 /\ n - 1 \in 0 .. N - 1 /\ n - 1 \notin T
  BY <1>1
<1>3. n - 1 \in S
  BY <1>2
<1>4. (n - 1) + 1 \in S
  BY <1>2, <1>3
<1>5. QED BY <1>4

Recurs(g, N, X, c, Step) ==
  /\ g \in [0 .. N -> X]
  /\ g[0] = c
  /\ \A i \in 1 .. N : g[i] = Step[<<i, g[i - 1]>>]

(* A recursive function exists.                                             *)
LEMMA Recursion ==
  ASSUME NEW N \in Nat, NEW X, NEW c \in X, NEW Step \in [(1 .. N) \X X -> X]
  PROVE  \E g : Recurs(g, N, X, c, Step)
<1> DEFINE Good(n, g) == g \in [0 .. n -> X] /\ g[0] = c
                         /\ \A i \in 1 .. n : g[i] = Step[<<i, g[i - 1]>>]
           S == {n \in 0 .. N : \E g : Good(n, g)}
<1>1. 0 \in S
  <2>1. Good(0, [i \in 0 .. 0 |-> c])
    OBVIOUS
  <2> HIDE DEF Good
  <2>2. QED BY <2>1
<1>2. ASSUME NEW n \in 0 .. N - 1, n \in S PROVE n + 1 \in S
  <2>1. PICK g : Good(n, g)
    BY <1>2
  <2> DEFINE h == [i \in 0 .. n + 1 |-> IF i = n + 1 THEN Step[<<n + 1, g[n]>>] ELSE g[i]]
  <2>2. n + 1 \in 1 .. N /\ g[n] \in X /\ Step[<<n + 1, g[n]>>] \in X
    BY <2>1
  <2>3. h \in [0 .. n + 1 -> X] /\ h[0] = c
    BY <2>1, <2>2
  <2>4. ASSUME NEW i \in 1 .. n + 1 PROVE h[i] = Step[<<i, h[i - 1]>>]
    <3>1. i - 1 \in 0 .. n /\ h[i - 1] = g[i - 1]
      OBVIOUS
    <3>2. CASE i = n + 1
      BY <3>1, <3>2, SMTT(30)
    <3>3. CASE i # n + 1
      BY <3>1, <3>3, <2>1
    <3>4. QED BY <3>2, <3>3
  <2>5. Good(n + 1, h)
    BY <2>3, <2>4
  <2> HIDE DEF Good, h
  <2>6. QED BY <2>2, <2>5
<1> HIDE DEF S
<1>3. N \in S
  BY <1>1, <1>2, Induction
<1>4. QED BY <1>3 DEF S, Recurs

(* t is the elements of s at the positions in keep, in their order.         *)
IsSelection(t, s, keep) ==
  \E pos \in [1 .. Len(t) -> keep] :
    /\ \A i \in 1 .. Len(t), j \in 1 .. Len(t) : i < j => pos[i] < pos[j]
    /\ \A k \in keep : \E j \in 1 .. Len(t) : pos[j] = k
    /\ \A j \in 1 .. Len(t) : t[j] = s[pos[j]]

(* One more element is kept.                                                *)
LEMMA OneMoreSelected ==
  ASSUME NEW S, NEW s \in Seq(S), NEW t \in Seq(S), NEW keep, NEW n \in 1 .. Len(s),
         \A k \in keep : k \in Nat /\ k < n, IsSelection(t, s, keep)
  PROVE  Append(t, s[n]) \in Seq(S) /\ IsSelection(Append(t, s[n]), s, keep \cup {n})
<1> DEFINE u == Append(t, s[n])
           m == Len(t)
<1>1. PICK pos \in [1 .. m -> keep] :
        /\ \A i \in 1 .. m, j \in 1 .. m : i < j => pos[i] < pos[j]
        /\ \A k \in keep : \E j \in 1 .. m : pos[j] = k
        /\ \A j \in 1 .. m : t[j] = s[pos[j]]
  BY DEF IsSelection
<1>2. s[n] \in S
  BY ElementOfSeq
<1>3. /\ u \in Seq(S) /\ m \in Nat /\ Len(u) = m + 1 /\ u[m + 1] = s[n]
      /\ \A j \in 1 .. m : u[j] = t[j]
  BY <1>2, AppendProperties, LenProperties
<1> DEFINE q == [j \in 1 .. m + 1 |-> IF j = m + 1 THEN n ELSE pos[j]]
<1> HIDE DEF u, m
<1>4. \A j \in 1 .. m + 1 : j = m + 1 \/ j \in 1 .. m
  BY <1>3
<1>5. q \in [1 .. m + 1 -> keep \cup {n}]
  BY <1>1, <1>4
<1>6. q[m + 1] = n /\ \A j \in 1 .. m : q[j] = pos[j] /\ pos[j] \in keep
  BY <1>1, <1>3
<1> HIDE DEF q
<1>7. \A i \in 1 .. m + 1, j \in 1 .. m + 1 : i < j => q[i] < q[j]
  <2> SUFFICES ASSUME NEW i \in 1 .. m + 1, NEW j \in 1 .. m + 1, i < j PROVE q[i] < q[j]
    OBVIOUS
  <2>1. i \in 1 .. m
    BY <1>3
  <2>2. CASE j = m + 1
    BY <1>6, <2>1, <2>2
  <2>3. CASE j \in 1 .. m
    BY <1>1, <1>6, <2>1, <2>3
  <2>4. QED BY <1>4, <2>2, <2>3
<1>8. \A k \in keep \cup {n} : \E j \in 1 .. m + 1 : q[j] = k
  <2>1. m + 1 \in 1 .. m + 1 /\ \A j \in 1 .. m : j \in 1 .. m + 1
    BY <1>3
  <2>2. ASSUME NEW k \in keep PROVE \E j \in 1 .. m + 1 : q[j] = k
    <3>1. PICK j \in 1 .. m : pos[j] = k
      BY <1>1
    <3>2. QED BY <1>6, <2>1, <3>1
  <2>3. QED BY <1>6, <2>1, <2>2
<1>9. \A j \in 1 .. m + 1 : u[j] = s[q[j]]
  BY <1>1, <1>3, <1>4, <1>6
<1>10. IsSelection(u, s, keep \cup {n})
  <2>1. Len(u) = m + 1
    BY <1>3
  <2>2. /\ q \in [1 .. Len(u) -> keep \cup {n}]
        /\ \A i \in 1 .. Len(u), j \in 1 .. Len(u) : i < j => q[i] < q[j]
        /\ \A k \in keep \cup {n} : \E j \in 1 .. Len(u) : q[j] = k
        /\ \A j \in 1 .. Len(u) : u[j] = s[q[j]]
    BY <1>5, <1>7, <1>8, <1>9, <2>1
  <2>3. QED BY <2>2 DEF IsSelection
<1>11. QED BY <1>3, <1>10 DEF u

KeepOne(s, keep, n, t) == IF n \in keep THEN Append(t, s[n]) ELSE t

(* A loop that keeps some of the elements.                                  *)
LEMMA SelectedIsSelection ==
  ASSUME NEW S, NEW s \in Seq(S), NEW keep, \A k \in keep : k \in 1 .. Len(s)
  PROVE  Selected(s, keep) \in Seq(S) /\ IsSelection(Selected(s, keep), s, keep)
<1> DEFINE N == Len(s)
           Rec(g) == g = [n \in 0 .. N |-> IF n = 0 THEN <<>> ELSE KeepOne(s, keep, n, g[n - 1])]
<1>1. Selected(s, keep) = (CHOOSE g : Rec(g))[N]
  BY DEF Selected, KeepOne
<1>2. N \in Nat /\ (\A n \in 1 .. N : s[n] \in S) /\ \A k \in keep : k \in 1 .. N
  BY LenProperties, ElementOfSeq
<1>3. \E g : Rec(g)
  <2> DEFINE Step == [p \in (1 .. N) \X Seq(S) |-> KeepOne(s, keep, p[1], p[2])]
  <2> HIDE DEF N
  <2>1. Step \in [(1 .. N) \X Seq(S) -> Seq(S)]
    BY <1>2 DEF KeepOne
  <2>2. \A n \in 1 .. N, t \in Seq(S) : Step[<<n, t>>] = KeepOne(s, keep, n, t)
    OBVIOUS
  <2> HIDE DEF Step
  <2>3. PICK g \in [0 .. N -> Seq(S)] : g[0] = <<>> /\ \A n \in 1 .. N : g[n] = Step[<<n, g[n - 1]>>]
    <3>1. <<>> \in Seq(S)
      OBVIOUS
    <3>2. \E g : Recurs(g, N, Seq(S), <<>>, Step)
      BY <1>2, <2>1, <3>1, Recursion
    <3>3. QED BY <3>2 DEF Recurs
  <2>4. ASSUME NEW n \in 1 .. N PROVE g[n] = KeepOne(s, keep, n, g[n - 1])
    <3>1. g[n - 1] \in Seq(S)
      BY <1>2, <2>3
    <3>2. QED BY <2>2, <2>3, <3>1
  <2>5. Rec(g)
    BY <1>2, <2>3, <2>4
  <2> HIDE DEF Rec
  <2>6. QED BY <2>5
<1>4. PICK g : Rec(g) /\ Selected(s, keep) = g[N]
  <2> HIDE DEF Rec
  <2>1. QED BY <1>1, <1>3
<1>5. /\ g[0] = <<>>
      /\ \A n \in 1 .. N : g[n] = KeepOne(s, keep, n, g[n - 1])
  BY <1>2, <1>4
<1> HIDE DEF Rec, N
<1> DEFINE Upto(n) == {k \in keep : k <= n}
           P(n) == g[n] \in Seq(S) /\ IsSelection(g[n], s, Upto(n))
           T == {n \in 0 .. N : P(n)}
<1>6. 0 \in T
  <2>1. Upto(0) = {} /\ g[0] = <<>> /\ <<>> \in Seq(S) /\ Len(<<>>) = 0
    BY <1>2, <1>5
  <2>2. \E pos : pos \in [1 .. 0 -> {}]
    <3>1. [j \in 1 .. 0 |-> j] \in [1 .. 0 -> {}]
      OBVIOUS
    <3>2. QED BY <3>1
  <2> HIDE DEF Upto
  <2>3. IsSelection(<<>>, s, {})
    BY <2>1, <2>2 DEF IsSelection
  <2>4. P(0)
    BY <2>1, <2>3
  <2> HIDE DEF P
  <2>5. QED BY <1>2, <2>4
<1>7. ASSUME NEW n \in 0 .. N - 1, n \in T PROVE n + 1 \in T
  <2>1. n + 1 \in 1 .. N /\ g[n + 1] = KeepOne(s, keep, n + 1, g[n])
    <3>1. n + 1 \in 1 .. N /\ (n + 1) - 1 = n
      BY <1>2
    <3>2. g[n + 1] = KeepOne(s, keep, n + 1, g[(n + 1) - 1])
      BY <1>5, <3>1
    <3>3. QED BY <3>1, <3>2
  <2>2. P(n)
    BY <1>7
  <2>3. P(n + 1)
    <3>1. CASE n + 1 \in keep
      <4>1. g[n + 1] = Append(g[n], s[n + 1])
        BY <2>1, <3>1 DEF KeepOne
      <4>2. Upto(n + 1) = Upto(n) \cup {n + 1}
        BY <3>1, <1>2
      <4>3. \A k \in Upto(n) : k \in Nat /\ k < n + 1
        BY <1>2
      <4> HIDE DEF Upto
      <4>4. /\ Append(g[n], s[n + 1]) \in Seq(S)
            /\ IsSelection(Append(g[n], s[n + 1]), s, Upto(n) \cup {n + 1})
        BY <2>1, <2>2, <4>3, OneMoreSelected DEF N
      <4>5. QED BY <4>1, <4>2, <4>4
    <3>2. CASE n + 1 \notin keep
      <4>1. Upto(n + 1) = Upto(n)
        BY <3>2, <1>2
      <4>2. g[n + 1] = g[n]
        BY <2>1, <3>2 DEF KeepOne
      <4> HIDE DEF Upto
      <4>3. QED BY <2>2, <4>1, <4>2
    <3>3. QED BY <3>1, <3>2
  <2> HIDE DEF P
  <2>4. QED BY <2>1, <2>3
<1> HIDE DEF T
<1>8. N \in T
  <2>1. \A n \in 0 .. N : n \in T
    BY <1>2, <1>6, <1>7, Induction
  <2>2. QED BY <1>2, <2>1
<1>9. Upto(N) = keep
  BY <1>2
<1>10. P(N)
  BY <1>8 DEF T
<1>11. QED
  <2> HIDE DEF Upto
  <2>1. QED BY <1>4, <1>9, <1>10

LEMMA MinIs ==
  ASSUME NEW S, \A k \in S : k \in Nat, NEW n \in S, \A m \in S : n <= m
  PROVE  Min(S) = n
<1>1. \E x \in S : \A y \in S : x <= y
  OBVIOUS
<1>2. Min(S) \in S /\ \A y \in S : Min(S) <= y
  BY <1>1 DEF Min
<1>3. Min(S) <= n /\ n <= Min(S) /\ Min(S) \in Nat
  BY <1>2
<1>4. QED BY <1>3

(* The first of the documents here that has the host answers, or else the   *)
(* first of them.                                                           *)
AnswersFirst(t, s, here, header) ==
  LET named == {i \in here : s[i].host = HostOf(header)}
  IN  t[Answering(t, header)] = s[Min(IF named = {} THEN here ELSE named)]

LEMMA FirstAnswers ==
  ASSUME NEW S, NEW s \in Seq(S), NEW t \in Seq(S), NEW here, here # {},
         \A k \in here : k \in 1 .. Len(s), IsSelection(t, s, here), NEW header
  PROVE  AnswersFirst(t, s, here, header)
<1> DEFINE named == {i \in here : s[i].host = HostOf(header)}
           I == {j \in 1 .. Len(t) : t[j].host = HostOf(header)}
           m == Len(t)
<1>1. PICK pos \in [1 .. m -> here] :
        /\ \A i \in 1 .. m, j \in 1 .. m : i < j => pos[i] < pos[j]
        /\ \A k \in here : \E j \in 1 .. m : pos[j] = k
        /\ \A j \in 1 .. m : t[j] = s[pos[j]]
  BY DEF IsSelection
<1>2. m \in Nat /\ 1 \in 1 .. m /\ \A k \in here : k \in Nat
  <2>1. \E j \in 1 .. m : TRUE
    BY <1>1
  <2>2. QED BY <2>1, LenProperties
<1>3. Answering(t, header) = IF m > 1 /\ I # {} /\ Min(I) # 0 THEN Min(I) ELSE 1
  BY DEF Answering, SelectInSeq
<1>4. \A j \in 1 .. m : j \in I <=> pos[j] \in named
  BY <1>1
<1>5. named # {} <=> I # {}
  <2>1. ASSUME NEW k \in named PROVE I # {}
    <3>1. PICK j \in 1 .. m : pos[j] = k
      BY <1>1
    <3>2. QED BY <1>4, <3>1
  <2>2. ASSUME NEW j \in I PROVE named # {}
    BY <1>4
  <2>3. QED BY <2>1, <2>2
<1>6. \A i \in 1 .. m, j \in 1 .. m : i <= j => pos[i] <= pos[j]
  <2> SUFFICES ASSUME NEW i \in 1 .. m, NEW j \in 1 .. m, i <= j PROVE pos[i] <= pos[j]
    OBVIOUS
  <2>1. pos[i] \in Nat /\ pos[j] \in Nat
    BY <1>1, <1>2
  <2>2. CASE i < j
    BY <1>1, <2>1, <2>2
  <2>3. CASE i = j
    BY <2>1, <2>3
  <2>4. QED BY <2>2, <2>3
<1>7. Min(here) = pos[1]
  <2>1. ASSUME NEW k \in here PROVE pos[1] <= k
    <3>1. PICK j \in 1 .. m : pos[j] = k
      BY <1>1
    <3>2. QED BY <1>2, <1>6, <3>1
  <2>2. pos[1] \in here
    BY <1>1, <1>2
  <2>3. QED BY <1>2, <2>1, <2>2, MinIs
<1> SUFFICES t[Answering(t, header)] = s[Min(IF named = {} THEN here ELSE named)]
  BY DEF AnswersFirst
<1>8. CASE I = {}
  BY <1>1, <1>2, <1>3, <1>5, <1>7, <1>8
<1>9. CASE I # {} /\ m > 1
  <2> HIDE DEF I, named
  <2>1. Min(I) \in I /\ (\A j \in I : Min(I) <= j) /\ Min(I) \in 1 .. m
    <3>1. I \in SUBSET Nat /\ \A j \in I : j \in 1 .. m
      BY <1>2 DEF I
    <3>2. QED BY <1>9, <3>1, MinOf
  <2>2. Min(named) = pos[Min(I)]
    <3>1. \A k \in named : k \in Nat /\ k \in here
      BY <1>2 DEF named
    <3>2. pos[Min(I)] \in named
      BY <1>4, <2>1
    <3>3. ASSUME NEW k \in named PROVE pos[Min(I)] <= k
      <4>1. PICK j \in 1 .. m : pos[j] = k
        BY <1>1, <3>1
      <4>2. j \in I
        BY <1>4, <4>1
      <4>3. QED BY <1>6, <2>1, <4>1, <4>2
    <3>4. QED BY <3>1, <3>2, <3>3, MinIs
  <2>3. Answering(t, header) = Min(I)
    BY <1>2, <1>3, <1>9, <2>1
  <2>4. named # {}
    BY <1>5, <1>9
  <2>5. t[Min(I)] = s[pos[Min(I)]]
    BY <1>1, <2>1
  <2>6. t[Answering(t, header)] = s[Min(IF named = {} THEN here ELSE named)]
    BY <2>2, <2>3, <2>4, <2>5
  <2>7. QED BY <2>6 DEF named
<1>10. CASE I # {} /\ ~(m > 1)
  <2>1. m = 1 /\ Answering(t, header) = 1
    <3> HIDE DEF I, m
    <3>1. m \in Nat /\ 1 <= m /\ ~(m > 1)
      BY <1>2, <1>10
    <3>2. m = 1
      BY <3>1
    <3>3. QED BY <1>3, <3>1, <3>2
  <2>2. \A k \in here : k = pos[1]
    <3>1. \A k \in here : \E j \in 1 .. 1 : pos[j] = k
      BY <1>1, <2>1
    <3>2. QED BY <3>1
  <2>3. named # {}
    BY <1>5, <1>10
  <2>4. Min(named) = pos[1]
    <3>1. pos[1] \in named /\ \A k \in named : k \in Nat /\ pos[1] <= k
      BY <1>2, <2>2, <2>3
    <3> HIDE DEF named
    <3>2. QED BY <3>1, MinIs
  <2>5. t[1] = s[pos[1]]
    BY <1>1, <1>2
  <2>6. t[Answering(t, header)] = s[Min(IF named = {} THEN here ELSE named)]
    BY <2>1, <2>3, <2>4, <2>5
  <2>7. QED BY <2>6
<1>11. QED BY <1>8, <1>9, <1>10

(* The group of an address that is served.                                  *)
LEMMA Served ==
  ASSUME MainInv, NEW address \in listening
  PROVE  LET here == {i \in DOMAIN configs : configs[i].listen = address}
         IN  \E S : /\ configs \in Seq(S) /\ Group(address) \in Seq(S)
                    /\ DOMAIN configs = 1 .. Len(configs)
                    /\ here # {}
                    /\ IsSelection(Group(address), configs, here)
<1> DEFINE here == {i \in DOMAIN configs : configs[i].listen = address}
           S == Range(configs)
<1>1. DecidedInv /\ listening \subseteq Addresses
  BY DEF MainInv
<1>2. Count \in Nat /\ configs = [i \in 1 .. Count |-> Normalize(Decode(maps[i]))]
  BY <1>1, Documents DEF MainInv, DecidedInv
<1>3. configs \in Seq(S) /\ DOMAIN configs = 1 .. Len(configs)
  <2> DEFINE c == [i \in 1 .. Count |-> Normalize(Decode(maps[i]))]
  <2>1. \A i \in 1 .. Count : c[i] \in Range(c)
    BY DEF Range
  <2>2. c \in Seq(Range(c)) /\ Len(c) = Count /\ DOMAIN c = 1 .. Count
    BY <1>2, <2>1, IsASeq
  <2>3. QED BY <1>2, <2>2
<1>4. here # {}
  BY <1>1 DEF Addresses
<1>5. \A k \in here : k \in 1 .. Len(configs)
  BY <1>3
<1> HIDE DEF here, S
<1>6. Selected(configs, here) \in Seq(S) /\ IsSelection(Selected(configs, here), configs, here)
  BY <1>3, <1>5, SelectedIsSelection
<1>7. Group(address) = Selected(configs, here)
  BY DEF Group, here
<1>8. QED
  <2> USE DEF here
  <2>1. QED BY <1>3, <1>4, <1>6, <1>7

(* A request is answered by the first document of its address with the host *)
(* it names, and by the first of the address when none has it, for every    *)
(* configuration (server.go 73-86, fasthttpd.go 169-172).                   *)
THEOREM HostTheorem == Spec => []RightHost
<1>1. MainInv => RightHost
  <2> SUFFICES ASSUME MainInv, NEW address \in listening, NEW header \in Header
               PROVE  LET here == {i \in DOMAIN configs : configs[i].listen = address}
                          named == {i \in here : configs[i].host = SubSeq(header, 1, 1)}
                      IN  Group(address)[Answering(Group(address), header)]
                            = configs[Min(IF named = {} THEN here ELSE named)]
    BY DEF RightHost
  <2> DEFINE here == {i \in DOMAIN configs : configs[i].listen = address}
             t == Group(address)
  <2>1. PICK S : /\ configs \in Seq(S) /\ t \in Seq(S) /\ DOMAIN configs = 1 .. Len(configs)
                 /\ here # {} /\ IsSelection(t, configs, here)
    BY Served
  <2>2. SubSeq(header, 1, 1) = HostOf(header)
    <3>1. header \in Seq(STRING) /\ header # <<>>
      BY ConfigAssumption
    <3>2. header \in Seq(STRING) /\ Len(header) \in Nat /\ Len(header) > 0 /\ Head(header) = header[1]
      BY <3>1, EmptySeq, LenProperties, HeadTailProperties
    <3>3. SubSeq(header, 1, 1) = [i \in 1 .. 1 |-> header[i]]
      BY <3>2
    <3>4. [i \in 1 .. 1 |-> header[i]] = <<header[1]>>
      OBVIOUS
    <3>5. QED BY <3>2, <3>3, <3>4 DEF HostOf
  <2>3. \A k \in here : k \in 1 .. Len(configs)
    BY <2>1
  <2> HIDE DEF here, t
  <2>4. AnswersFirst(t, configs, here, header)
    BY <2>1, <2>3, FirstAnswers
  <2>5. QED BY <2>2, <2>4 DEF here, t, AnswersFirst
<1>2. QED BY <1>1, MainInvariant, PTL

(* The certificate files of the documents here.                             *)
OwnFiles(s, here) == {s[i].ssl.certFile : i \in {k \in here : IsStatic(s[k].ssl)}}

(* Certificates lists them, and nothing else.                               *)
LEMMA CertificatesAreOwn ==
  ASSUME NEW S, NEW s \in Seq(S), NEW t \in Seq(S), NEW here, IsSelection(t, s, here)
  PROVE  /\ Certificates(t) \in Seq(OwnFiles(s, here))
         /\ \A file \in OwnFiles(s, here) :
              \E j \in 1 .. Len(Certificates(t)) : Certificates(t)[j] = file
<1> DEFINE K == {i \in DOMAIN t : IsStatic(t[i].ssl)}
           st == Selected(t, K)
           c == [i \in 1 .. Len(st) |-> st[i].ssl.certFile]
<1>1. PICK pos \in [1 .. Len(t) -> here] :
        /\ \A k \in here : \E j \in 1 .. Len(t) : pos[j] = k
        /\ \A j \in 1 .. Len(t) : t[j] = s[pos[j]]
  BY DEF IsSelection
<1>2. DOMAIN t = 1 .. Len(t) /\ \A k \in K : k \in 1 .. Len(t) /\ IsStatic(t[k].ssl)
  BY LenProperties
<1>3. \A k \in 1 .. Len(t) : IsStatic(t[k].ssl) => k \in K
  BY <1>2
<1> HIDE DEF K
<1>4. st \in Seq(S) /\ IsSelection(st, t, K)
  BY <1>2, SelectedIsSelection
<1>5. Certificates(t) = [i \in DOMAIN st |-> st[i].ssl.certFile]
  BY DEF Certificates, K
<1> HIDE DEF st
<1>6. Certificates(t) = c /\ Len(st) \in Nat
  BY <1>4, <1>5, LenProperties
<1>7. PICK at \in [1 .. Len(st) -> K] :
        /\ \A k \in K : \E j \in 1 .. Len(st) : at[j] = k
        /\ \A j \in 1 .. Len(st) : st[j] = t[at[j]]
  BY <1>4 DEF IsSelection
<1>8. ASSUME NEW j \in 1 .. Len(st) PROVE c[j] \in OwnFiles(s, here)
  <2>1. at[j] \in 1 .. Len(t) /\ IsStatic(t[at[j]].ssl) /\ st[j] = t[at[j]]
    BY <1>2, <1>7
  <2>2. pos[at[j]] \in here /\ st[j] = s[pos[at[j]]]
    BY <1>1, <2>1
  <2>3. QED BY <2>1, <2>2 DEF OwnFiles
<1>9. c \in Seq(OwnFiles(s, here)) /\ Len(c) = Len(st)
  BY <1>6, <1>8, IsASeq
<1>10. ASSUME NEW file \in OwnFiles(s, here) PROVE \E j \in 1 .. Len(st) : c[j] = file
  <2>1. PICK i \in here : IsStatic(s[i].ssl) /\ file = s[i].ssl.certFile
    BY DEF OwnFiles
  <2>2. PICK k \in 1 .. Len(t) : t[k] = s[i]
    BY <1>1
  <2>3. PICK j \in 1 .. Len(st) : at[j] = k
    BY <1>3, <1>7, <2>1, <2>2
  <2>4. QED BY <1>7, <2>1, <2>2, <2>3
<1> HIDE DEF c
<1>11. QED BY <1>6, <1>9, <1>10

(* The host of a document with autocert is on the list of a manager.        *)
LEMMA ManagersHaveHosts ==
  ASSUME NEW S, NEW s \in Seq(S), NEW t \in Seq(S), NEW here, IsSelection(t, s, here),
         NEW i \in here, s[i].ssl.autoCert
  PROVE  \E hosts \in Managers(t) : s[i].host \in hosts
<1>1. PICK j \in 1 .. Len(t) : t[j] = s[i]
  BY DEF IsSelection
<1>2. j \in DOMAIN t /\ t[j].ssl.autoCert /\ t[j].host = s[i].host
  BY <1>1, LenProperties
<1> DEFINE auto == {k \in DOMAIN t : t[k].ssl.autoCert}
           dir == t[j].ssl.autoCertCacheDir
           listed == {t[k].host : k \in {k \in auto : t[k].ssl.autoCertCacheDir = dir}}
<1>3. listed \in Managers(t)
  BY <1>2 DEF Managers
<1>4. s[i].host \in listed
  BY <1>2
<1>5. QED BY <1>3, <1>4

(* A client that names a host is shown a certificate for it whenever a      *)
(* document of the address has one, for every configuration and every       *)
(* certificate (tls.go 22-77, 85-102).                                      *)
THEOREM CertificateTheorem == Spec => []RightCertificate
<1>1. MainInv => RightCertificate
  <2> SUFFICES ASSUME MainInv, NEW address \in listening PROVE
        LET here == {i \in DOMAIN configs : configs[i].listen = address}
            Has(i, host, issuing) ==
              IF configs[i].ssl.autoCert THEN configs[i].host = host /\ host \in issuing
              ELSE IsStatic(configs[i].ssl) /\ host \in Covers[configs[i].ssl.certFile]
        IN  \A host, issuing :
              (\E i \in here : Has(i, host, issuing)) =>
                /\ IsTLS(Group(address))
                /\ LET shown == GetCertificate(Group(address), host, issuing)
                       own == {configs[i].ssl.certFile : i \in {k \in here : IsStatic(configs[k].ssl)}}
                   IN  \/ shown = Issued(host) /\ host \in issuing
                       \/ \E file \in own : shown = Own(file) /\ host \in Covers[file]
    BY DEF RightCertificate
  <2> DEFINE here == {i \in DOMAIN configs : configs[i].listen = address}
             t == Group(address)
             c == Certificates(t)
             own == OwnFiles(configs, here)
             Has(i, host, issuing) ==
               IF configs[i].ssl.autoCert THEN configs[i].host = host /\ host \in issuing
               ELSE IsStatic(configs[i].ssl) /\ host \in Covers[configs[i].ssl.certFile]
             Right(host, shown, issuing) ==
               \/ shown = Issued(host) /\ host \in issuing
               \/ \E file \in own : shown = Own(file) /\ host \in Covers[file]
  <2>1. PICK S : /\ configs \in Seq(S) /\ t \in Seq(S) /\ IsSelection(t, configs, here)
    BY Served
  <2> HIDE DEF here, t
  <2>2. /\ c \in Seq(own)
        /\ \A file \in own : \E j \in 1 .. Len(c) : c[j] = file
    BY <2>1, CertificatesAreOwn
  <2>3. ASSUME NEW i \in here, configs[i].ssl.autoCert
        PROVE  \E hosts \in Managers(t) : configs[i].host \in hosts
    BY <2>1, <2>3, ManagersHaveHosts
  <2>4. ASSUME NEW i \in here, IsStatic(configs[i].ssl)
        PROVE  configs[i].ssl.certFile \in own
    BY <2>4 DEF OwnFiles
  <2> HIDE DEF own, c
  <2>5. ASSUME NEW host, NEW issuing, NEW i \in here, Has(i, host, issuing)
        PROVE  IsTLS(t) /\ Right(host, GetCertificate(t, host, issuing), issuing)
    <3> DEFINE J == {j \in 1 .. Len(c) : host \in Covers[c[j]]}
               shown == GetCertificate(t, host, issuing)
    <3>1. Len(c) \in Nat /\ \A j \in 1 .. Len(c) : c[j] \in own
      BY <2>2, LenProperties, ElementOfSeq
    <3>2. shown = IF (IF J # {} THEN Min(J) ELSE 0) # 0 THEN Own(c[IF J # {} THEN Min(J) ELSE 0])
                  ELSE IF \E hosts \in Managers(t) : host \in hosts \cap issuing THEN Issued(host)
                  ELSE IF c # <<>> THEN Own(c[1]) ELSE NoCertificate
      BY DEF GetCertificate, SelectInSeq, c
    <3> HIDE DEF shown
    <3>3. CASE J # {}
      <4>1. Min(J) \in J
        <5>1. J \in SUBSET Nat
          BY <3>1
        <5> HIDE DEF J
        <5>2. QED BY <3>3, <5>1, MinOf
      <4>2. Min(J) \in 1 .. Len(c) /\ host \in Covers[c[Min(J)]] /\ Min(J) # 0
        BY <3>1, <4>1
      <4> HIDE DEF J
      <4>3. shown = Own(c[Min(J)])
        BY <3>2, <3>3, <4>2
      <4>4. c # <<>>
        <5>1. Len(c) > 0
          BY <3>1, <4>2
        <5>2. QED BY <5>1
      <4>5. IsTLS(t)
        BY <4>4 DEF IsTLS, c
      <4>6. Right(host, shown, issuing)
        BY <3>1, <4>2, <4>3
      <4>7. QED BY <4>5, <4>6 DEF shown
    <3>4. CASE J = {}
      <4>1. configs[i].ssl.autoCert /\ configs[i].host = host /\ host \in issuing
        <5> SUFFICES ASSUME ~configs[i].ssl.autoCert PROVE FALSE
          BY <2>5
        <5>1. IsStatic(configs[i].ssl) /\ host \in Covers[configs[i].ssl.certFile]
          BY <2>5
        <5>2. PICK j \in 1 .. Len(c) : c[j] = configs[i].ssl.certFile
          BY <2>2, <2>4, <5>1
        <5>3. QED BY <3>4, <5>1, <5>2
      <4>2. PICK hosts \in Managers(t) : host \in hosts
        BY <2>3, <4>1
      <4> HIDE DEF J
      <4>3. shown = Issued(host)
        BY <3>2, <3>4, <4>1, <4>2
      <4>4. IsTLS(t)
        BY <4>2 DEF IsTLS
      <4>5. QED BY <4>1, <4>3, <4>4 DEF shown
    <3>5. QED BY <3>3, <3>4
  <2>6. QED BY <2>5 DEF here, t, own, OwnFiles
<1>2. QED BY <1>1, MainInvariant, PTL

------------------------------------------------------------------------------
(* The steps of the loader, by what they do to the calls *)

Depth == Len(stack)

CallsBelow(k) == \A i \in 1 .. k : stack'[i] = stack[i]

Pushes ==
  /\ outcome = "none" /\ UNCHANGED <<content, outcome, loaded>>
  /\ stack' \in Seq(Frame) /\ Len(stack') = Depth + 1 /\ Depth < MaxDepth
  /\ Callee \in File /\ Readable(Callee) /\ content[Callee] \in Seq(Document)
  /\ \A i \in 1 .. Depth : stack[i].file # Callee
  /\ Depth = 0 => Callee = AbsOf[Root]
  /\ Depth > 0 =>
       /\ CallsBelow(Depth - 1)
       /\ stack[Depth].paths # <<>> /\ Callee = AbsOf[Head(stack[Depth].paths)]
       /\ stack'[Depth].file = stack[Depth].file /\ stack'[Depth].docs = stack[Depth].docs
       /\ stack'[Depth].out = stack[Depth].out /\ stack'[Depth].paths = Tail(stack[Depth].paths)
  /\ stack'[Depth + 1].file = Callee /\ stack'[Depth + 1].docs = content[Callee]
  /\ stack'[Depth + 1].paths = <<>> /\ stack'[Depth + 1].out = <<>>

TakesOne ==
  /\ outcome = "none" /\ UNCHANGED <<content, outcome, loaded>>
  /\ Depth > 0 /\ stack' \in Seq(Frame) /\ Len(stack') = Depth /\ CallsBelow(Depth - 1)
  /\ stack[Depth].docs # <<>> /\ stack[Depth].paths = <<>>
  /\ stack'[Depth].file = stack[Depth].file /\ stack'[Depth].docs = Tail(stack[Depth].docs)
  /\ LET doc == Head(stack[Depth].docs)
     IN  \/ /\ doc = Plain
            /\ stack'[Depth].paths = <<>> /\ stack'[Depth].out = Append(stack[Depth].out, stack[Depth].file)
         \/ /\ doc \notin {Plain, BadPattern}
            /\ stack'[Depth].paths = doc /\ stack'[Depth].out = stack[Depth].out

Pops ==
  /\ outcome = "none" /\ UNCHANGED <<content, outcome, loaded>>
  /\ Depth > 1 /\ stack' \in Seq(Frame) /\ Len(stack') = Depth - 1 /\ CallsBelow(Depth - 2)
  /\ stack[Depth].docs = <<>> /\ stack[Depth].paths = <<>>
  /\ stack'[Depth - 1].file = stack[Depth - 1].file /\ stack'[Depth - 1].docs = stack[Depth - 1].docs
  /\ stack'[Depth - 1].paths = stack[Depth - 1].paths
  /\ stack'[Depth - 1].out = stack[Depth - 1].out \o stack[Depth].out

Finishes ==
  /\ outcome = "none" /\ UNCHANGED content
  /\ Depth = 1 /\ stack' = <<>> /\ outcome' = "loaded" /\ loaded' = stack[1].out
  /\ stack[1].docs = <<>> /\ stack[1].paths = <<>>

Fails ==
  /\ outcome = "none" /\ UNCHANGED <<content, stack, loaded>>
  /\ outcome' = "failed"

LEMMA ListedOnStack ==
  ASSUME LoadInv
  PROVE  Listed(LoadedPaths, Callee) <=> \E i \in 1 .. Depth : stack[i].file = Callee
<1>1. /\ Depth \in Nat /\ stack \in Seq(Frame) /\ DOMAIN stack = 1 .. Depth
      /\ stack # <<>> => Depth > 0 /\ Top = stack[Depth]
      /\ stack = <<>> => Depth = 0
  BY LoaderState, LenProperties, EmptySeq DEF Depth
<1>2. CASE stack = <<>>
  <2>1. Elements(LoadedPaths) = <<>>
    BY <1>2 DEF LoadedPaths, NilSlice, Elements
  <2>2. QED BY <1>1, <1>2, <2>1 DEF Listed, Range
<1>3. CASE stack # <<>>
  <2>1. Elements(LoadedPaths) = [j \in 1 .. Depth |-> stack[j].file]
    BY <1>1, <1>3, ChainListed DEF ChainExact, LoadedPaths
  <2>2. QED BY <2>1 DEF Listed, Range
<1>4. QED BY <1>2, <1>3

LEMMA LoadPushes == ASSUME LoadInv, Load PROVE Pushes
<1> DEFINE n == Depth
           new == AppendPath(LoadedPaths, Callee)
           caller == IF stack = <<>> THEN <<>> ELSE [stack EXCEPT ![n].paths = Tail(@)]
           call == [file |-> Callee, docs |-> content[Callee], paths |-> <<>>,
                    loadedPaths |-> new.slice, out |-> <<>>]
<1>1. /\ stack' = Append(caller, call)
      /\ UNCHANGED <<content, outcome, loaded>> /\ outcome = "none" /\ n < MaxDepth
      /\ Readable(Callee) /\ ~Listed(LoadedPaths, Callee)
      /\ stack # <<>> => Top.paths # <<>>
  BY DEF Load, Calling, Depth, Readable
<1>2. /\ n \in Nat /\ stack \in Seq(Frame)
      /\ content \in [File -> Seq(Document) \cup {Unreadable, Malformed}]
      /\ stack # <<>> => n > 0 /\ Top = stack[n] /\ Top \in Frame
      /\ n > 0 => stack # <<>>
  BY LoaderState, EmptySeq DEF Depth
<1>3. Callee \in File /\ content[Callee] \in Seq(Document)
  <2>1. stack # <<>> => Head(Top.paths) \in Name
    BY <1>1, <1>2, HeadTailProperties DEF Frame
  <2>2. Callee \in File
    BY <2>1, LoadAssumption DEF Callee, LoadAssumption
  <2>3. QED BY <1>1, <1>2, <2>2 DEF Readable
<1>4. stack' \in Seq(Frame)
  BY LoadKeeps DEF LoadInv, LoadTypeOK
<1>5. /\ Len(caller) = n /\ caller \in Seq(Frame)
      /\ n > 0 => /\ \A i \in 1 .. n - 1 : caller[i] = stack[i]
                  /\ caller[n].file = stack[n].file /\ caller[n].docs = stack[n].docs
                  /\ caller[n].out = stack[n].out /\ caller[n].paths = Tail(stack[n].paths)
  <2>1. CASE stack = <<>>
    BY <1>2, <2>1
  <2>2. CASE stack # <<>>
    <3> DEFINE top == [stack[n] EXCEPT !.paths = Tail(@)]
    <3>1. top \in Frame /\ top.file = stack[n].file /\ top.docs = stack[n].docs
          /\ top.out = stack[n].out /\ top.paths = Tail(stack[n].paths)
      <4>1. Tail(stack[n].paths) \in Seq(Name)
        BY <1>1, <1>2, <2>2, HeadTailProperties DEF Frame
      <4>2. QED BY <1>2, <2>2, <4>1 DEF Frame
    <3>2. n \in 1 .. n /\ caller = [stack EXCEPT ![n] = top]
      BY <1>2, <2>2
    <3> HIDE DEF top, caller
    <3>3. stack \in Seq(Frame) /\ n \in 1 .. Len(stack) /\ top \in Frame
      BY <1>2, <3>1, <3>2 DEF Depth
    <3>4. /\ caller \in Seq(Frame) /\ Len(caller) = n
          /\ \A i \in 1 .. n : caller[i] = IF i = n THEN top ELSE stack[i]
      BY <3>2, <3>3, OneReplaced DEF Depth
    <3>5. caller[n] = top /\ \A i \in 1 .. n - 1 : caller[i] = stack[i]
      BY <1>2, <3>2, <3>4
    <3>6. QED BY <3>1, <3>4, <3>5
  <2>3. QED BY <2>1, <2>2
<1>6. call \in Frame
  <2>1. LoadedPaths \in [array : Nat, len : Nat] /\ IsSlice(LoadedPaths)
    BY SliceOfCaller
  <2>2. new.slice \in [array : Nat, len : Nat]
    BY <1>2, <1>3, <2>1, LoaderState, AppendPathAppends DEF Appends
  <2> HIDE DEF new
  <2>3. QED BY <1>3, <2>2 DEF Frame
<1>7. call.file = Callee /\ call.docs = content[Callee] /\ call.paths = <<>> /\ call.out = <<>>
  OBVIOUS
<1> HIDE DEF caller, call
<1>8. /\ Len(stack') = n + 1 /\ stack'[n + 1] = call
      /\ \A i \in 1 .. n : stack'[i] = caller[i]
  BY <1>1, <1>2, <1>5, <1>6, AppendProperties
<1>9. n > 0 => /\ CallsBelow(n - 1) /\ stack'[n] = caller[n]
               /\ stack[n].paths # <<>> /\ Callee = AbsOf[Head(stack[n].paths)]
  <2>1. n > 0 => n \in 1 .. n /\ \A i \in 1 .. n - 1 : i \in 1 .. n
    BY <1>2
  <2>2. QED BY <1>1, <1>2, <1>5, <1>8, <2>1 DEF CallsBelow, Callee
<1>10. n = 0 => Callee = AbsOf[Root]
  BY <1>2 DEF Callee
<1>11. \A i \in 1 .. n : stack[i].file # Callee
  BY <1>1, ListedOnStack
<1>12. QED BY <1>1, <1>3, <1>4, <1>5, <1>7, <1>8, <1>9, <1>10, <1>11 DEF Pushes

LEMMA TakeDocumentTakes == ASSUME LoadInv, TakeDocument PROVE TakesOne \/ Fails
<1> DEFINE n == Depth
           doc == Head(Top.docs)
           rest == [Top EXCEPT !.docs = Tail(@)]
<1>1. /\ stack # <<>> /\ Top.docs # <<>> /\ Top.paths = <<>> /\ UNCHANGED <<content, loaded>>
      /\ outcome = "none"
      /\ \/ doc = Plain /\ outcome' = outcome /\ stack' = Append(Front(stack), [rest EXCEPT !.out = Append(@, Top.file)])
         \/ outcome' = "failed" /\ stack' = stack
         \/ /\ doc \notin {Plain, BadPattern} /\ outcome' = outcome
            /\ stack' = Append(Front(stack), [rest EXCEPT !.paths = doc])
  BY DEF TakeDocument, Expanding
<1>2. /\ stack \in Seq(Frame) /\ Top \in Frame /\ n \in Nat \ {0} /\ Top = stack[n]
  BY <1>1, LoaderState DEF Depth
<1>3. /\ doc \in Document /\ Tail(Top.docs) \in Seq(Document)
      /\ Top.file \in File /\ Top.out \in Seq(File)
  BY <1>1, <1>2, HeadTailProperties DEF Frame
<1>4. /\ rest \in Frame /\ rest.file = Top.file /\ rest.docs = Tail(Top.docs)
      /\ rest.out = Top.out /\ rest.paths = <<>>
  BY <1>1, <1>2, <1>3 DEF Frame
<1> HIDE DEF rest
<1>5. ASSUME NEW call \in Frame, stack' = Append(Front(stack), call)
      PROVE  /\ stack' \in Seq(Frame) /\ Len(stack') = n /\ stack'[n] = call
             /\ CallsBelow(n - 1)
  <2>1. stack # <<>> /\ stack \in Seq(Frame) /\ call \in Frame
    BY <1>1, <1>2
  <2>2. /\ Append(Front(stack), call) \in Seq(Frame) /\ Len(Append(Front(stack), call)) = n
        /\ Append(Front(stack), call)[n] = call
        /\ \A i \in 1 .. n - 1 : Append(Front(stack), call)[i] = stack[i]
    BY <2>1, LastReplaced DEF Depth
  <2>3. QED BY <1>5, <2>2 DEF CallsBelow
<1>6. CASE doc = Plain /\ outcome' = outcome /\ stack' = Append(Front(stack), [rest EXCEPT !.out = Append(@, Top.file)])
  <2> DEFINE out == Append(Top.out, Top.file)
             call == [rest EXCEPT !.out = out]
  <2>1. out \in Seq(File) /\ stack' = Append(Front(stack), call)
    BY <1>3, <1>4, <1>6
  <2> HIDE DEF out
  <2>2. call \in Frame /\ call.file = Top.file /\ call.docs = Tail(Top.docs) /\ call.paths = <<>> /\ call.out = out
    BY <1>4, <2>1 DEF Frame
  <2> HIDE DEF call
  <2>3. /\ stack' \in Seq(Frame) /\ Len(stack') = n /\ stack'[n] = call /\ CallsBelow(n - 1)
    BY <1>5, <2>1, <2>2
  <2>4. /\ outcome = "none" /\ UNCHANGED <<content, outcome, loaded>> /\ n > 0
        /\ stack[n].docs # <<>> /\ stack[n].paths = <<>> /\ Head(stack[n].docs) = Plain
    BY <1>1, <1>2, <1>6
  <2>5. /\ stack'[n].file = stack[n].file /\ stack'[n].docs = Tail(stack[n].docs)
        /\ stack'[n].paths = <<>> /\ stack'[n].out = Append(stack[n].out, stack[n].file)
    BY <1>2, <2>2, <2>3 DEF out
  <2>6. QED BY <2>3, <2>4, <2>5 DEF TakesOne
<1>7. CASE /\ doc \notin {Plain, BadPattern} /\ outcome' = outcome
           /\ stack' = Append(Front(stack), [rest EXCEPT !.paths = doc])
  <2> DEFINE call == [rest EXCEPT !.paths = doc]
  <2>1. doc \in Seq(Name)
    BY <1>3, <1>7 DEF Document
  <2> HIDE DEF doc
  <2>2. call \in Frame /\ call.file = Top.file /\ call.docs = Tail(Top.docs) /\ call.paths = doc /\ call.out = Top.out
    BY <1>4, <2>1 DEF Frame
  <2>3. stack' = Append(Front(stack), call)
    BY <1>7
  <2> HIDE DEF call
  <2>4. /\ stack' \in Seq(Frame) /\ Len(stack') = n /\ stack'[n] = call /\ CallsBelow(n - 1)
    BY <1>5, <2>2, <2>3
  <2>5. /\ outcome = "none" /\ UNCHANGED <<content, outcome, loaded>> /\ n > 0
        /\ stack[n].docs # <<>> /\ stack[n].paths = <<>> /\ Head(stack[n].docs) = doc
        /\ doc \notin {Plain, BadPattern}
    BY <1>1, <1>2, <1>7 DEF doc
  <2>6. /\ stack'[n].file = stack[n].file /\ stack'[n].docs = Tail(stack[n].docs)
        /\ stack'[n].paths = doc /\ stack'[n].out = stack[n].out
    BY <1>2, <2>2, <2>4
  <2>7. QED BY <2>4, <2>5, <2>6 DEF TakesOne
<1>8. CASE outcome' = "failed" /\ stack' = stack
  BY <1>1, <1>8 DEF Fails
<1>9. QED BY <1>1, <1>6, <1>7, <1>8

LEMMA ReturnPops == ASSUME LoadInv, Return PROVE Pops \/ Finishes
<1> DEFINE n == Depth
           below == Front(stack)[n - 1]
           out == below.out \o Top.out
           caller == [below EXCEPT !.out = out]
<1>1. /\ stack # <<>> /\ content' = content /\ outcome = "none"
      /\ Top.docs = <<>> /\ Top.paths = <<>>
      /\ \/ n = 1 /\ outcome' = "loaded" /\ loaded' = Top.out /\ stack' = <<>>
         \/ /\ n # 1 /\ UNCHANGED <<outcome, loaded>>
            /\ stack' = [Front(stack) EXCEPT ![n - 1] = caller]
  BY DEF Return, Expanding, Depth
<1>2. /\ stack \in Seq(Frame) /\ Top \in Frame /\ n \in Nat \ {0} /\ Top = stack[n]
  BY <1>1, LoaderState DEF Depth
<1>3. /\ Front(stack) \in Seq(Frame) /\ Len(Front(stack)) = n - 1
      /\ \A i \in 1 .. n - 1 : Front(stack)[i] = stack[i]
  BY <1>1, <1>2, LastReplaced DEF Depth
<1>4. CASE n = 1 /\ outcome' = "loaded" /\ loaded' = Top.out /\ stack' = <<>>
  BY <1>1, <1>2, <1>4 DEF Finishes
<1>5. CASE n # 1 /\ stack' = [Front(stack) EXCEPT ![n - 1] = caller] /\ UNCHANGED <<outcome, loaded>>
  <2>1. n - 1 \in 1 .. n - 1 /\ below \in Frame /\ below = stack[n - 1]
    BY <1>2, <1>3, <1>5, ElementOfSeq
  <2> HIDE DEF below
  <2>2. out \in Seq(File)
    BY <1>2, <2>1, ConcatProperties DEF Frame
  <2> HIDE DEF out
  <2>3. /\ caller \in Frame /\ caller.file = below.file /\ caller.docs = below.docs
        /\ caller.paths = below.paths /\ caller.out = out
    BY <2>1, <2>2 DEF Frame
  <2> HIDE DEF caller
  <2> DEFINE s == Front(stack)
             m == n - 1
  <2>4. s \in Seq(Frame) /\ m \in 1 .. Len(s) /\ caller \in Frame /\ Len(s) = m
        /\ stack' = [s EXCEPT ![m] = caller]
    BY <1>3, <1>5, <2>1, <2>3
  <2> HIDE DEF s, m
  <2>5. /\ stack' \in Seq(Frame) /\ Len(stack') = m
        /\ \A i \in 1 .. m : stack'[i] = IF i = m THEN caller ELSE s[i]
    BY <2>4, OneReplaced
  <2>6. stack'[n - 1] = caller /\ CallsBelow(n - 2)
    <3>1. \A i \in 1 .. n - 2 : i \in 1 .. n - 1 /\ i # n - 1
      BY <1>2
    <3>2. QED BY <1>3, <2>1, <2>5, <3>1 DEF CallsBelow, s, m
  <2>7. /\ outcome = "none" /\ UNCHANGED <<content, outcome, loaded>> /\ n > 1
        /\ stack[n].docs = <<>> /\ stack[n].paths = <<>>
    BY <1>1, <1>2, <1>5
  <2>8. /\ stack'[n - 1].file = stack[n - 1].file /\ stack'[n - 1].docs = stack[n - 1].docs
        /\ stack'[n - 1].paths = stack[n - 1].paths
        /\ stack'[n - 1].out = stack[n - 1].out \o stack[n].out
    BY <1>2, <2>1, <2>3, <2>6 DEF out
  <2>9. stack' \in Seq(Frame) /\ Len(stack') = n - 1
    BY <2>5 DEF m
  <2>10. QED BY <2>6, <2>7, <2>8, <2>9 DEF Pops
<1>6. QED BY <1>1, <1>4, <1>5

------------------------------------------------------------------------------
(* What the calls in progress have to do with each other *)

NamedBy(d) == {AbsOf[name] : name \in Range(Includes(d))}

LinkInv ==
  /\ Depth <= MaxDepth
  /\ stack # <<>> => stack[1].file = AbsOf[Root]
  /\ \A i \in 1 .. Depth :
       /\ stack[i].file \in File /\ Readable(stack[i].file)
       /\ \A name \in Range(stack[i].paths) : AbsOf[name] \in Included(stack[i].file)
       /\ Range(stack[i].docs) \subseteq Range(content[stack[i].file])
       /\ \A j \in 1 .. Depth : stack[i].file = stack[j].file => i = j
  /\ \A i \in 1 .. Depth - 1 : stack[i + 1].file \in Included(stack[i].file)

LEMMA IncludedBy ==
  ASSUME NEW f, Readable(f)
  PROVE  \A g : g \in Included(f) <=> \E d \in Range(content[f]) : g \in NamedBy(d)
BY DEF Included, NamedBy

LEMMA RangeOfHeadTail ==
  ASSUME NEW S, NEW s \in Seq(S), s # <<>>
  PROVE  Range(s) = {Head(s)} \cup Range(Tail(s))
<1>1. /\ DOMAIN s = 1 .. Len(s) /\ Len(s) \in Nat \ {0} /\ Head(s) = s[1]
      /\ DOMAIN Tail(s) = 1 .. Len(s) - 1 /\ \A i \in 1 .. Len(s) - 1 : Tail(s)[i] = s[i + 1]
  BY EmptySeq, LenProperties, HeadTailProperties
<1>2. ASSUME NEW i \in 1 .. Len(s) PROVE s[i] \in {Head(s)} \cup Range(Tail(s))
  <2>1. CASE i = 1
    BY <1>1, <2>1
  <2>2. CASE i # 1
    <3>1. i - 1 \in 1 .. Len(s) - 1 /\ (i - 1) + 1 = i
      BY <1>1, <2>2
    <3>2. Tail(s)[i - 1] = s[i]
      BY <1>1, <3>1
    <3>3. QED BY <1>1, <3>1, <3>2 DEF Range
  <2>3. QED BY <2>1, <2>2
<1>3. Head(s) \in Range(s) /\ \A i \in 1 .. Len(s) - 1 : Tail(s)[i] \in Range(s)
  <2>1. 1 \in 1 .. Len(s) /\ \A i \in 1 .. Len(s) - 1 : i + 1 \in 1 .. Len(s)
    BY <1>1
  <2>2. QED BY <1>1, <2>1 DEF Range
<1>4. QED BY <1>1, <1>2, <1>3 DEF Range

LEMMA SameFiles ==
  ASSUME content' = content
  PROVE  \A f : Included(f)' = Included(f) /\ (Readable(f)' <=> Readable(f))
BY DEF Included, Readable

(* The types of a call in progress.                                         *)
LEMMA CallTypes ==
  ASSUME LoadInv
  PROVE  /\ Depth \in Nat /\ stack \in Seq(Frame)
         /\ content \in [File -> Seq(Document) \cup {Unreadable, Malformed}]
         /\ \A i \in 1 .. Depth :
              /\ stack[i].file \in File /\ stack[i].docs \in Seq(Document)
              /\ stack[i].paths \in Seq(Name) /\ stack[i].out \in Seq(File)
<1>1. Depth \in Nat /\ stack \in Seq(Frame)
      /\ content \in [File -> Seq(Document) \cup {Unreadable, Malformed}]
  BY LoaderState DEF Depth
<1>2. \A i \in 1 .. Depth : stack[i] \in Frame
  BY <1>1, ElementOfSeq DEF Depth
<1>3. QED BY <1>1, <1>2 DEF Frame

(* One call of LinkInv by itself.                                           *)
Linked(call) ==
  /\ call.file \in File /\ Readable(call.file)
  /\ \A name \in Range(call.paths) : AbsOf[name] \in Included(call.file)
  /\ Range(call.docs) \subseteq Range(content[call.file])

(* LinkInv of the next state, its calls held against the same files.        *)
LEMMA LinkNext ==
  ASSUME content' = content,
         (Depth <= MaxDepth /\ (stack # <<>> => stack[1].file = AbsOf[Root]))',
         (\A i \in 1 .. Depth - 1 : stack[i + 1].file \in Included(stack[i].file))',
         \A i \in 1 .. Depth' :
           /\ Linked(stack'[i])
           /\ \A j \in 1 .. Depth' : stack'[i].file = stack'[j].file => i = j
  PROVE  LinkInv'
BY SameFiles DEF LinkInv, Linked

LEMMA LinkPushes == ASSUME LoadInv, LinkInv, Pushes PROVE LinkInv'
<1> DEFINE n == Depth
<1>1. /\ n \in Nat /\ Depth' = n + 1 /\ n + 1 <= MaxDepth /\ MaxDepth \in Nat
      /\ content' = content /\ Callee \in File /\ Readable(Callee)
  BY CallTypes, LoadAssumption DEF Depth, Pushes, LoadAssumption
<1>2. \A i \in 1 .. n : stack'[i].file = stack[i].file /\ stack'[i].docs = stack[i].docs
                        /\ Range(stack'[i].paths) \subseteq Range(stack[i].paths)
  <2> SUFFICES ASSUME NEW i \in 1 .. n
      PROVE  stack'[i].file = stack[i].file /\ stack'[i].docs = stack[i].docs
             /\ Range(stack'[i].paths) \subseteq Range(stack[i].paths)
    OBVIOUS
  <2>1. CASE i = n
    <3>1. stack[n].paths \in Seq(Name) /\ stack[n].paths # <<>> /\ stack'[n].paths = Tail(stack[n].paths)
      BY <1>1, <2>1, CallTypes DEF Pushes
    <3>2. Range(Tail(stack[n].paths)) \subseteq Range(stack[n].paths)
      BY <3>1, RangeOfHeadTail
    <3>3. QED BY <1>1, <2>1, <3>1, <3>2 DEF Pushes
  <2>2. CASE i # n
    <3>1. i \in 1 .. n - 1 /\ n > 0
      BY <1>1, <2>2
    <3>2. stack'[i] = stack[i]
      BY <3>1 DEF Pushes, CallsBelow
    <3>3. QED BY <3>2
  <2>3. QED BY <2>1, <2>2
<1>3. /\ stack'[n + 1].file = Callee /\ stack'[n + 1].docs = content[Callee]
      /\ stack'[n + 1].paths = <<>> /\ \A i \in 1 .. n : stack[i].file # Callee
  BY DEF Pushes
<1>4. \A i \in 1 .. n : Linked(stack[i])
  BY DEF LinkInv, Linked
<1>5. \A i \in 1 .. n + 1 : Linked(stack'[i])
  <2>1. \A i \in 1 .. n : Linked(stack'[i])
    BY <1>2, <1>4 DEF Linked
  <2>2. Linked(stack'[n + 1])
    BY <1>1, <1>3 DEF Linked, Range
  <2>3. \A i \in 1 .. n + 1 : i \in 1 .. n \/ i = n + 1
    BY <1>1
  <2>4. QED BY <2>1, <2>2, <2>3
<1>6. \A i, j \in 1 .. n + 1 : stack'[i].file = stack'[j].file => i = j
  <2>1. \A i, j \in 1 .. n : stack[i].file = stack[j].file => i = j
    BY DEF LinkInv
  <2>2. \A i \in 1 .. n + 1 : i \in 1 .. n \/ i = n + 1
    BY <1>1
  <2>3. QED BY <1>2, <1>3, <2>1, <2>2
<1>7. stack'[1].file = AbsOf[Root]
  <2>1. CASE n = 0
    BY <1>3, <2>1 DEF Pushes
  <2>2. CASE n # 0
    <3>1. 1 \in 1 .. n /\ stack # <<>>
      BY <1>1, <2>2, EmptySeq DEF Depth
    <3>2. QED BY <1>2, <3>1 DEF LinkInv
  <2>3. QED BY <2>1, <2>2
<1>8. \A i \in 1 .. n : stack'[i + 1].file \in Included(stack[i].file)
  <2>1. ASSUME NEW i \in 1 .. n - 1 PROVE stack'[i + 1].file \in Included(stack[i].file)
    <3>1. i + 1 \in 1 .. n
      BY <1>1
    <3>2. QED BY <1>2, <3>1 DEF LinkInv
  <2>2. n > 0 => stack'[n + 1].file \in Included(stack[n].file)
    <3> HAVE n > 0
    <3>1. n \in 1 .. n /\ stack[n].paths \in Seq(Name) /\ stack[n].paths # <<>>
          /\ Callee = AbsOf[Head(stack[n].paths)]
      BY <1>1, CallTypes DEF Pushes
    <3>2. Head(stack[n].paths) \in Range(stack[n].paths)
      BY <3>1, RangeOfHeadTail
    <3>3. QED BY <1>3, <1>4, <3>1, <3>2 DEF Linked
  <2>3. \A i \in 1 .. n : i \in 1 .. n - 1 \/ (i = n /\ n > 0)
    BY <1>1
  <2>4. QED BY <2>1, <2>2, <2>3
<1>9. \A i \in 1 .. n : (stack[i].file)' = stack[i].file
  BY <1>2
<1>10. (\A i \in 1 .. Depth - 1 : stack[i + 1].file \in Included(stack[i].file))'
  <2>1. \A i \in 1 .. Depth' - 1 : i \in 1 .. n
    BY <1>1
  <2>2. QED BY <1>1, <1>8, <1>9, <2>1, SameFiles
<1>11. (Depth <= MaxDepth /\ (stack # <<>> => stack[1].file = AbsOf[Root]))'
  BY <1>1, <1>7
<1>12. \A i \in 1 .. Depth' :
         /\ Linked(stack'[i])
         /\ \A j \in 1 .. Depth' : stack'[i].file = stack'[j].file => i = j
  BY <1>1, <1>5, <1>6
<1>13. QED BY <1>1, <1>10, <1>11, <1>12, LinkNext

LEMMA LinkTakesOne == ASSUME LoadInv, LinkInv, TakesOne PROVE LinkInv'
<1> DEFINE n == Depth
           doc == Head(stack[n].docs)
<1>1. /\ n \in Nat /\ n > 0 /\ Depth' = n /\ content' = content
      /\ stack # <<>> /\ n \in 1 .. n
  BY CallTypes, EmptySeq DEF Depth, TakesOne
<1>2. \A i \in 1 .. n : Linked(stack[i])
  BY DEF LinkInv, Linked
<1>3. Range(stack[n].docs) = {doc} \cup Range(Tail(stack[n].docs)) /\ stack[n].docs # <<>>
  BY <1>1, CallTypes, RangeOfHeadTail DEF TakesOne
<1>4. /\ stack'[n].file = stack[n].file
      /\ \A name \in Range(stack'[n].paths) : AbsOf[name] \in Included(stack[n].file)
      /\ Range(stack'[n].docs) \subseteq Range(stack[n].docs)
  <2>1. CASE stack'[n].paths = <<>>
    <3>1. Range(stack'[n].paths) = {}
      BY <2>1 DEF Range
    <3>2. stack'[n].file = stack[n].file /\ stack'[n].docs = Tail(stack[n].docs)
      BY DEF TakesOne
    <3>3. QED BY <1>3, <3>1, <3>2
  <2>2. CASE doc \notin {Plain, BadPattern} /\ stack'[n].paths = doc
    <3>1. doc \in Range(content[stack[n].file])
      BY <1>1, <1>2, <1>3 DEF Linked
    <3>2. \A name \in Range(doc) : AbsOf[name] \in NamedBy(doc)
      BY <2>2 DEF NamedBy, Includes
    <3>3. Readable(stack[n].file)
      BY <1>1, <1>2 DEF Linked
    <3>4. \A name \in Range(doc) : AbsOf[name] \in Included(stack[n].file)
      BY <3>1, <3>2, <3>3, IncludedBy
    <3>5. QED BY <1>3, <2>2, <3>4 DEF TakesOne
  <2>3. QED BY <2>1, <2>2 DEF TakesOne
<1>5. \A i \in 1 .. n : i = n \/ stack'[i] = stack[i]
  BY <1>1 DEF TakesOne, CallsBelow
<1>6. \A i \in 1 .. n : stack'[i].file = stack[i].file
  BY <1>4, <1>5
<1>7. \A i \in 1 .. n : Linked(stack'[i])
  BY <1>2, <1>4, <1>5 DEF Linked
<1>8. (Depth <= MaxDepth /\ (stack # <<>> => stack[1].file = AbsOf[Root]))'
  <2>1. 1 \in 1 .. n
    BY <1>1
  <2>2. QED BY <1>1, <1>6, <2>1 DEF LinkInv
<1>9. (\A i \in 1 .. Depth - 1 : stack[i + 1].file \in Included(stack[i].file))'
  <2>1. \A i \in 1 .. n - 1 : i \in 1 .. n /\ i + 1 \in 1 .. n
    BY <1>1
  <2>2. \A i \in 1 .. n - 1 : stack'[i + 1].file \in Included(stack'[i].file)
    BY <1>6, <2>1 DEF LinkInv
  <2>3. \A i \in 1 .. Depth' - 1 : stack'[i + 1].file \in Included(stack'[i].file)
    BY <1>1, <2>2
  <2>4. QED BY <1>1, <2>3, SameFiles
<1>10. \A i \in 1 .. Depth' :
         Linked(stack'[i]) /\ \A j \in 1 .. Depth' : stack'[i].file = stack'[j].file => i = j
  BY <1>1, <1>6, <1>7 DEF LinkInv
<1>11. QED BY <1>1, <1>8, <1>9, <1>10, LinkNext

LEMMA LinkPops == ASSUME LoadInv, LinkInv, Pops PROVE LinkInv'
<1> DEFINE n == Depth
<1>1. /\ n \in Nat /\ n > 1 /\ Depth' = n - 1 /\ content' = content /\ stack # <<>>
      /\ MaxDepth \in Nat
  BY CallTypes, EmptySeq, LoadAssumption DEF Depth, Pops, LoadAssumption
<1>2. \A i \in 1 .. n : Linked(stack[i])
  BY DEF LinkInv, Linked
<1>3. \A i \in 1 .. n - 1 : /\ stack'[i].file = stack[i].file /\ stack'[i].paths = stack[i].paths
                            /\ stack'[i].docs = stack[i].docs
  <2>1. \A i \in 1 .. n - 1 : i = n - 1 \/ i \in 1 .. n - 2
    BY <1>1
  <2>2. QED BY <2>1 DEF Pops, CallsBelow
<1>4. \A i \in 1 .. n - 1 : i \in 1 .. n
  BY <1>1
<1>5. (Depth <= MaxDepth /\ (stack # <<>> => stack[1].file = AbsOf[Root]))'
  <2>1. 1 \in 1 .. n - 1 /\ n <= MaxDepth
    BY <1>1 DEF LinkInv
  <2>2. QED BY <1>1, <1>3, <2>1 DEF LinkInv
<1>6. (\A i \in 1 .. Depth - 1 : stack[i + 1].file \in Included(stack[i].file))'
  <2>1. \A i \in 1 .. n - 2 : i \in 1 .. n - 1 /\ i + 1 \in 1 .. n - 1
    BY <1>1
  <2>2. \A i \in 1 .. n - 2 : stack'[i + 1].file \in Included(stack'[i].file)
    BY <1>3, <2>1 DEF LinkInv
  <2>3. \A i \in 1 .. Depth' - 1 : i \in 1 .. n - 2
    BY <1>1
  <2>4. QED BY <1>1, <2>2, <2>3, SameFiles
<1>7. \A i \in 1 .. Depth' :
         Linked(stack'[i]) /\ \A j \in 1 .. Depth' : stack'[i].file = stack'[j].file => i = j
  <2>1. \A i \in 1 .. n - 1 : Linked(stack'[i])
    BY <1>2, <1>3, <1>4 DEF Linked
  <2>2. \A i, j \in 1 .. n - 1 : stack'[i].file = stack'[j].file => i = j
    BY <1>3, <1>4 DEF LinkInv
  <2>3. QED BY <1>1, <2>1, <2>2
<1>8. QED BY <1>1, <1>5, <1>6, <1>7, LinkNext

LEMMA LinkEmpty == ASSUME stack' = <<>> PROVE LinkInv'
<1>1. Depth' = 0 /\ MaxDepth \in Nat
  BY EmptySeq, LoadAssumption DEF Depth, LoadAssumption
<1>2. \A i : i \notin 1 .. 0 /\ i \notin 1 .. 0 - 1
  OBVIOUS
<1>3. QED BY <1>1, <1>2 DEF LinkInv

LEMMA LinkSame == ASSUME LinkInv, UNCHANGED <<content, stack>> PROVE LinkInv'
BY SameFiles, SMTT(30) DEF LinkInv, Depth

------------------------------------------------------------------------------
(* What names and documents stand for *)

LEMMA Associative ==
  \A S : \A s, t, u \in Seq(S) : (s \o t) \o u = s \o (t \o u)
BY ConcatAssociative

(* The partial results of FlattenSeq.                                       *)
Flattens(g, ss) ==
  /\ g[1] = ss[1]
  /\ \A i \in 2 .. Len(ss) : g[i] = g[i - 1] \o ss[i]

LEMMA FlattenParts ==
  ASSUME NEW S, NEW ss \in Seq(Seq(S)), ss # <<>>
  PROVE  \E g \in [1 .. Len(ss) -> Seq(S)] : Flattens(g, ss) /\ FlattenSeq(ss) = g[Len(ss)]
<1> DEFINE N == Len(ss)
           Rec(g) == g = [i \in 1 .. N |-> IF i = 1 THEN ss[i] ELSE g[i - 1] \o ss[i]]
<1>1. N \in Nat \ {0} /\ \A i \in 1 .. N : ss[i] \in Seq(S)
  BY LenProperties, ElementOfSeq
<1>2. FlattenSeq(ss) = (CHOOSE g : Rec(g))[N]
  BY <1>1 DEF FlattenSeq
<1> HIDE DEF N
<1>3. \E g : Rec(g)
  <2> DEFINE Step == [p \in (1 .. N) \X Seq(S) |-> IF p[1] = 1 THEN ss[1] ELSE p[2] \o ss[p[1]]]
  <2>1. Step \in [(1 .. N) \X Seq(S) -> Seq(S)]
    <3> SUFFICES ASSUME NEW i \in 1 .. N, NEW t \in Seq(S) PROVE t \o ss[i] \in Seq(S)
      BY <1>1
    <3>1. QED BY <1>1, ConcatProperties
  <2>2. \A i \in 1 .. N, t \in Seq(S) : Step[<<i, t>>] = IF i = 1 THEN ss[1] ELSE t \o ss[i]
    OBVIOUS
  <2> HIDE DEF Step
  <2>3. PICK k : Recurs(k, N, Seq(S), <<>>, Step)
    <3>1. <<>> \in Seq(S) /\ N \in Nat
      BY <1>1
    <3>2. QED BY <2>1, <3>1, Recursion
  <2> DEFINE g == [i \in 1 .. N |-> k[i]]
  <2>4. ASSUME NEW i \in 1 .. N PROVE g[i] = IF i = 1 THEN ss[i] ELSE g[i - 1] \o ss[i]
    <3>1. k[i - 1] \in Seq(S) /\ k[i] = Step[<<i, k[i - 1]>>]
      BY <1>1, <2>3 DEF Recurs
    <3>2. k[i] = IF i = 1 THEN ss[1] ELSE k[i - 1] \o ss[i]
      BY <2>2, <3>1
    <3>3. i # 1 => i - 1 \in 1 .. N
      BY <1>1
    <3>4. QED BY <3>2, <3>3
  <2>5. Rec(g)
    BY <2>4
  <2> HIDE DEF Rec
  <2>6. QED BY <2>5
<1>4. PICK g : Rec(g) /\ FlattenSeq(ss) = g[N]
  <2> HIDE DEF Rec
  <2>1. QED BY <1>2, <1>3
<1>5. Flattens(g, ss)
  <2>1. Len(ss) = N
    BY DEF N
  <2>2. g[1] = ss[1] /\ \A i \in 2 .. N : g[i] = g[i - 1] \o ss[i]
    <3>1. 1 \in 1 .. N /\ \A i \in 2 .. N : i \in 1 .. N /\ i # 1
      BY <1>1
    <3>2. QED BY <1>4, <3>1
  <2>3. QED BY <2>1, <2>2 DEF Flattens
<1>6. g \in [1 .. N -> Seq(S)]
  <2> DEFINE T == {n \in 0 .. N : n = 0 \/ g[n] \in Seq(S)}
  <2>1. 0 \in T
    BY <1>1
  <2>2. ASSUME NEW n \in 0 .. N - 1, n \in T PROVE n + 1 \in T
    <3>1. n + 1 \in 1 .. N /\ (n + 1) - 1 = n
      BY <1>1
    <3>2. g[n + 1] = IF n + 1 = 1 THEN ss[n + 1] ELSE g[n] \o ss[n + 1]
      BY <1>4, <3>1
    <3>3. ss[n + 1] \in Seq(S)
      BY <1>1, <3>1
    <3>4. n # 0 => g[n] \o ss[n + 1] \in Seq(S)
      BY <2>2, <3>3, ConcatProperties
    <3>5. g[n + 1] \in Seq(S)
      <4>1. CASE n = 0
        BY <3>2, <3>3, <4>1
      <4>2. CASE n # 0
        <5>1. n + 1 # 1
          BY <4>2
        <5>2. QED BY <3>2, <3>4, <4>2, <5>1
      <4>3. QED BY <4>1, <4>2
    <3>6. QED BY <3>1, <3>5
  <2> HIDE DEF T
  <2>3. \A n \in 0 .. N : n \in T
    BY <1>1, <2>1, <2>2, Induction
  <2>4. \A n \in 1 .. N : g[n] \in Seq(S)
    BY <1>1, <2>3 DEF T
  <2>5. g = [i \in 1 .. N |-> g[i]]
    BY <1>4
  <2>6. QED BY <2>4, <2>5
<1>7. QED BY <1>4, <1>5, <1>6 DEF N

(* The first part, then the others.                                         *)
LEMMA FlattenHead ==
  ASSUME NEW S, NEW ss \in Seq(Seq(S)), ss # <<>>
  PROVE  FlattenSeq(Tail(ss)) \in Seq(S) /\ FlattenSeq(ss) = Head(ss) \o FlattenSeq(Tail(ss))
<1> DEFINE tt == Tail(ss)
           N == Len(tt)
<1>1. /\ N \in Nat /\ tt \in Seq(Seq(S)) /\ Len(ss) = N + 1 /\ Head(ss) = ss[1]
      /\ \A i \in 1 .. N : tt[i] = ss[i + 1]
      /\ \A i \in 1 .. N : tt[i] \in Seq(S)
      /\ ss[1] \in Seq(S)
  <2>1. tt \in Seq(Seq(S)) /\ Len(tt) = Len(ss) - 1 /\ Head(ss) = ss[1] /\ Len(ss) \in Nat \ {0}
        /\ \A i \in 1 .. Len(tt) : tt[i] = ss[i + 1]
    BY HeadTailProperties, LenProperties, EmptySeq
  <2> HIDE DEF tt
  <2>2. N \in Nat /\ Len(ss) = N + 1
    BY <2>1, LenProperties
  <2>3. 1 \in 1 .. Len(ss)
    BY <2>2
  <2>4. ss[1] \in Seq(S) /\ \A i \in 1 .. N : tt[i] \in Seq(S)
    BY <2>1, <2>3, ElementOfSeq
  <2>5. QED BY <2>1, <2>2, <2>4
<1> HIDE DEF tt
<1>2. PICK k \in [1 .. Len(ss) -> Seq(S)] : Flattens(k, ss) /\ FlattenSeq(ss) = k[Len(ss)]
  BY FlattenParts
<1>3. FlattenSeq(ss) = k[N + 1] /\ k[1] = ss[1] /\ \A i \in 2 .. N + 1 : k[i] = k[i - 1] \o ss[i]
  BY <1>1, <1>2 DEF Flattens
<1>4. CASE tt = <<>>
  <2>1. N = 0 /\ FlattenSeq(tt) = <<>>
    BY <1>1, <1>4, EmptySeq DEF FlattenSeq
  <2>2. ss[1] \o <<>> = ss[1] /\ <<>> \in Seq(S)
    BY <1>1, ConcatEmptySeq
  <2>3. FlattenSeq(ss) = ss[1]
    BY <1>3, <2>1
  <2>4. QED BY <1>1, <2>1, <2>2, <2>3 DEF tt
<1>5. CASE tt # <<>>
  <2>1. PICK g \in [1 .. Len(tt) -> Seq(S)] : Flattens(g, tt) /\ FlattenSeq(tt) = g[Len(tt)]
    BY <1>1, <1>5, FlattenParts
  <2>2. N # 0
    BY <1>1, <1>5, EmptySeq
  <2>3. g \in [1 .. N -> Seq(S)] /\ FlattenSeq(tt) = g[N]
        /\ g[1] = tt[1] /\ \A i \in 2 .. N : g[i] = g[i - 1] \o tt[i]
    BY <2>1 DEF Flattens
  <2> HIDE DEF N
  <2> DEFINE T == {n \in 0 .. N : n # 0 => k[n + 1] = ss[1] \o g[n]}
  <2>4. 0 \in T
    BY <1>1
  <2>5. ASSUME NEW n \in 0 .. N - 1, n \in T PROVE n + 1 \in T
    <3>1. n + 1 \in 1 .. N /\ (n + 1) - 1 = n
      BY <1>1
    <3>2. k[(n + 1) + 1] = k[n + 1] \o tt[n + 1]
      <4>1. (n + 1) + 1 \in 2 .. N + 1 /\ ((n + 1) + 1) - 1 = n + 1
        BY <1>1, <3>1
      <4>2. tt[n + 1] = ss[(n + 1) + 1]
        BY <1>1, <3>1
      <4>3. QED BY <1>3, <4>1, <4>2
    <3>3. n = 0 => k[(n + 1) + 1] = ss[1] \o g[n + 1]
      <4> HAVE n = 0
      <4>1. n + 1 = 1 /\ k[n + 1] = ss[1] /\ g[n + 1] = tt[n + 1]
        BY <1>3, <2>3
      <4>2. QED BY <3>2, <4>1
    <3>4. n # 0 => k[(n + 1) + 1] = ss[1] \o g[n + 1]
      <4> HAVE n # 0
      <4>1. n \in 1 .. N /\ n + 1 \in 2 .. N
        BY <1>1, <3>1
      <4>2. k[n + 1] = ss[1] \o g[n]
        BY <2>5
      <4>3. g[n + 1] = g[n] \o tt[n + 1]
        BY <2>3, <3>1, <4>1
      <4>4. g[n] \in Seq(S) /\ tt[n + 1] \in Seq(S) /\ ss[1] \in Seq(S)
        BY <1>1, <2>3, <3>1, <4>1
      <4>5. (ss[1] \o g[n]) \o tt[n + 1] = ss[1] \o (g[n] \o tt[n + 1])
        <5> DEFINE a == ss[1]
                   b == g[n]
                   c == tt[n + 1]
        <5>1. a \in Seq(S) /\ b \in Seq(S) /\ c \in Seq(S)
          BY <4>4
        <5> HIDE DEF a, b, c
        <5>2. (a \o b) \o c = a \o (b \o c)
          BY <5>1, Associative, SMTT(30)
        <5>3. QED BY <5>2 DEF a, b, c
      <4>6. QED BY <3>2, <4>2, <4>3, <4>5
    <3>5. k[(n + 1) + 1] = ss[1] \o g[n + 1]
      BY <3>3, <3>4
    <3> DEFINE j == n + 1
    <3>6. j \in 0 .. N /\ k[j + 1] = ss[1] \o g[j]
      BY <3>1, <3>5
    <3> HIDE DEF j
    <3>7. j \in T
      BY <3>6
    <3>8. QED BY <3>7 DEF j
  <2> HIDE DEF T
  <2>6. N \in T
    <3>1. \A n \in 0 .. N : n \in T
      BY <1>1, <2>4, <2>5, Induction
    <3>2. QED BY <1>1, <3>1
  <2>7. k[N + 1] = ss[1] \o g[N] /\ g[N] \in Seq(S)
    <3>1. N \in 1 .. N
      BY <1>1, <2>2
    <3>2. N \in T => k[N + 1] = ss[1] \o g[N]
      BY <2>2 DEF T
    <3>3. QED BY <2>3, <2>6, <3>1, <3>2
  <2>8. QED BY <1>1, <1>3, <2>3, <2>7 DEF tt
<1>6. QED BY <1>4, <1>5

(* The parts given by a function m of the elements of t.                    *)
Whole(m, t) == FlattenSeq([i \in DOMAIN t |-> m[t[i]]])

LEMMA FlattenMapped ==
  ASSUME NEW D, NEW S, NEW m \in [D -> Seq(S)], NEW s \in Seq(D)
  PROVE  /\ Whole(m, s) \in Seq(S) /\ Whole(m, <<>>) = <<>>
         /\ s # <<>> => Whole(m, s) = m[Head(s)] \o Whole(m, Tail(s))
<1> DEFINE parts(t) == [i \in DOMAIN t |-> m[t[i]]]
<1>1. ASSUME NEW t \in Seq(D)
      PROVE  parts(t) \in Seq(Seq(S)) /\ Len(parts(t)) = Len(t)
             /\ \A i \in 1 .. Len(t) : parts(t)[i] = m[t[i]]
  <2>1. DOMAIN t = 1 .. Len(t) /\ Len(t) \in Nat /\ \A i \in 1 .. Len(t) : t[i] \in D
    BY LenProperties, ElementOfSeq
  <2>2. parts(t) = [i \in 1 .. Len(t) |-> m[t[i]]]
    BY <2>1
  <2>3. \A i \in 1 .. Len(t) : m[t[i]] \in Seq(S)
    BY <2>1
  <2>4. QED BY <2>1, <2>2, <2>3, IsASeq
<1>2. parts(<<>>) = <<>> /\ Whole(m, <<>>) = <<>>
  <2>1. <<>> \in Seq(D)
    OBVIOUS
  <2>2. Len(parts(<<>>)) = 0 /\ parts(<<>>) \in Seq(Seq(S))
    BY <1>1, <2>1, EmptySeq
  <2>3. QED BY <2>2, EmptySeq DEF FlattenSeq, Whole
<1>3. CASE s = <<>>
  <2>1. <<>> \in Seq(S)
    OBVIOUS
  <2>2. QED BY <1>2, <1>3, <2>1
<1>4. CASE s # <<>>
  <2>1. /\ Head(s) = s[1] /\ Len(s) \in Nat \ {0} /\ Tail(s) \in Seq(D)
        /\ Len(Tail(s)) = Len(s) - 1 /\ \A i \in 1 .. Len(Tail(s)) : Tail(s)[i] = s[i + 1]
    BY <1>4, HeadTailProperties, LenProperties, EmptySeq
  <2> DEFINE ss == parts(s)
             tt == parts(Tail(s))
  <2>2. /\ ss \in Seq(Seq(S)) /\ Len(ss) = Len(s) /\ \A i \in 1 .. Len(s) : ss[i] = m[s[i]]
        /\ tt \in Seq(Seq(S)) /\ Len(tt) = Len(s) - 1
        /\ \A i \in 1 .. Len(s) - 1 : tt[i] = m[Tail(s)[i]]
    BY <1>1, <2>1
  <2> HIDE DEF ss, tt
  <2>3. ss # <<>> /\ Head(ss) = m[Head(s)] /\ Head(ss) \in Seq(S)
    <3>1. 1 \in 1 .. Len(s)
      BY <2>1
    <3>2. ss # <<>>
      BY <2>1, <2>2, EmptySeq
    <3>3. QED BY <2>1, <2>2, <3>1, <3>2, HeadTailProperties, ElementOfSeq
  <2>4. tt = Tail(ss)
    <3>1. /\ Tail(ss) \in Seq(Seq(S)) /\ Len(Tail(ss)) = Len(s) - 1
          /\ \A i \in 1 .. Len(s) - 1 : Tail(ss)[i] = ss[i + 1]
      BY <2>2, <2>3, HeadTailProperties
    <3>2. \A i \in 1 .. Len(s) - 1 : Tail(ss)[i] = tt[i]
      <4>1. \A i \in 1 .. Len(s) - 1 : i + 1 \in 1 .. Len(s)
        BY <2>1
      <4>2. QED BY <2>1, <2>2, <3>1, <4>1
    <3>3. QED BY <2>2, <3>1, <3>2, SeqEqual
  <2>5. FlattenSeq(tt) \in Seq(S) /\ FlattenSeq(ss) = m[Head(s)] \o FlattenSeq(tt)
    BY <2>2, <2>3, <2>4, FlattenHead
  <2>6. FlattenSeq(ss) \in Seq(S)
    BY <2>3, <2>5, ConcatProperties
  <2>7. QED BY <1>2, <1>4, <2>5, <2>6 DEF ss, tt, Whole
<1>5. QED BY <1>3, <1>4

Substitution == [File -> Seq(File)]

LEMMA NamesStandFor ==
  ASSUME NEW sub \in Substitution, NEW names \in Seq(Name)
  PROVE  /\ FromNames(sub, names) \in Seq(File) /\ FromNames(sub, <<>>) = <<>>
         /\ names # <<>> => FromNames(sub, names) = sub[AbsOf[Head(names)]] \o FromNames(sub, Tail(names))
<1> DEFINE m == [name \in Name |-> sub[AbsOf[name]]]
<1>1. m \in [Name -> Seq(File)] /\ \A name \in Name : m[name] = sub[AbsOf[name]]
  BY LoadAssumption DEF LoadAssumption, Substitution
<1>2. ASSUME NEW t \in Seq(Name) PROVE Whole(m, t) = FromNames(sub, t)
  <2>1. \A i \in DOMAIN t : t[i] \in Name
    BY LenProperties, ElementOfSeq
  <2>2. [i \in DOMAIN t |-> m[t[i]]] = [i \in DOMAIN t |-> sub[AbsOf[t[i]]]]
    BY <1>1, <2>1
  <2>3. QED BY <2>2 DEF FromNames, Whole
<1> HIDE DEF m
<1>3. /\ Whole(m, names) \in Seq(File) /\ Whole(m, <<>>) = <<>>
      /\ names # <<>> => Whole(m, names) = m[Head(names)] \o Whole(m, Tail(names))
  <2>1. m \in [Name -> Seq(File)]
    BY <1>1
  <2>2. QED BY <2>1, FlattenMapped, SMTT(30)
<1>4. <<>> \in Seq(Name) /\ (names # <<>> => Head(names) \in Name /\ Tail(names) \in Seq(Name))
  BY HeadTailProperties
<1>5. QED BY <1>1, <1>2, <1>3, <1>4

LEMMA DocumentsStandFor ==
  ASSUME NEW sub \in Substitution, NEW f \in File, NEW docs \in Seq(Document)
  PROVE  /\ FromDocuments(sub, f, docs) \in Seq(File) /\ FromDocuments(sub, f, <<>>) = <<>>
         /\ docs # <<>> =>
              FromDocuments(sub, f, docs) =
                (IF Head(docs) = Plain THEN <<f>> ELSE FromNames(sub, Includes(Head(docs)))) \o
                FromDocuments(sub, f, Tail(docs))
<1> DEFINE stands(d) == IF d = Plain THEN <<f>> ELSE FromNames(sub, Includes(d))
           m == [d \in Document |-> stands(d)]
<1>1. m \in [Document -> Seq(File)] /\ \A d \in Document : m[d] = stands(d)
  <2>1. ASSUME NEW d \in Document PROVE stands(d) \in Seq(File)
    <3>1. Includes(d) \in Seq(Name)
      BY DEF Document, Includes
    <3>2. FromNames(sub, Includes(d)) \in Seq(File)
      BY <3>1, NamesStandFor
    <3>3. <<f>> \in Seq(File)
      OBVIOUS
    <3>4. QED BY <3>2, <3>3
  <2> HIDE DEF stands
  <2>2. QED BY <2>1
<1>2. ASSUME NEW t \in Seq(Document) PROVE Whole(m, t) = FromDocuments(sub, f, t)
  <2>1. \A i \in DOMAIN t : t[i] \in Document
    BY LenProperties, ElementOfSeq
  <2>2. [i \in DOMAIN t |-> m[t[i]]] = [i \in DOMAIN t |-> stands(t[i])]
    BY <1>1, <2>1
  <2>3. QED BY <2>2 DEF FromDocuments, Whole
<1> HIDE DEF m
<1>3. /\ Whole(m, docs) \in Seq(File) /\ Whole(m, <<>>) = <<>>
      /\ docs # <<>> => Whole(m, docs) = m[Head(docs)] \o Whole(m, Tail(docs))
  BY <1>1, FlattenMapped
<1>4. <<>> \in Seq(Document) /\ (docs # <<>> => Head(docs) \in Document /\ Tail(docs) \in Seq(Document))
  BY HeadTailProperties
<1>5. QED BY <1>1, <1>2, <1>3, <1>4

(* g[k] tells what each file stands for, includes deeper than k left out.   *)
Expands(g) ==
  /\ g \in [0 .. MaxDepth -> Substitution]
  /\ \A k \in 0 .. MaxDepth - 1, f \in File :
       Readable(f) => g[k + 1][f] = FromDocuments(g[k], f, content[f])

LEMMA ExpansionLevels ==
  ASSUME content \in [File -> Seq(Document) \cup {Unreadable, Malformed}]
  PROVE  \E g : Expands(g) /\ Expansion(MaxDepth) = g[MaxDepth][AbsOf[Root]]
<1> DEFINE N == MaxDepth
           Level(k, sub) == [f \in File |-> IF k = 0 \/ ~Readable(f) THEN <<>>
                                            ELSE FromDocuments(sub, f, content[f])]
           Rec(g) == g = [k \in 0 .. N |-> Level(k, g[k - 1])]
<1>1. N \in Nat \ {0}
  BY LoadAssumption DEF LoadAssumption
<1>2. Expansion(N) = (CHOOSE g : Rec(g))[N][AbsOf[Root]]
  BY DEF Expansion
<1>3. ASSUME NEW k, NEW sub \in Substitution PROVE Level(k, sub) \in Substitution
  <2>1. ASSUME NEW f \in File, Readable(f) PROVE FromDocuments(sub, f, content[f]) \in Seq(File)
    <3>1. content[f] \in Seq(Document)
      BY <2>1 DEF Readable
    <3>2. QED BY <3>1, DocumentsStandFor
  <2>2. <<>> \in Seq(File)
    OBVIOUS
  <2>3. QED BY <2>1, <2>2 DEF Substitution
<1>4. \A sub : Level(0, sub) = [f \in File |-> <<>>]
  OBVIOUS
<1>5. [f \in File |-> <<>>] \in Substitution
  BY DEF Substitution
<1>6. ASSUME NEW k, k # 0, NEW sub, NEW f \in File, Readable(f)
      PROVE  Level(k, sub)[f] = FromDocuments(sub, f, content[f])
  BY <1>6
<1> HIDE DEF N, Level
<1>7. \E g : Rec(g)
  <2> DEFINE Step == [p \in (1 .. N) \X Substitution |-> Level(p[1], p[2])]
  <2>1. Step \in [(1 .. N) \X Substitution -> Substitution]
    BY <1>3
  <2>2. \A i \in 1 .. N, sub \in Substitution : Step[<<i, sub>>] = Level(i, sub)
    OBVIOUS
  <2> HIDE DEF Step
  <2>3. PICK g : Recurs(g, N, Substitution, [f \in File |-> <<>>], Step)
    BY <1>1, <1>5, <2>1, Recursion
  <2>4. ASSUME NEW k \in 0 .. N PROVE g[k] = Level(k, g[k - 1])
    <3>1. CASE k = 0
      BY <1>4, <2>3, <3>1 DEF Recurs
    <3>2. CASE k # 0
      <4>1. k \in 1 .. N /\ k - 1 \in 0 .. N
        BY <1>1, <3>2
      <4>2. QED BY <2>2, <2>3, <4>1 DEF Recurs
    <3>3. QED BY <3>1, <3>2
  <2>5. g = [k \in 0 .. N |-> g[k]]
    BY <2>3 DEF Recurs
  <2>6. Rec(g)
    BY <2>4, <2>5
  <2> HIDE DEF Rec
  <2>7. QED BY <2>6
<1>8. PICK g : Rec(g) /\ Expansion(N) = g[N][AbsOf[Root]]
  <2> HIDE DEF Rec
  <2>1. QED BY <1>2, <1>7
<1>9. \A k \in 0 .. N : g[k] = Level(k, g[k - 1])
  BY <1>8
<1>10. \A k \in 0 .. N : g[k] \in Substitution
  <2> DEFINE T == {k \in 0 .. N : g[k] \in Substitution}
  <2>1. 0 \in T
    BY <1>1, <1>4, <1>5, <1>9
  <2>2. ASSUME NEW k \in 0 .. N - 1, k \in T PROVE k + 1 \in T
    <3>1. k + 1 \in 0 .. N /\ (k + 1) - 1 = k
      BY <1>1
    <3>2. g[k + 1] = Level(k + 1, g[k])
      BY <1>9, <3>1
    <3>3. g[k + 1] \in Substitution
      BY <1>3, <2>2, <3>2
    <3>4. QED BY <3>1, <3>3
  <2> HIDE DEF T
  <2>3. \A k \in 0 .. N : k \in T
    BY <1>1, <2>1, <2>2, Induction
  <2>4. QED BY <2>3 DEF T
<1>11. g \in [0 .. N -> Substitution]
  <2>1. g = [k \in 0 .. N |-> g[k]]
    BY <1>8
  <2>2. QED BY <1>10, <2>1
<1>12. ASSUME NEW k \in 0 .. N - 1, NEW f \in File, Readable(f)
       PROVE  g[k + 1][f] = FromDocuments(g[k], f, content[f])
  <2>1. k + 1 \in 0 .. N /\ (k + 1) - 1 = k /\ k + 1 # 0
    BY <1>1
  <2>2. g[k + 1] = Level(k + 1, g[k])
    BY <1>9, <2>1
  <2>3. QED BY <1>6, <1>12, <2>1, <2>2
<1>13. Expands(g)
  BY <1>11, <1>12 DEF Expands, N
<1>14. QED BY <1>8, <1>13 DEF N

(* What a call has yet to put behind its out.                               *)
Rest(sub, call) == FromNames(sub, call.paths) \o FromDocuments(sub, call.file, call.docs)

CallTyped(call) ==
  /\ call.file \in File /\ call.docs \in Seq(Document)
  /\ call.paths \in Seq(Name) /\ call.out \in Seq(File)

LEMMA FilesAssociative == \A a, b, c \in Seq(File) : (a \o b) \o c = a \o (b \o c)
<1> SUFFICES ASSUME NEW a \in Seq(File), NEW b \in Seq(File), NEW c \in Seq(File)
             PROVE  (a \o b) \o c = a \o (b \o c)
  OBVIOUS
<1>1. QED BY ConcatAssociative

LEMMA FilesTyped ==
  \A a, b \in Seq(File) : a \o b \in Seq(File) /\ a \o <<>> = a /\ <<>> \o a = a
<1> SUFFICES ASSUME NEW a \in Seq(File), NEW b \in Seq(File)
             PROVE  a \o b \in Seq(File) /\ a \o <<>> = a /\ <<>> \o a = a
  OBVIOUS
<1>1. QED BY ConcatProperties, ConcatEmptySeq

LEMMA NoFiles == <<>> \in Seq(File) /\ <<>> \in Seq(Name) /\ <<>> \in Seq(Document)
OBVIOUS

(* A name is taken, and the call it leads to is due.                        *)
LEMMA NameTaken ==
  ASSUME NEW sub \in Substitution, NEW call, CallTyped(call), call.paths # <<>>,
         NEW next, next.file = call.file, next.docs = call.docs, next.out = call.out,
         next.paths = Tail(call.paths)
  PROVE  (call.out \o <<>>) \o Rest(sub, call) =
         (next.out \o sub[AbsOf[Head(call.paths)]]) \o Rest(sub, next)
<1> DEFINE o == call.out
           h == sub[AbsOf[Head(call.paths)]]
           t == FromNames(sub, Tail(call.paths))
           d == FromDocuments(sub, call.file, call.docs)
<1>1. Head(call.paths) \in Name /\ Tail(call.paths) \in Seq(Name)
  BY HeadTailProperties DEF CallTyped
<1>2. h \in Seq(File)
  BY <1>1, LoadAssumption DEF LoadAssumption, Substitution
<1>3. o \in Seq(File) /\ t \in Seq(File) /\ d \in Seq(File)
  BY <1>1, NamesStandFor, DocumentsStandFor DEF CallTyped
<1>4. FromNames(sub, call.paths) = h \o t
  BY NamesStandFor DEF CallTyped
<1>5. Rest(sub, call) = (h \o t) \o d /\ Rest(sub, next) = t \o d /\ next.out = o
  BY <1>4 DEF Rest
<1> HIDE DEF o, h, t, d
<1>6. (o \o <<>>) \o ((h \o t) \o d) = (o \o h) \o (t \o d)
  <2>1. o \o <<>> = o /\ (h \o t) \o d = h \o (t \o d) /\ t \o d \in Seq(File)
    BY <1>2, <1>3, FilesAssociative, FilesTyped
  <2>2. o \o (h \o (t \o d)) = (o \o h) \o (t \o d)
    BY <1>2, <1>3, <2>1, FilesAssociative
  <2>3. QED BY <2>1, <2>2
<1>7. QED BY <1>5, <1>6 DEF o, h

(* A document is taken.                                                     *)
LEMMA DocumentTaken ==
  ASSUME NEW sub \in Substitution, NEW call, CallTyped(call),
         call.paths = <<>>, call.docs # <<>>,
         NEW next, next.file = call.file, next.docs = Tail(call.docs),
         \/ /\ Head(call.docs) = Plain
            /\ next.paths = <<>> /\ next.out = Append(call.out, call.file)
         \/ /\ Head(call.docs) \notin {Plain, BadPattern}
            /\ next.paths = Head(call.docs) /\ next.out = call.out
  PROVE  (call.out \o <<>>) \o Rest(sub, call) = (next.out \o <<>>) \o Rest(sub, next)
<1> DEFINE o == call.out
           doc == Head(call.docs)
           d == FromDocuments(sub, call.file, Tail(call.docs))
           p == IF doc = Plain THEN <<call.file>> ELSE FromNames(sub, Includes(doc))
<1>1. doc \in Document /\ Tail(call.docs) \in Seq(Document) /\ call.file \in File
  BY HeadTailProperties DEF CallTyped
<1>2. o \in Seq(File) /\ d \in Seq(File)
  BY <1>1, DocumentsStandFor DEF CallTyped
<1>3. FromDocuments(sub, call.file, call.docs) = p \o d
  BY <1>1, DocumentsStandFor DEF CallTyped
<1>4. FromNames(sub, <<>>) = <<>>
  BY NamesStandFor, NoFiles
<1>5. Rest(sub, call) = <<>> \o (p \o d)
  BY <1>3, <1>4 DEF Rest
<1> HIDE DEF d
<1>6. CASE doc = Plain /\ next.paths = <<>> /\ next.out = Append(call.out, call.file)
  <2> DEFINE f == <<call.file>>
  <2>1. p = f /\ f \in Seq(File)
    BY <1>1, <1>6
  <2>2. next.out = o \o f
    BY <1>1, <1>2, <1>6, AppendIsConcat
  <2>3. Rest(sub, next) = <<>> \o d
    BY <1>4, <1>6 DEF Rest, d
  <2> HIDE DEF f, p, o
  <2>4. <<>> \o (f \o d) = f \o d /\ o \o <<>> = o /\ (o \o f) \o <<>> = o \o f /\ <<>> \o d = d
    BY <1>2, <2>1, FilesTyped
  <2>5. o \o (f \o d) = (o \o f) \o d
    BY <1>2, <2>1, FilesAssociative
  <2>6. call.out = o
    BY DEF o
  <2>7. QED BY <1>5, <2>1, <2>2, <2>3, <2>4, <2>5, <2>6
<1>7. CASE doc \notin {Plain, BadPattern} /\ next.paths = doc /\ next.out = call.out
  <2>1. doc \in Seq(Name) /\ Includes(doc) = doc /\ p = FromNames(sub, doc)
    BY <1>1, <1>7 DEF Document, Includes
  <2>2. p \in Seq(File)
    BY <2>1, NamesStandFor
  <2>3. Rest(sub, next) = p \o d
    BY <1>7, <2>1 DEF Rest, d
  <2> HIDE DEF p
  <2>4. <<>> \o (p \o d) = p \o d
    BY <1>2, <2>2, FilesTyped
  <2>5. QED BY <1>5, <1>7, <2>3, <2>4
<1>8. QED BY <1>6, <1>7

(* A call that has nothing left to take.                                    *)
LEMMA NothingLeft ==
  ASSUME NEW sub \in Substitution, NEW call, CallTyped(call),
         call.paths = <<>>, call.docs = <<>>
  PROVE  (call.out \o <<>>) \o Rest(sub, call) = call.out
<1>1. FromNames(sub, <<>>) = <<>> /\ FromDocuments(sub, call.file, <<>>) = <<>>
  BY NamesStandFor, DocumentsStandFor, NoFiles DEF CallTyped
<1>2. Rest(sub, call) = <<>> \o <<>>
  BY <1>1 DEF Rest
<1>3. QED BY <1>2, NoFiles, FilesTyped DEF CallTyped

(* What call i waits for is what the call above it will return.             *)
Below(g, i) == IF i = Depth THEN <<>> ELSE g[MaxDepth - i][stack[i + 1].file]
Stands(g, i) ==
  g[MaxDepth - i + 1][stack[i].file] = (stack[i].out \o Below(g, i)) \o Rest(g[MaxDepth - i], stack[i])

ValueInv(g) ==
  /\ \A i \in 1 .. Depth : Stands(g, i)
  /\ outcome = "loaded" => loaded = g[MaxDepth][AbsOf[Root]]

LEMMA CallsTyped ==
  ASSUME LoadInv
  PROVE  \A i \in 1 .. Depth : CallTyped(stack[i])
BY CallTypes DEF CallTyped

(* The levels of the calls in progress.                                     *)
LEMMA LevelsTyped ==
  ASSUME LoadInv, LinkInv, NEW g, Expands(g)
  PROVE  /\ Depth \in Nat /\ MaxDepth \in Nat /\ Depth <= MaxDepth
         /\ \A i \in 1 .. Depth : MaxDepth - i \in 0 .. MaxDepth - 1 /\ g[MaxDepth - i] \in Substitution
<1>1. Depth \in Nat /\ MaxDepth \in Nat /\ Depth <= MaxDepth
  BY CallTypes, LoadAssumption DEF LoadAssumption, LinkInv
<1>2. \A i \in 1 .. Depth : MaxDepth - i \in 0 .. MaxDepth - 1 /\ MaxDepth - i \in 0 .. MaxDepth
  BY <1>1
<1>3. QED BY <1>1, <1>2 DEF Expands

LEMMA ValuePushes ==
  ASSUME LoadInv, LinkInv, Pushes, NEW g, Expands(g), ValueInv(g)
  PROVE  ValueInv(g)'
<1>0. PICK n \in Nat : n = Depth
  BY CallTypes
<1> DEFINE K == MaxDepth - n
<1>1. /\ n \in Nat /\ MaxDepth \in Nat /\ Depth' = n + 1 /\ n < MaxDepth
      /\ outcome' # "loaded"
  BY <1>0, LoadAssumption DEF LoadAssumption, Depth, Pushes
<1>2. \A i \in 1 .. n : stack'[i].file = stack[i].file
  <2>1. \A i \in 1 .. n : i = n \/ i \in 1 .. n - 1
    BY <1>1
  <2>2. \A i \in 1 .. n : n > 0
    BY <1>1
  <2>3. QED BY <1>0, <2>1, <2>2 DEF Pushes, CallsBelow
<1>3. stack'[n + 1].file = Callee /\ stack'[n + 1].docs = content[Callee]
      /\ stack'[n + 1].paths = <<>> /\ stack'[n + 1].out = <<>>
      /\ Callee \in File /\ Readable(Callee) /\ content[Callee] \in Seq(Document)
  BY <1>0 DEF Pushes
<1>4. ASSUME NEW i \in 1 .. n, i # n PROVE Stands(g, i)'
  <2>1. i \in 1 .. n - 1 /\ i + 1 \in 1 .. n /\ i # n + 1
    BY <1>1, <1>4
  <2>2. stack'[i] = stack[i] /\ stack'[i + 1].file = stack[i + 1].file
    BY <1>0, <1>1, <1>2, <2>1 DEF Pushes, CallsBelow
  <2>3. Below(g, i)' = Below(g, i)
    BY <1>0, <1>1, <1>4, <2>1, <2>2 DEF Below
  <2>4. Stands(g, i)
    BY <1>0 DEF ValueInv
  <2>5. QED BY <2>2, <2>3, <2>4 DEF Stands
<1>5. ASSUME n > 0 PROVE Stands(g, n)'
  <2> DEFINE call == stack[n]
             next == stack'[n]
             sub == g[K]
  <2>1. n \in 1 .. n
    BY <1>1, <1>5
  <2>2. CallTyped(call) /\ sub \in Substitution
    BY <1>0, <2>1, CallsTyped, LevelsTyped
  <2>3. /\ call.paths # <<>> /\ Callee = AbsOf[Head(call.paths)]
        /\ next.file = call.file /\ next.docs = call.docs /\ next.out = call.out
        /\ next.paths = Tail(call.paths)
    BY <1>0, <1>5 DEF Pushes
  <2>4. g[K + 1][call.file] = (call.out \o <<>>) \o Rest(sub, call)
    <3>1. Stands(g, n) /\ Below(g, n) = <<>>
      BY <1>0, <2>1 DEF ValueInv, Below
    <3>2. QED BY <3>1 DEF Stands
  <2> HIDE DEF call, next, sub
  <2>5. (call.out \o <<>>) \o Rest(sub, call) =
        (next.out \o sub[AbsOf[Head(call.paths)]]) \o Rest(sub, next)
    BY <2>2, <2>3, NameTaken
  <2>6. g[K + 1][next.file] = (next.out \o sub[Callee]) \o Rest(sub, next)
    BY <2>3, <2>4, <2>5
  <2>7. IF n = Depth' THEN FALSE ELSE g[MaxDepth - n][stack'[n + 1].file] = sub[Callee]
    BY <1>1, <1>3 DEF sub
  <2>8. QED BY <2>6, <2>7 DEF Stands, Below, next, sub
<1>6. Stands(g, n + 1)'
  <2> DEFINE L == MaxDepth - (n + 1)
             next == stack'[n + 1]
  <2>1. L \in 0 .. MaxDepth - 1 /\ L \in 0 .. MaxDepth /\ g[L] \in Substitution
    BY <1>1 DEF Expands
  <2>2. g[L + 1][Callee] = FromDocuments(g[L], Callee, content[Callee])
    BY <1>3, <2>1 DEF Expands
  <2>3. FromDocuments(g[L], Callee, content[Callee]) \in Seq(File)
    BY <1>3, <2>1, DocumentsStandFor
  <2>4. FromNames(g[L], <<>>) = <<>>
    BY <2>1, NamesStandFor, NoFiles
  <2>5. Rest(g[L], next) = <<>> \o FromDocuments(g[L], Callee, content[Callee]) /\ next.out = <<>>
        /\ next.file = Callee
    BY <1>3, <2>4 DEF Rest
  <2>6. (<<>> \o <<>>) \o Rest(g[L], next) = FromDocuments(g[L], Callee, content[Callee])
    BY <2>3, <2>5, NoFiles, FilesTyped
  <2> HIDE DEF next
  <2>7. g[L + 1][next.file] = (next.out \o <<>>) \o Rest(g[L], next)
    BY <2>2, <2>5, <2>6
  <2>8. IF n + 1 = Depth' THEN TRUE ELSE FALSE
    BY <1>1
  <2>9. QED BY <2>7, <2>8 DEF Stands, Below, next
<1>7. \A i \in 1 .. Depth' : Stands(g, i)'
  <2>1. \A i \in 1 .. Depth' : i = n + 1 \/ (i \in 1 .. n /\ i # n) \/ (i = n /\ n > 0)
    BY <1>1
  <2>2. QED BY <1>4, <1>5, <1>6, <2>1
<1>8. QED BY <1>1, <1>7 DEF ValueInv

LEMMA ValueTakesOne ==
  ASSUME LoadInv, LinkInv, TakesOne, NEW g, Expands(g), ValueInv(g)
  PROVE  ValueInv(g)'
<1>0. PICK n \in Nat : n = Depth
  BY CallTypes
<1>1. n > 0 /\ n \in 1 .. n /\ Depth' = n /\ outcome' # "loaded" /\ MaxDepth \in Nat
  BY <1>0, LoadAssumption DEF LoadAssumption, Depth, TakesOne
<1>2. \A i \in 1 .. n : i # n => stack'[i] = stack[i]
  BY <1>0, <1>1 DEF TakesOne, CallsBelow
<1>3. stack'[n].file = stack[n].file
  BY <1>0 DEF TakesOne
<1>4. \A i \in 1 .. n : Below(g, i)' = Below(g, i)
  <2>1. \A i \in 1 .. n : stack'[i].file = stack[i].file
    BY <1>2, <1>3
  <2>2. \A i \in 1 .. n : i = n \/ i + 1 \in 1 .. n
    BY <1>1
  <2>3. QED BY <1>0, <1>1, <2>1, <2>2 DEF Below
<1>5. ASSUME NEW i \in 1 .. n, i # n PROVE Stands(g, i)'
  <2>1. Stands(g, i) /\ stack'[i] = stack[i] /\ Below(g, i)' = Below(g, i)
    BY <1>0, <1>2, <1>4, <1>5 DEF ValueInv
  <2>2. QED BY <2>1 DEF Stands
<1>6. Stands(g, n)'
  <2> DEFINE call == stack[n]
             next == stack'[n]
             sub == g[MaxDepth - n]
  <2>1. CallTyped(call) /\ sub \in Substitution
    BY <1>0, <1>1, CallsTyped, LevelsTyped
  <2>2. /\ call.paths = <<>> /\ call.docs # <<>>
        /\ next.file = call.file /\ next.docs = Tail(call.docs)
        /\ \/ /\ Head(call.docs) = Plain
              /\ next.paths = <<>> /\ next.out = Append(call.out, call.file)
           \/ /\ Head(call.docs) \notin {Plain, BadPattern}
              /\ next.paths = Head(call.docs) /\ next.out = call.out
    BY <1>0 DEF TakesOne
  <2>3. g[MaxDepth - n + 1][call.file] = (call.out \o <<>>) \o Rest(sub, call) /\ Below(g, n) = <<>>
    <3>1. Stands(g, n) /\ Below(g, n) = <<>>
      BY <1>0, <1>1 DEF ValueInv, Below
    <3>2. QED BY <3>1 DEF Stands
  <2> HIDE DEF call, next
  <2>4. (call.out \o <<>>) \o Rest(sub, call) = (next.out \o <<>>) \o Rest(sub, next)
    BY <2>1, <2>2, DocumentTaken
  <2>5. g[MaxDepth - n + 1][next.file] = (next.out \o <<>>) \o Rest(sub, next)
    BY <2>2, <2>3, <2>4
  <2>6. Below(g, n)' = <<>>
    BY <1>1, <1>4, <2>3
  <2>7. QED BY <2>5, <2>6 DEF Stands, next
<1>7. \A i \in 1 .. Depth' : Stands(g, i)'
  BY <1>1, <1>5, <1>6
<1>8. QED BY <1>1, <1>7 DEF ValueInv

(* What a call that has ended returns is what its file stands for.          *)
LEMMA ValueReturned ==
  ASSUME LoadInv, LinkInv, NEW g, Expands(g), ValueInv(g), Depth > 0,
         stack[Depth].docs = <<>>, stack[Depth].paths = <<>>
  PROVE  g[MaxDepth - Depth + 1][stack[Depth].file] = stack[Depth].out
<1>1. Depth \in 1 .. Depth
  BY CallTypes
<1>2. CallTyped(stack[Depth]) /\ g[MaxDepth - Depth] \in Substitution
  BY <1>1, CallsTyped, LevelsTyped
<1>3. Stands(g, Depth) /\ Below(g, Depth) = <<>>
  BY <1>1 DEF ValueInv, Below
<1>4. (stack[Depth].out \o <<>>) \o Rest(g[MaxDepth - Depth], stack[Depth]) = stack[Depth].out
  BY <1>2, NothingLeft
<1>5. QED BY <1>3, <1>4 DEF Stands

LEMMA ValuePops ==
  ASSUME LoadInv, LinkInv, Pops, NEW g, Expands(g), ValueInv(g)
  PROVE  ValueInv(g)'
<1>0. PICK n \in Nat : n = Depth
  BY CallTypes
<1>1. n > 1 /\ Depth' = n - 1 /\ outcome' # "loaded" /\ MaxDepth \in Nat
  BY <1>0, LoadAssumption DEF LoadAssumption, Depth, Pops
<1>2. \A i \in 1 .. n - 1 : /\ stack'[i].file = stack[i].file /\ stack'[i].paths = stack[i].paths
                            /\ stack'[i].docs = stack[i].docs
                            /\ i # n - 1 => stack'[i] = stack[i]
  <2>1. \A i \in 1 .. n - 1 : i = n - 1 \/ i \in 1 .. n - 2
    BY <1>1
  <2>2. QED BY <1>0, <2>1 DEF Pops, CallsBelow
<1>3. ASSUME NEW i \in 1 .. n - 1, i # n - 1 PROVE Stands(g, i)'
  <2>1. i \in 1 .. n /\ i + 1 \in 1 .. n - 1 /\ i # n
    BY <1>1, <1>3
  <2>2. Stands(g, i) /\ stack'[i] = stack[i] /\ stack'[i + 1].file = stack[i + 1].file
    BY <1>0, <1>2, <1>3, <2>1 DEF ValueInv
  <2>3. Below(g, i)' = Below(g, i)
    BY <1>0, <1>1, <1>3, <2>1, <2>2 DEF Below
  <2>4. QED BY <2>2, <2>3 DEF Stands
<1>4. ASSUME NEW m \in Nat, m = n - 1 PROVE Stands(g, m)'
  <2> DEFINE v == stack[n].out
  <2>1. m \in 1 .. n /\ m \in 1 .. n - 1 /\ m # n /\ m + 1 = n /\ n \in 1 .. n
    BY <1>1, <1>4
  <2>2. MaxDepth - n + 1 = MaxDepth - m
    BY <1>1, <2>1
  <2>3. g[MaxDepth - m][stack[n].file] = v
    <3>1. stack[n].docs = <<>> /\ stack[n].paths = <<>>
      BY <1>0 DEF Pops
    <3>2. g[MaxDepth - n + 1][stack[n].file] = v
      BY <1>0, <1>1, <3>1, ValueReturned
    <3>3. QED BY <2>2, <3>2
  <2>4. Stands(g, m) /\ Below(g, m) = v
    BY <1>0, <2>1, <2>3 DEF ValueInv, Below
  <2>5. stack'[m].out = stack[m].out \o v /\ stack'[m].file = stack[m].file
        /\ Rest(g[MaxDepth - m], stack'[m]) = Rest(g[MaxDepth - m], stack[m])
    BY <1>0, <1>2, <1>4, <2>1 DEF Pops, Rest
  <2>6. stack[m].out \in Seq(File) /\ v \in Seq(File)
    BY <1>0, <2>1, CallsTyped DEF CallTyped
  <2> HIDE DEF v
  <2>7. (stack[m].out \o v) \o <<>> = stack[m].out \o v
    BY <2>6, FilesTyped
  <2>8. Below(g, m)' = <<>>
    BY <1>1, <1>4 DEF Below
  <2>9. QED BY <2>4, <2>5, <2>7, <2>8 DEF Stands
<1>5. \A i \in 1 .. Depth' : Stands(g, i)'
  <2>1. n - 1 \in Nat
    BY <1>1
  <2>2. QED BY <1>1, <1>3, <1>4, <2>1
<1>6. QED BY <1>1, <1>5 DEF ValueInv

LEMMA ValueFinishes ==
  ASSUME LoadInv, LinkInv, Finishes, NEW g, Expands(g), ValueInv(g)
  PROVE  ValueInv(g)'
<1>1. Depth = 1 /\ Depth' = 0 /\ stack # <<>> /\ MaxDepth \in Nat /\ loaded' = stack[1].out
  BY EmptySeq, LoadAssumption DEF LoadAssumption, Depth, Finishes
<1>2. g[MaxDepth - Depth + 1][stack[Depth].file] = stack[Depth].out
  BY <1>1, ValueReturned DEF Finishes
<1>3. stack[1].file = AbsOf[Root] /\ MaxDepth - Depth + 1 = MaxDepth
  BY <1>1 DEF LinkInv
<1>4. QED BY <1>1, <1>2, <1>3 DEF ValueInv

(* Nothing but the outcome changes, and it is no success.                   *)
LEMMA ValueSame ==
  ASSUME NEW g, ValueInv(g), UNCHANGED <<stack, loaded>>, outcome' \in {outcome, "failed", "circular"}
  PROVE  ValueInv(g)'
<1>1. Depth' = Depth /\ \A i : Below(g, i)' = Below(g, i)
  BY DEF Depth, Below
<1>2. \A i : Stands(g, i)' <=> Stands(g, i)
  BY <1>1 DEF Stands
<1>3. outcome' = "loaded" => outcome = "loaded"
  OBVIOUS
<1>4. QED BY <1>1, <1>2, <1>3 DEF ValueInv

------------------------------------------------------------------------------
(* The files whose includes come to an end *)

(* G[k] is the files that can be read, and all that they include, with no   *)
(* chain of more than k files.                                              *)
Settles(G) ==
  /\ G \in [0 .. MaxDepth -> SUBSET File] /\ G[0] = {}
  /\ \A k \in 0 .. MaxDepth - 1 : G[k + 1] = {f \in File : Readable(f) /\ Included(f) \subseteq G[k]}

LEMMA SettlesExists == \E G : Settles(G)
<1> DEFINE Step == [p \in (1 .. MaxDepth) \X SUBSET File |->
                      {f \in File : Readable(f) /\ Included(f) \subseteq p[2]}]
<1>1. MaxDepth \in Nat /\ {} \in SUBSET File
  BY LoadAssumption DEF LoadAssumption
<1>2. Step \in [(1 .. MaxDepth) \X SUBSET File -> SUBSET File]
  OBVIOUS
<1>3. \A k \in 1 .. MaxDepth, S \in SUBSET File :
        Step[<<k, S>>] = {f \in File : Readable(f) /\ Included(f) \subseteq S}
  OBVIOUS
<1> HIDE DEF Step
<1>4. PICK G : Recurs(G, MaxDepth, SUBSET File, {}, Step)
  BY <1>1, <1>2, Recursion
<1>5. ASSUME NEW k \in 0 .. MaxDepth - 1
      PROVE  G[k + 1] = {f \in File : Readable(f) /\ Included(f) \subseteq G[k]}
  <2>1. k + 1 \in 1 .. MaxDepth /\ (k + 1) - 1 = k /\ k \in 0 .. MaxDepth
    BY <1>1
  <2>2. G[k] \in SUBSET File /\ G[k + 1] = Step[<<k + 1, G[k]>>]
    BY <1>4, <2>1 DEF Recurs
  <2>3. QED BY <1>3, <2>1, <2>2
<1>6. Settles(G)
  BY <1>4, <1>5 DEF Recurs, Settles
<1>7. QED BY <1>6

(* The files that a call has yet to load.                                   *)
Left(call) ==
  {AbsOf[name] : name \in Range(call.paths)} \cup UNION {NamedBy(d) : d \in Range(call.docs)}
Above(i) == IF i = Depth THEN {} ELSE {stack[i + 1].file}

SettleInv(G) ==
  /\ \A i \in 1 .. Depth :
       Included(stack[i].file) \subseteq G[MaxDepth - i] \cup Left(stack[i]) \cup Above(i)
  /\ outcome = "loaded" => AbsOf[Root] \in G[MaxDepth]

LEMMA SettleNext ==
  ASSUME NEW G, content' = content,
         \A i \in 1 .. Depth' :
           Included(stack'[i].file) \subseteq G[MaxDepth - i] \cup Left(stack'[i]) \cup Above(i)',
         outcome' = "loaded" => AbsOf[Root] \in G[MaxDepth]
  PROVE  SettleInv(G)'
<1>1. \A i : Left(stack[i])' = Left(stack'[i])
  BY DEF Left, NamedBy
<1>2. QED BY <1>1, SameFiles DEF SettleInv

LEMMA SettlePushes ==
  ASSUME LoadInv, LinkInv, Pushes, NEW G, SettleInv(G)
  PROVE  SettleInv(G)'
<1>0. PICK n \in Nat : n = Depth
  BY CallTypes
<1>1. /\ Depth' = n + 1 /\ outcome' # "loaded" /\ content' = content
  BY <1>0 DEF Depth, Pushes
<1>2. /\ stack'[n + 1].file = Callee /\ stack'[n + 1].docs = content[Callee]
      /\ Callee \in File /\ Readable(Callee)
  BY <1>0 DEF Pushes
<1>3. ASSUME NEW i \in 1 .. n, i # n
      PROVE  Included(stack'[i].file) \subseteq G[MaxDepth - i] \cup Left(stack'[i]) \cup Above(i)'
  <2>1. i \in 1 .. n - 1 /\ i + 1 \in 1 .. n /\ i # n + 1 /\ n > 0
    BY <1>3
  <2>2. stack'[i] = stack[i]
    BY <1>0, <2>1 DEF Pushes, CallsBelow
  <2>3. stack'[i + 1].file = stack[i + 1].file
    <3>1. i + 1 = n \/ i + 1 \in 1 .. n - 1
      BY <2>1
    <3>2. QED BY <1>0, <2>1, <3>1 DEF Pushes, CallsBelow
  <2>4. Above(i)' = Above(i)
    BY <1>0, <1>1, <1>3, <2>1, <2>3 DEF Above
  <2>5. QED BY <1>0, <2>2, <2>4 DEF SettleInv
<1>4. ASSUME NEW i \in 1 .. n, i = n
      PROVE  Included(stack'[i].file) \subseteq G[MaxDepth - i] \cup Left(stack'[i]) \cup Above(i)'
  <2>1. /\ stack[i].paths \in Seq(Name) /\ stack[i].paths # <<>> /\ Callee = AbsOf[Head(stack[i].paths)]
        /\ stack'[i].file = stack[i].file /\ stack'[i].docs = stack[i].docs
        /\ stack'[i].paths = Tail(stack[i].paths)
    BY <1>0, <1>4, CallTypes DEF Pushes
  <2>2. Range(stack[i].paths) = {Head(stack[i].paths)} \cup Range(stack'[i].paths)
    BY <2>1, RangeOfHeadTail
  <2>3. Left(stack[i]) \subseteq {Callee} \cup Left(stack'[i])
    BY <2>1, <2>2 DEF Left
  <2>4. Above(i)' = {Callee} /\ Above(i) = {}
    BY <1>0, <1>1, <1>2, <1>4 DEF Above
  <2>5. QED BY <1>0, <2>1, <2>3, <2>4 DEF SettleInv
<1>5. Included(stack'[n + 1].file) \subseteq Left(stack'[n + 1])
  BY <1>2, IncludedBy DEF Left
<1>6. \A i \in 1 .. Depth' :
        Included(stack'[i].file) \subseteq G[MaxDepth - i] \cup Left(stack'[i]) \cup Above(i)'
  <2>1. \A i \in 1 .. Depth' : i = n + 1 \/ i \in 1 .. n
    BY <1>1
  <2>2. QED BY <1>3, <1>4, <1>5, <2>1
<1>7. QED BY <1>1, <1>6, SettleNext

LEMMA SettleTakesOne ==
  ASSUME LoadInv, LinkInv, TakesOne, NEW G, SettleInv(G)
  PROVE  SettleInv(G)'
<1>0. PICK n \in Nat : n = Depth
  BY CallTypes
<1>1. n > 0 /\ n \in 1 .. n /\ Depth' = n /\ outcome' # "loaded" /\ content' = content
  BY <1>0 DEF Depth, TakesOne
<1>2. \A i \in 1 .. n : i # n => stack'[i] = stack[i]
  BY <1>0, <1>1 DEF TakesOne, CallsBelow
<1>3. stack'[n].file = stack[n].file
  BY <1>0 DEF TakesOne
<1>4. \A i \in 1 .. n : Above(i)' = Above(i)
  <2>1. \A i \in 1 .. n : stack'[i].file = stack[i].file
    BY <1>2, <1>3
  <2>2. \A i \in 1 .. n : i = n \/ i + 1 \in 1 .. n
    BY <1>1
  <2>3. QED BY <1>0, <1>1, <2>1, <2>2 DEF Above
<1>5. Left(stack[n]) \subseteq Left(stack'[n])
  <2> DEFINE doc == Head(stack[n].docs)
  <2>1. /\ stack[n].docs \in Seq(Document) /\ stack[n].docs # <<>> /\ stack[n].paths = <<>>
        /\ stack'[n].docs = Tail(stack[n].docs)
        /\ doc = Plain \/ (doc \notin {Plain, BadPattern} /\ stack'[n].paths = doc)
    BY <1>0, <1>1, CallTypes DEF TakesOne
  <2>2. Range(stack[n].docs) = {doc} \cup Range(stack'[n].docs) /\ Range(stack[n].paths) = {}
    <3>1. Range(<<>>) = {}
      BY DEF Range
    <3>2. QED BY <2>1, <3>1, RangeOfHeadTail
  <2>3. NamedBy(doc) \subseteq {AbsOf[name] : name \in Range(stack'[n].paths)}
    <3>1. Range(<<>>) = {}
      BY DEF Range
    <3>2. QED BY <2>1, <3>1 DEF NamedBy, Includes
  <2> HIDE DEF doc
  <2>4. QED BY <2>2, <2>3 DEF Left
<1>6. \A i \in 1 .. Depth' :
        Included(stack'[i].file) \subseteq G[MaxDepth - i] \cup Left(stack'[i]) \cup Above(i)'
  <2>1. \A i \in 1 .. n : Included(stack[i].file) \subseteq G[MaxDepth - i] \cup Left(stack[i]) \cup Above(i)
    BY <1>0 DEF SettleInv
  <2>2. QED BY <1>1, <1>2, <1>3, <1>4, <1>5, <2>1
<1>7. QED BY <1>1, <1>6, SettleNext

(* A call that has ended leaves its file among those that come to an end.   *)
LEMMA SettleReturned ==
  ASSUME LoadInv, LinkInv, NEW G, Settles(G), SettleInv(G), Depth > 0,
         stack[Depth].docs = <<>>, stack[Depth].paths = <<>>
  PROVE  stack[Depth].file \in G[MaxDepth - Depth + 1]
<1>1. Depth \in 1 .. Depth /\ Depth \in Nat /\ MaxDepth \in Nat /\ Depth <= MaxDepth
  BY CallTypes, LoadAssumption DEF LinkInv, LoadAssumption
<1>2. Left(stack[Depth]) = {} /\ Above(Depth) = {}
  <2>1. Range(<<>>) = {}
    BY DEF Range
  <2>2. QED BY <2>1 DEF Left, Above
<1>3. Included(stack[Depth].file) \subseteq G[MaxDepth - Depth]
  BY <1>1, <1>2 DEF SettleInv
<1>4. MaxDepth - Depth \in 0 .. MaxDepth - 1
  BY <1>1
<1>5. stack[Depth].file \in File /\ Readable(stack[Depth].file)
  BY <1>1 DEF LinkInv
<1>6. QED BY <1>3, <1>4, <1>5 DEF Settles

LEMMA SettlePops ==
  ASSUME LoadInv, LinkInv, Pops, NEW G, Settles(G), SettleInv(G)
  PROVE  SettleInv(G)'
<1>0. PICK n \in Nat : n = Depth
  BY CallTypes
<1>1. n > 1 /\ Depth' = n - 1 /\ outcome' # "loaded" /\ content' = content /\ MaxDepth \in Nat
  BY <1>0, LoadAssumption DEF LoadAssumption, Depth, Pops
<1>2. \A i \in 1 .. n - 1 : /\ stack'[i].file = stack[i].file /\ stack'[i].paths = stack[i].paths
                            /\ stack'[i].docs = stack[i].docs
  <2>1. \A i \in 1 .. n - 1 : i = n - 1 \/ i \in 1 .. n - 2
    BY <1>1
  <2>2. QED BY <1>0, <2>1 DEF Pops, CallsBelow
<1>3. \A i \in 1 .. n - 1 : Left(stack'[i]) = Left(stack[i])
  BY <1>2 DEF Left
<1>4. ASSUME NEW i \in 1 .. n - 1, i # n - 1
      PROVE  Included(stack'[i].file) \subseteq G[MaxDepth - i] \cup Left(stack'[i]) \cup Above(i)'
  <2>1. i \in 1 .. n /\ i + 1 \in 1 .. n - 1 /\ i # n
    BY <1>1, <1>4
  <2>2. Above(i)' = Above(i)
    BY <1>0, <1>1, <1>2, <1>4, <2>1 DEF Above
  <2>3. QED BY <1>0, <1>2, <1>3, <2>1, <2>2 DEF SettleInv
<1>5. ASSUME NEW i \in 1 .. n - 1, i = n - 1
      PROVE  Included(stack'[i].file) \subseteq G[MaxDepth - i] \cup Left(stack'[i]) \cup Above(i)'
  <2>1. i \in 1 .. n /\ i # n /\ i + 1 = n /\ MaxDepth - n + 1 = MaxDepth - i
    BY <1>1, <1>5
  <2>2. stack[n].file \in G[MaxDepth - n + 1]
    <3>1. stack[n].docs = <<>> /\ stack[n].paths = <<>>
      BY <1>0 DEF Pops
    <3>2. QED BY <1>0, <1>1, <3>1, SettleReturned
  <2>3. Above(i) = {stack[n].file}
    BY <1>0, <2>1 DEF Above
  <2>4. Included(stack[i].file) \subseteq G[MaxDepth - i] \cup Left(stack[i]) \cup Above(i)
    BY <1>0, <2>1 DEF SettleInv
  <2>5. QED BY <1>2, <1>3, <2>1, <2>2, <2>3, <2>4
<1>6. \A i \in 1 .. Depth' :
        Included(stack'[i].file) \subseteq G[MaxDepth - i] \cup Left(stack'[i]) \cup Above(i)'
  BY <1>1, <1>4, <1>5
<1>7. QED BY <1>1, <1>6, SettleNext

LEMMA SettleFinishes ==
  ASSUME LoadInv, LinkInv, Finishes, NEW G, Settles(G), SettleInv(G)
  PROVE  SettleInv(G)'
<1>1. Depth = 1 /\ Depth' = 0 /\ stack # <<>> /\ MaxDepth \in Nat /\ content' = content
  BY EmptySeq, LoadAssumption DEF LoadAssumption, Depth, Finishes
<1>2. stack[Depth].file \in G[MaxDepth - Depth + 1]
  BY <1>1, SettleReturned DEF Finishes
<1>3. stack[1].file = AbsOf[Root] /\ MaxDepth - Depth + 1 = MaxDepth
  BY <1>1 DEF LinkInv
<1>4. QED BY <1>1, <1>2, <1>3, SettleNext

LEMMA SettleSame ==
  ASSUME NEW G, SettleInv(G), UNCHANGED <<content, stack>>, outcome' \in {outcome, "failed", "circular"}
  PROVE  SettleInv(G)'
<1>1. Depth' = Depth /\ \A i : Above(i)' = Above(i)
  BY DEF Depth, Above
<1>2. outcome' = "loaded" => outcome = "loaded"
  OBVIOUS
<1>3. QED BY <1>1, <1>2, SettleNext DEF SettleInv

------------------------------------------------------------------------------
(* What a file includes, directly or not *)

LEMMA FileCount == Cardinality(File) \in Nat
BY LoadAssumption, FS_CardinalityType DEF LoadAssumption

LEMMA IncludedFiles ==
  ASSUME content \in [File -> Seq(Document) \cup {Unreadable, Malformed}]
  PROVE  \A f \in File : Included(f) \subseteq File
<1> SUFFICES ASSUME NEW f \in File, Readable(f), NEW d \in Range(content[f])
             PROVE  \A name \in Range(Includes(d)) : AbsOf[name] \in File
  BY DEF Included
<1>1. content[f] \in Seq(Document)
  BY DEF Readable
<1>2. d \in Document
  BY <1>1, LenProperties, ElementOfSeq DEF Range
<1>3. Includes(d) \in Seq(Name)
  BY <1>2 DEF Document, Includes
<1>4. \A name \in Range(Includes(d)) : name \in Name
  BY <1>3, LenProperties, ElementOfSeq DEF Range
<1>5. QED BY <1>4, LoadAssumption DEF LoadAssumption

(* The rounds in which Closure is made.                                     *)
Closes(u, S) ==
  /\ u \in [0 .. Cardinality(File) -> SUBSET File] /\ u[0] = S
  /\ \A k \in 0 .. Cardinality(File) - 1 : u[k + 1] = u[k] \cup UNION {Included(f) : f \in u[k]}

LEMMA ClosureRounds ==
  ASSUME content \in [File -> Seq(Document) \cup {Unreadable, Malformed}], NEW S \in SUBSET File
  PROVE  \E u : Closes(u, S) /\ Closure(S) = u[Cardinality(File)]
<1> DEFINE N == Cardinality(File)
           More(T) == T \cup UNION {Included(f) : f \in T}
           Rec(u) == u = [k \in 0 .. N |-> IF k = 0 THEN S ELSE More(u[k - 1])]
<1>1. N \in Nat
  BY FileCount
<1>2. Closure(S) = (CHOOSE u : Rec(u))[N]
  BY DEF Closure
<1>3. \A T \in SUBSET File : More(T) \in SUBSET File
  BY IncludedFiles
<1> HIDE DEF N, More
<1>4. \E u : Rec(u)
  <2> DEFINE Step == [p \in (1 .. N) \X SUBSET File |-> More(p[2])]
  <2>1. Step \in [(1 .. N) \X SUBSET File -> SUBSET File]
    BY <1>3
  <2>2. \A i \in 1 .. N, T \in SUBSET File : Step[<<i, T>>] = More(T)
    OBVIOUS
  <2> HIDE DEF Step
  <2>3. PICK u : Recurs(u, N, SUBSET File, S, Step)
    BY <1>1, <2>1, Recursion
  <2>4. ASSUME NEW k \in 0 .. N PROVE u[k] = IF k = 0 THEN S ELSE More(u[k - 1])
    <3>1. CASE k = 0
      BY <2>3, <3>1 DEF Recurs
    <3>2. CASE k # 0
      <4>1. k \in 1 .. N /\ k - 1 \in 0 .. N
        BY <1>1, <3>2
      <4>2. QED BY <2>2, <2>3, <3>2, <4>1 DEF Recurs
    <3>3. QED BY <3>1, <3>2
  <2>5. u = [k \in 0 .. N |-> u[k]]
    BY <2>3 DEF Recurs
  <2>6. Rec(u)
    BY <2>4, <2>5
  <2> HIDE DEF Rec
  <2>7. QED BY <2>6
<1>5. PICK u : Rec(u) /\ Closure(S) = u[N]
  <2> HIDE DEF Rec
  <2>1. QED BY <1>2, <1>4
<1>6. u[0] = S
  BY <1>1, <1>5
<1>7. ASSUME NEW k \in 0 .. N - 1 PROVE u[k + 1] = More(u[k])
  <2>1. k + 1 \in 0 .. N /\ (k + 1) - 1 = k /\ k + 1 # 0
    BY <1>1
  <2>2. QED BY <1>5, <2>1
<1>8. \A k \in 0 .. N : u[k] \in SUBSET File
  <2> DEFINE T == {k \in 0 .. N : u[k] \in SUBSET File}
  <2>1. 0 \in T
    BY <1>1, <1>6
  <2>2. \A k \in 0 .. N - 1 : k \in T => k + 1 \in T
    BY <1>1, <1>3, <1>7
  <2> HIDE DEF T
  <2>3. \A k \in 0 .. N : k \in T
    BY <1>1, <2>1, <2>2, Induction
  <2>4. QED BY <2>3 DEF T
<1>9. u \in [0 .. N -> SUBSET File]
  <2>1. u = [k \in 0 .. N |-> u[k]]
    BY <1>5
  <2>2. QED BY <1>8, <2>1
<1>10. Closes(u, S)
  BY <1>6, <1>7, <1>9 DEF Closes, N, More
<1>11. QED BY <1>5, <1>10 DEF N

(* A set that is closed and has S in it has all that S includes.            *)
LEMMA ClosureWithin ==
  ASSUME content \in [File -> Seq(Document) \cup {Unreadable, Malformed}],
         NEW S \in SUBSET File, NEW Z \in SUBSET File, S \subseteq Z, \A f \in Z : Included(f) \subseteq Z
  PROVE  Closure(S) \subseteq Z
<1> DEFINE N == Cardinality(File)
<1>1. PICK u : Closes(u, S) /\ Closure(S) = u[N]
  BY ClosureRounds
<1>2. N \in Nat
  BY FileCount
<1>3. u[0] = S /\ \A k \in 0 .. N - 1 : u[k + 1] = u[k] \cup UNION {Included(f) : f \in u[k]}
  BY <1>1 DEF Closes
<1> HIDE DEF N
<1> DEFINE T == {k \in 0 .. N : u[k] \subseteq Z}
<1>4. 0 \in T
  BY <1>2, <1>3
<1>5. \A k \in 0 .. N - 1 : k \in T => k + 1 \in T
  BY <1>2, <1>3
<1> HIDE DEF T
<1>6. N \in T
  <2>1. \A k \in 0 .. N : k \in T
    BY <1>2, <1>4, <1>5, Induction
  <2>2. QED BY <1>2, <2>1
<1>7. QED BY <1>1, <1>6 DEF T

(* A chain of includes that begins in S stays in what S includes.           *)
LEMMA ClosureOfChain ==
  ASSUME content \in [File -> Seq(Document) \cup {Unreadable, Malformed}],
         NEW S \in SUBSET File, NEW m \in Nat, m <= Cardinality(File),
         NEW p, p[0] \in S, \A k \in 0 .. m - 1 : p[k + 1] \in Included(p[k])
  PROVE  p[m] \in Closure(S)
<1> DEFINE N == Cardinality(File)
<1>1. PICK u : Closes(u, S) /\ Closure(S) = u[N]
  BY ClosureRounds
<1>2. N \in Nat /\ m \in 0 .. N
  BY FileCount
<1>3. u[0] = S /\ \A k \in 0 .. N - 1 : u[k + 1] = u[k] \cup UNION {Included(f) : f \in u[k]}
  BY <1>1 DEF Closes
<1> HIDE DEF N
<1>4. p[m] \in u[m]
  <2> DEFINE T == {k \in 0 .. m : p[k] \in u[k]}
  <2>1. 0 \in T
    BY <1>3
  <2>2. \A k \in 0 .. m - 1 : k \in T => k + 1 \in T
    <3>1. \A k \in 0 .. m - 1 : k \in 0 .. N - 1
      BY <1>2
    <3>2. QED BY <1>3, <3>1
  <2> HIDE DEF T
  <2>3. \A k \in 0 .. m : k \in T
    BY <2>1, <2>2, Induction
  <2>4. m \in T
    BY <2>3
  <2>5. QED BY <2>4 DEF T
<1>5. p[m] \in u[N]
  <2> DEFINE T == {k \in 0 .. N : k >= m => p[m] \in u[k]}
  <2>1. 0 \in T
    BY <1>2, <1>4
  <2>2. ASSUME NEW k \in 0 .. N - 1, k \in T PROVE k + 1 \in T
    <3>1. k + 1 \in 0 .. N
      BY <1>2
    <3>2. k >= m => p[m] \in u[k + 1]
      BY <1>3, <2>2
    <3>3. k + 1 >= m => k >= m \/ k + 1 = m
      BY <1>2
    <3>4. k + 1 >= m => p[m] \in u[k + 1]
      BY <1>4, <3>2, <3>3
    <3>5. QED BY <3>1, <3>4
  <2> HIDE DEF T
  <2>3. \A k \in 0 .. N : k \in T
    BY <1>2, <2>1, <2>2, Induction
  <2>4. N \in T /\ N >= m
    BY <1>2, <2>3
  <2>5. QED BY <2>4 DEF T
<1>6. QED BY <1>1, <1>5

(* Files whose includes come to an end include no cycle, and can be read.   *)
LEMMA SettledNoCycle ==
  ASSUME content \in [File -> Seq(Document) \cup {Unreadable, Malformed}],
         NEW G, Settles(G), AbsOf[Root] \in G[MaxDepth]
  PROVE  ~Cyclic /\ \A f \in Needed : Readable(f)
<1> DEFINE N == MaxDepth
<1>1. N \in Nat \ {0} /\ AbsOf[Root] \in File
  BY LoadAssumption DEF LoadAssumption
<1>2. /\ G \in [0 .. N -> SUBSET File] /\ G[0] = {} /\ AbsOf[Root] \in G[N]
      /\ \A k \in 0 .. N - 1 : G[k + 1] = {f \in File : Readable(f) /\ Included(f) \subseteq G[k]}
  BY DEF Settles
<1> HIDE DEF N
<1>3. \A k \in 0 .. N - 1 : G[k] \subseteq G[k + 1]
  <2> DEFINE T == {k \in 0 .. N - 1 : G[k] \subseteq G[k + 1]}
  <2>1. 0 \in T
    BY <1>1, <1>2
  <2>2. ASSUME NEW k \in 0 .. (N - 1) - 1, k \in T PROVE k + 1 \in T
    <3>1. k \in 0 .. N - 1 /\ k + 1 \in 0 .. N - 1
      BY <1>1
    <3>2. G[k] \subseteq G[k + 1]
      BY <2>2
    <3>3. G[k + 1] \subseteq G[(k + 1) + 1]
      BY <1>2, <3>1, <3>2
    <3>4. QED BY <3>1, <3>3
  <2> HIDE DEF T
  <2>3. N - 1 \in Nat
    BY <1>1
  <2>4. \A k \in 0 .. N - 1 : k \in T
    BY <2>1, <2>2, <2>3, Induction
  <2>5. QED BY <2>4 DEF T
<1>4. ASSUME NEW k \in 0 .. N, NEW f \in G[k]
      PROVE  Readable(f) /\ Included(f) \subseteq G[k]
  <2>1. k # 0
    BY <1>2
  <2>2. k - 1 \in 0 .. N - 1 /\ (k - 1) + 1 = k
    BY <1>1, <2>1
  <2>3. Readable(f) /\ Included(f) \subseteq G[k - 1] /\ G[k - 1] \subseteq G[k]
    BY <1>2, <1>3, <1>4, <2>2
  <2>4. QED BY <2>3
<1>5. N \in 0 .. N /\ \A k \in 0 .. N : G[k] \in SUBSET File
  BY <1>1, <1>2
<1>6. Needed \subseteq G[N]
  <2>1. {AbsOf[Root]} \in SUBSET File /\ {AbsOf[Root]} \subseteq G[N]
    BY <1>1, <1>2
  <2>2. \A f \in G[N] : Included(f) \subseteq G[N]
    BY <1>4, <1>5
  <2>3. Closure({AbsOf[Root]}) \subseteq G[N]
    BY <1>5, <2>1, <2>2, ClosureWithin
  <2>4. QED BY <2>3 DEF Needed
<1>7. ASSUME NEW k \in 0 .. N - 1, NEW f \in G[k + 1]
      PROVE  Closure(Included(f)) \subseteq G[k]
  <2>1. k \in 0 .. N /\ f \in File /\ Included(f) \subseteq G[k]
    BY <1>1, <1>2, <1>7
  <2>2. Included(f) \in SUBSET File /\ G[k] \in SUBSET File
    BY <1>5, <2>1
  <2>3. \A h \in G[k] : Included(h) \subseteq G[k]
    BY <1>4, <2>1
  <2>4. QED BY <2>1, <2>2, <2>3, ClosureWithin
<1>8. \A f \in G[N] : f \notin Closure(Included(f))
  <2> DEFINE T == {k \in 0 .. N : \A f \in G[k] : f \notin Closure(Included(f))}
  <2>1. 0 \in T
    BY <1>1, <1>2
  <2>2. ASSUME NEW k \in 0 .. N - 1, k \in T PROVE k + 1 \in T
    <3>1. k + 1 \in 0 .. N
      BY <1>1
    <3>2. ASSUME NEW f \in G[k + 1], f \in Closure(Included(f)) PROVE FALSE
      <4>1. f \in G[k]
        BY <1>7, <3>2
      <4>2. QED BY <2>2, <3>2, <4>1
    <3>3. QED BY <3>1, <3>2
  <2> HIDE DEF T
  <2>3. N \in T
    <3>1. N \in Nat
      BY <1>1
    <3>2. \A k \in 0 .. N : k \in T
      BY <2>1, <2>2, <3>1, Induction
    <3>3. QED BY <1>5, <3>2
  <2>4. QED BY <2>3 DEF T
<1>9. \A f \in Needed : Readable(f)
  BY <1>4, <1>5, <1>6
<1>10. ~Cyclic
  BY <1>6, <1>8 DEF Cyclic
<1>11. QED BY <1>9, <1>10

------------------------------------------------------------------------------
(* A file found on the chain of calls *)

LEMMA ChainFits == ASSUME LoadInv, LinkInv PROVE Depth <= Cardinality(File)
<1> DEFINE p == [i \in 1 .. Depth |-> stack[i].file]
<1>1. Depth \in Nat /\ p \in [1 .. Depth -> File]
  BY CallTypes
<1>2. \A i, j \in 1 .. Depth : p[i] = p[j] => i = j
  BY DEF LinkInv
<1> HIDE DEF p
<1>3. p \in Injection(1 .. Depth, File)
  BY <1>1, <1>2 DEF Injection, IsInjective
<1>4. Cardinality(1 .. Depth) <= Cardinality(File)
  BY <1>3, LoadAssumption, FS_Injection DEF LoadAssumption
<1>5. Cardinality(1 .. Depth) = Depth
  <2>1. Cardinality(1 .. Depth) = IF 1 > Depth THEN 0 ELSE Depth - 1 + 1
    BY <1>1, FS_Interval
  <2>2. QED BY <1>1, <2>1
<1>6. QED BY <1>4, <1>5

LEMMA CircularIsCyclic == ASSUME LoadInv, LinkInv, Circular PROVE Cyclic
<1>0. PICK n \in Nat : n = Depth
  BY CallTypes
<1>1. PICK j \in 1 .. n : stack[j].file = Callee
  BY <1>0, ListedOnStack DEF Circular
<1>2. /\ n > 0 /\ stack # <<>> /\ Top = stack[n] /\ stack[n].paths # <<>> /\ n <= Cardinality(File)
  <2>1. n > 0 /\ stack # <<>>
    BY <1>0, <1>1, EmptySeq DEF Depth
  <2>2. Top = stack[n] /\ Top.paths # <<>>
    BY <1>0, <2>1, LoaderState DEF Depth, Circular, Calling
  <2>3. QED BY <1>0, <2>1, <2>2, ChainFits
<1>3. Callee \in Included(stack[n].file)
  <2>1. stack[n].paths \in Seq(Name) /\ n \in 1 .. n
    BY <1>0, <1>2, CallTypes
  <2>2. Head(stack[n].paths) \in Range(stack[n].paths)
    BY <1>2, <2>1, RangeOfHeadTail
  <2>3. QED BY <1>0, <1>2, <2>1, <2>2 DEF LinkInv, Callee
<1>4. /\ content \in [File -> Seq(Document) \cup {Unreadable, Malformed}]
      /\ \A i \in 1 .. n : stack[i].file \in File
      /\ \A i \in 1 .. n - 1 : stack[i + 1].file \in Included(stack[i].file)
  BY <1>0, CallTypes DEF LinkInv
<1>5. Callee \in Needed
  <2> DEFINE p == [k \in Nat |-> stack[k + 1].file]
             m == j - 1
  <2>1. m \in Nat /\ m <= Cardinality(File) /\ p[m] = Callee /\ m + 1 = j
    BY <1>0, <1>1, <1>2, FileCount
  <2>2. p[0] = AbsOf[Root] /\ {AbsOf[Root]} \in SUBSET File
    BY <1>2, LoadAssumption DEF LinkInv, LoadAssumption
  <2>3. \A k \in 0 .. m - 1 : p[k + 1] \in Included(p[k])
    <3>1. \A k \in 0 .. m - 1 : k + 1 \in 1 .. n - 1 /\ k \in Nat /\ k + 1 \in Nat
      BY <2>1
    <3>2. QED BY <1>4, <3>1
  <2> HIDE DEF p, m
  <2>4. p[m] \in Closure({AbsOf[Root]})
    BY <1>4, <2>1, <2>2, <2>3, ClosureOfChain
  <2>5. QED BY <2>1, <2>4 DEF Needed
<1>6. Callee \in Closure(Included(Callee))
  <2> DEFINE m == n - j
             p == [k \in Nat |-> IF k = m THEN Callee ELSE stack[j + k + 1].file]
             S == Included(Callee)
  <2>1. m \in Nat /\ m <= Cardinality(File) /\ p[m] = Callee /\ j + m = n
    BY <1>0, <1>1, <1>2, FileCount
  <2>2. S \in SUBSET File
    BY <1>1, <1>4, IncludedFiles
  <2>3. p[0] \in S
    <3>1. CASE m = 0
      BY <1>1, <1>3, <2>1, <3>1
    <3>2. CASE m # 0
      <4>1. p[0] = stack[j + 1].file /\ j \in 1 .. n - 1
        BY <2>1, <3>2
      <4>2. QED BY <1>1, <1>4, <4>1
    <3>3. QED BY <3>1, <3>2
  <2>4. ASSUME NEW k \in 0 .. m - 1 PROVE p[k + 1] \in Included(p[k])
    <3>1. k \in Nat /\ k + 1 \in Nat /\ k # m /\ j + k + 1 \in 1 .. n /\ p[k] = stack[j + k + 1].file
      BY <2>1
    <3>2. CASE k + 1 = m
      BY <1>3, <2>1, <3>1, <3>2
    <3>3. CASE k + 1 # m
      <4>1. p[k + 1] = stack[(j + k + 1) + 1].file /\ j + k + 1 \in 1 .. n - 1
        BY <2>1, <3>1, <3>3
      <4>2. QED BY <1>4, <3>1, <4>1
    <3>4. QED BY <3>2, <3>3
  <2> HIDE DEF p, m, S
  <2>5. p[m] \in Closure(S)
    BY <1>4, <2>1, <2>2, <2>3, <2>4, ClosureOfChain
  <2>6. QED BY <2>1, <2>5 DEF S
<1>7. QED BY <1>5, <1>6 DEF Cyclic

------------------------------------------------------------------------------
(* What LoadTreeMaps reports *)

ExpandInv ==
  /\ LinkInv
  /\ \A g : Expands(g) => ValueInv(g)
  /\ \A G : Settles(G) => SettleInv(G)
  /\ outcome = "circular" => Cyclic

(* The files stay what they are, and with them what is said of them alone.  *)
LEMMA SameTree ==
  ASSUME content' = content
  PROVE  /\ Cyclic' <=> Cyclic
         /\ \A g : Expands(g)' <=> Expands(g)
         /\ \A G : Settles(G)' <=> Settles(G)
<1>1. Cyclic' <=> Cyclic
  BY DEF Cyclic, Needed, Closure, Included, Readable
<1>2. \A g : Expands(g)' <=> Expands(g)
  BY DEF Expands, Readable
<1>3. \A G : Settles(G)' <=> Settles(G)
  BY DEF Settles, Included, Readable
<1>4. QED BY <1>1, <1>2, <1>3

LEMMA InitExpandInv == LoadInit => ExpandInv
<1> SUFFICES ASSUME LoadInit PROVE ExpandInv
  OBVIOUS
<1>1. Depth = 0 /\ stack = <<>> /\ outcome = "none" /\ MaxDepth \in Nat
  BY EmptySeq, LoadAssumption DEF LoadInit, Depth, LoadAssumption
<1>2. LinkInv
  <2>1. \A i : i \notin 1 .. 0 /\ i \notin 1 .. 0 - 1
    OBVIOUS
  <2>2. QED BY <1>1, <2>1 DEF LinkInv
<1>3. \A g : ValueInv(g)
  BY <1>1 DEF ValueInv
<1>4. \A G : SettleInv(G)
  BY <1>1 DEF SettleInv
<1>5. QED BY <1>1, <1>2, <1>3, <1>4 DEF ExpandInv

(* The inductive step for a step of the loader, invariant by invariant.     *)
LEMMA ExpandNext ==
  ASSUME content' = content, ExpandInv, LinkInv',
         \A g : Expands(g) => ValueInv(g)',
         \A G : Settles(G) => SettleInv(G)',
         outcome' = "circular" => Cyclic
  PROVE  ExpandInv'
BY SameTree DEF ExpandInv

LEMMA NextExpandInv == ASSUME LoadInv, ExpandInv, LoadNext PROVE ExpandInv'
<1>0. /\ LinkInv
      /\ \A g : Expands(g) => ValueInv(g)
      /\ \A G : Settles(G) => SettleInv(G)
  BY DEF ExpandInv
<1>1. CASE Pushes
  <2>1. LinkInv'
    BY <1>0, <1>1, LinkPushes
  <2>2. \A g : Expands(g) => ValueInv(g)'
    BY <1>0, <1>1, ValuePushes
  <2>3. \A G : Settles(G) => SettleInv(G)'
    BY <1>0, <1>1, SettlePushes
  <2>4. content' = content /\ outcome' # "circular"
    BY <1>1 DEF Pushes
  <2>5. QED BY <2>1, <2>2, <2>3, <2>4, ExpandNext
<1>2. CASE TakesOne
  <2>1. LinkInv'
    BY <1>0, <1>2, LinkTakesOne
  <2>2. \A g : Expands(g) => ValueInv(g)'
    BY <1>0, <1>2, ValueTakesOne
  <2>3. \A G : Settles(G) => SettleInv(G)'
    BY <1>0, <1>2, SettleTakesOne
  <2>4. content' = content /\ outcome' # "circular"
    BY <1>2 DEF TakesOne
  <2>5. QED BY <2>1, <2>2, <2>3, <2>4, ExpandNext
<1>3. CASE Pops
  <2>1. LinkInv'
    BY <1>0, <1>3, LinkPops
  <2>2. \A g : Expands(g) => ValueInv(g)'
    BY <1>0, <1>3, ValuePops
  <2>3. \A G : Settles(G) => SettleInv(G)'
    BY <1>0, <1>3, SettlePops
  <2>4. content' = content /\ outcome' # "circular"
    BY <1>3 DEF Pops
  <2>5. QED BY <2>1, <2>2, <2>3, <2>4, ExpandNext
<1>4. CASE Finishes
  <2>1. LinkInv'
    BY <1>4, LinkEmpty DEF Finishes
  <2>2. \A g : Expands(g) => ValueInv(g)'
    BY <1>0, <1>4, ValueFinishes
  <2>3. \A G : Settles(G) => SettleInv(G)'
    BY <1>0, <1>4, SettleFinishes
  <2>4. content' = content /\ outcome' # "circular"
    BY <1>4 DEF Finishes
  <2>5. QED BY <2>1, <2>2, <2>3, <2>4, ExpandNext
<1>5. ASSUME UNCHANGED <<content, stack, loaded>>, outcome' \in {"failed", "circular"},
             outcome' = "circular" => Cyclic
      PROVE  ExpandInv'
  <2>1. LinkInv'
    BY <1>0, <1>5, LinkSame
  <2>2. \A g : Expands(g) => ValueInv(g)'
    BY <1>0, <1>5, ValueSame
  <2>3. \A G : Settles(G) => SettleInv(G)'
    BY <1>0, <1>5, SettleSame
  <2>4. QED BY <1>5, <2>1, <2>2, <2>3, ExpandNext
<1>6. CASE Fails
  BY <1>5, <1>6 DEF Fails
<1>7. CASE Circular
  BY <1>0, <1>5, <1>7, CircularIsCyclic DEF Circular
<1>8. CASE ReadFails
  BY <1>5, <1>8 DEF ReadFails
<1>9. QED BY <1>1, <1>2, <1>3, <1>4, <1>6, <1>7, <1>8, LoadPushes, TakeDocumentTakes, ReturnPops DEF LoadNext

LEMMA ExpandKept == ASSUME ExpandInv, UNCHANGED loadVars PROVE ExpandInv'
<1>1. UNCHANGED <<content, stack, outcome, loaded>>
  BY DEF loadVars
<1>2. LinkInv'
  BY <1>1, LinkSame DEF ExpandInv
<1>3. \A g : Expands(g) => ValueInv(g)'
  BY <1>1, ValueSame DEF ExpandInv
<1>4. \A G : Settles(G) => SettleInv(G)'
  BY <1>1, SettleSame DEF ExpandInv
<1>5. outcome' = "circular" => Cyclic
  BY <1>1 DEF ExpandInv
<1>6. QED BY <1>1, <1>2, <1>3, <1>4, <1>5, ExpandNext

LEMMA StepExpandInv == ASSUME LoadInv, ExpandInv, [Next]_vars PROVE ExpandInv'
<1>1. LoadNext \/ UNCHANGED loadVars
  BY DEF Next, vars, Main, LoadTreeMaps, LoadFails, Loaded, EditFails, EditOne, Decide, Report,
         Start, Listen, BindFails
<1>2. QED BY <1>1, NextExpandInv, ExpandKept

(* LoadTreeMaps reports nothing but what the files hold.                    *)
LEMMA ExpandedHolds == ASSUME LoadInv, ExpandInv PROVE Expanded
<1>1. outcome = "circular" => Cyclic
  BY DEF ExpandInv
<1>2. ASSUME outcome = "loaded" PROVE ~Cyclic /\ \A f \in Needed : Readable(f)
  <2>1. PICK G : Settles(G)
    BY SettlesExists
  <2>2. AbsOf[Root] \in G[MaxDepth]
    BY <1>2, <2>1 DEF ExpandInv, SettleInv
  <2>3. QED BY <2>1, <2>2, CallTypes, SettledNoCycle
<1>3. ASSUME outcome = "loaded" PROVE loaded = Expansion(MaxDepth)
  <2>1. PICK g : Expands(g) /\ Expansion(MaxDepth) = g[MaxDepth][AbsOf[Root]]
    BY CallTypes, ExpansionLevels
  <2>2. loaded = g[MaxDepth][AbsOf[Root]]
    BY <1>3, <2>1 DEF ExpandInv, ValueInv
  <2>3. QED BY <2>1, <2>2
<1>4. QED BY <1>1, <1>2, <1>3 DEF Expanded

(* Where every call in progress stands, and what is left of the files it    *)
(* came by, for every set of files and whatever they include                *)
(* (load.go 23-79).                                                         *)
THEOREM ExpandInvariant == Spec => []ExpandInv
<1>1. Init => ExpandInv
  BY InitExpandInv DEF Init
<1>2. LoadInv /\ ExpandInv /\ [Next]_vars => ExpandInv'
  BY StepExpandInv
<1>3. QED BY <1>1, <1>2, LoadInvariant, PTL DEF Spec

(* For every set of files, whatever they hold and include: a cycle is       *)
(* reported only when there is one; when LoadTreeMaps succeeds there is     *)
(* none, every file it came by could be read, and the documents it returns  *)
(* are those of the files, each include replaced in its place by what it    *)
(* names, as often as it is named (load.go 32-34, 58-79).                   *)
THEOREM ExpandedTheorem == Spec => []Expanded
<1>1. LoadInv /\ ExpandInv => Expanded
  BY ExpandedHolds
<1>2. QED BY <1>1, LoadInvariant, ExpandInvariant, PTL

(* The recursion is bounded by the files there are, under however many      *)
(* names they are included: what ends an endless include                    *)
(* (load.go 27-39, 65-79).                                                  *)
THEOREM DepthTheorem == Spec => [](Len(stack) <= Cardinality(File))
<1>1. LoadInv /\ ExpandInv => Len(stack) <= Cardinality(File)
  BY ChainFits DEF ExpandInv, Depth
<1>2. QED BY <1>1, LoadInvariant, ExpandInvariant, PTL

=============================================================================
