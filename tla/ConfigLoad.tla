------------------------------ MODULE ConfigLoad ------------------------------
(***************************************************************************)
(* pkg/config/load.go: LoadTreeMaps, the recursive expansion of `include`. *)
(*                                                                         *)
(* The list of files being loaded is handed down the recursion as a Go     *)
(* slice, so calls at the same depth may write to the same backing array.  *)
(* A slice is an array of the heap and a length; the capacity of an array  *)
(* doubles when append finds it full.                                      *)
(***************************************************************************)
EXTENDS Integers, Sequences, FiniteSets, SequencesExt

CONSTANTS
  File,        \* files, as absolute paths
  Name,        \* paths as Glob or the command line give them
  AbsOf,       \* Name -> File: filepath.Abs
  Root,        \* the name LoadTreeMaps is called with
  Contents,    \* bound: what the files may hold
  Plain,       \* a document without `include`
  BadPattern,  \* a document whose `include` Glob does not accept
  Unreadable, Malformed,   \* a file that cannot be read, or not be decoded
  Unused,      \* a cell of an array that was never written
  MaxDepth     \* bound: calls of loadTreeMapsPath in progress

Document == Seq(Name) \cup {Plain, BadPattern}

ASSUME LoadAssumption ==
  /\ IsFiniteSet(File)
  /\ AbsOf \in [Name -> File]
  /\ Root \in Name
  /\ Contents \subseteq [File -> Seq(Document) \cup {Unreadable, Malformed}]
  /\ MaxDepth \in Nat \ {0}

VARIABLES
  content,     \* file -> its documents; an include is the names Glob finds
  heap,        \* the arrays behind the slices
  stack,       \* calls of expandIncludes in progress, outermost first
  outcome,     \* "none" until LoadTreeMaps returns
  loaded       \* what it returns: the files the plain documents come from

loadVars == <<content, heap, stack, outcome, loaded>>

NilSlice == [array |-> 0, len |-> 0]
Cap(slice) == IF slice.array = 0 THEN 0 ELSE Len(heap[slice.array])
Elements(slice) == IF slice.array = 0 THEN <<>> ELSE SubSeq(heap[slice.array], 1, slice.len)

\* Variant: whatever is in the array.
ListedAnywhere(slice, file) ==
  slice.array # 0 /\ file \in Range(heap[slice.array])

\* Variant: no check.
ListedNowhere(slice, file) == FALSE

\* slices.Contains.
Listed(slice, file) == file \in Range(Elements(slice))

\* Variant: append that forgets its length.
AppendAtEnd(slice, file) ==
  LET cells == IF slice.array = 0 THEN <<>> ELSE heap[slice.array]
  IN  [slice |-> [array |-> Len(heap) + 1, len |-> Len(cells) + 1],
       heap |-> Append(heap, cells \o <<file>> \o [i \in 1 .. Len(cells) |-> Unused])]

\* append: the slice it returns and the heap it leaves.
AppendPath(slice, file) ==
  LET free == Cap(slice) - slice.len
      room == IF slice.len = 0 THEN 0 ELSE slice.len - 1    \* cells left over
  IN  IF free > 0
      THEN [slice |-> [slice EXCEPT !.len = @ + 1],
            heap |-> [heap EXCEPT ![slice.array][slice.len + 1] = file]]
      ELSE [slice |-> [array |-> Len(heap) + 1, len |-> slice.len + 1],
            heap |-> Append(heap, Elements(slice) \o <<file>> \o
                                  [i \in 1 .. room |-> Unused])]

Frame == [file : File,
          docs : Seq(Document),              \* still to expand
          paths : Seq(Name),                 \* of the include being expanded
          loadedPaths : [array : Nat, len : Nat],
          out : Seq(File)]

Top == Last(stack)

LoadInit ==
  /\ content \in Contents
  /\ heap = <<>>
  /\ stack = <<>>
  /\ outcome = "none"
  /\ loaded = <<>>

------------------------------------------------------------------------------
\* The call of loadTreeMapsPath that is due.
Calling ==
  /\ outcome = "none"
  /\ stack # <<>> => Top.paths # <<>>
  /\ Len(stack) < MaxDepth

Callee == AbsOf[IF stack = <<>> THEN Root ELSE Head(Top.paths)]
LoadedPaths == IF stack = <<>> THEN NilSlice ELSE Top.loadedPaths

Circular ==
  /\ Calling
  /\ Listed(LoadedPaths, Callee)
  /\ outcome' = "circular"
  /\ UNCHANGED <<content, heap, stack, loaded>>

ReadFails ==
  /\ Calling
  /\ ~Listed(LoadedPaths, Callee)
  /\ content[Callee] \in {Unreadable, Malformed}
  /\ outcome' = "failed"
  /\ UNCHANGED <<content, heap, stack, loaded>>

\* The file is read, its documents decoded, and expandIncludes entered.
Load ==
  /\ Calling
  /\ ~Listed(LoadedPaths, Callee)
  /\ content[Callee] \notin {Unreadable, Malformed}
  /\ LET appended == AppendPath(LoadedPaths, Callee)
         caller == IF stack = <<>> THEN <<>>
                   ELSE [stack EXCEPT ![Len(stack)].paths = Tail(@)]
     IN  /\ heap' = appended.heap
         /\ stack' = Append(caller, [file |-> Callee, docs |-> content[Callee],
                                     paths |-> <<>>, loadedPaths |-> appended.slice,
                                     out |-> <<>>])
  /\ UNCHANGED <<content, outcome, loaded>>

\* expandIncludes is between two documents.
Expanding == outcome = "none" /\ stack # <<>> /\ Top.paths = <<>>

TakeDocument ==
  /\ Expanding
  /\ Top.docs # <<>>
  /\ LET doc == Head(Top.docs)
         rest == [Top EXCEPT !.docs = Tail(@)]
     IN  \/ /\ doc = Plain
            /\ stack' = Append(Front(stack), [rest EXCEPT !.out = Append(@, Top.file)])
            /\ outcome' = outcome
         \/ /\ doc = BadPattern
            /\ outcome' = "failed"
            /\ stack' = stack
         \/ /\ doc \notin {Plain, BadPattern}
            /\ stack' = Append(Front(stack), [rest EXCEPT !.paths = doc])
            /\ outcome' = outcome
  /\ UNCHANGED <<content, heap, loaded>>

\* expandIncludes returns to its caller's, or to LoadTreeMaps's.
Return ==
  /\ Expanding
  /\ Top.docs = <<>>
  /\ IF Len(stack) = 1
     THEN outcome' = "loaded" /\ loaded' = Top.out /\ stack' = <<>>
     ELSE /\ stack' = [Front(stack) EXCEPT ![Len(stack) - 1].out = @ \o Top.out]
          /\ UNCHANGED <<outcome, loaded>>
  /\ UNCHANGED <<content, heap>>

LoadNext == Circular \/ ReadFails \/ Load \/ TakeDocument \/ Return

------------------------------------------------------------------------------
Readable(f) == content[f] \notin {Unreadable, Malformed}
Includes(doc) == IF doc \in {Plain, BadPattern} THEN <<>> ELSE doc
Included(f) ==
  IF Readable(f)
  THEN {AbsOf[n] : n \in UNION {Range(Includes(d)) : d \in Range(content[f])}}
  ELSE {}

\* The files of S and all that they include, directly or not.
Closure(S) ==
  LET upTo[k \in 0 .. Cardinality(File)] ==
        IF k = 0 THEN S
        ELSE LET Sub == upTo[k - 1] IN Sub \cup UNION {Included(f) : f \in Sub}
  IN  upTo[Cardinality(File)]

Needed == Closure({AbsOf[Root]})
Cyclic == \E f \in Needed : f \in Closure(Included(f))

\* What names and documents of f stand for, when each file g stands for sub[g].
FromNames(sub, names) == FlattenSeq([i \in DOMAIN names |-> sub[AbsOf[names[i]]]])
FromDocuments(sub, f, docs) ==
  FlattenSeq([i \in DOMAIN docs |->
                IF docs[i] = Plain THEN <<f>> ELSE FromNames(sub, Includes(docs[i]))])

\* The plain documents of Root and of what it includes, where they stand; for
\* n at least the length of every chain of includes.
Expansion(n) ==
  LET upTo[k \in 0 .. n] ==
        LET sub == upTo[k - 1]
        IN  [f \in File |-> IF k = 0 \/ ~Readable(f) THEN <<>>
                            ELSE FromDocuments(sub, f, content[f])]
  IN  upTo[n][AbsOf[Root]]

(* The types of the loader's state; a slice lies within its array           *)
(* (load.go 27-39, 58-79).                                                  *)
LoadTypeOK ==
  /\ content \in [File -> Seq(Document) \cup {Unreadable, Malformed}]
  /\ heap \in Seq(Seq(File \cup {Unused}))
  /\ stack \in Seq(Frame)
  /\ \A i \in DOMAIN stack :
       LET slice == stack[i].loadedPaths
       IN  slice.array \in DOMAIN heap /\ slice.len <= Len(heap[slice.array])
  /\ outcome \in {"none", "loaded", "circular", "failed"}
  /\ loaded \in Seq(File)

(* The slice of every call in progress lists exactly the files on its own   *)
(* chain, whatever calls next to it wrote to the array they share           *)
(* (load.go 39, 71).                                                        *)
ChainExact ==
  \A i \in DOMAIN stack :
    Elements(stack[i].loadedPaths) = [j \in 1 .. i |-> stack[j].file]

(* LoadTreeMaps reports a cycle only when there is one: a file that is      *)
(* included twice is none, and a file reached under another name is still   *)
(* the same file.  When it succeeds there is no cycle, every file could be  *)
(* read, and the documents are in the order of the files, each include      *)
(* replaced in its place by what it names, as often as it is named          *)
(* (load.go 32-34, 58-79; load_test.go 64-126).                             *)
Expanded ==
  /\ outcome = "circular" => Cyclic
  /\ outcome = "loaded" =>
       /\ ~Cyclic
       /\ \A f \in Needed : Readable(f)
       /\ loaded = Expansion(MaxDepth)
==============================================================================
