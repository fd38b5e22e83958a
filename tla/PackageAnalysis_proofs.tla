---------------------- MODULE PackageAnalysis_proofs ----------------------
(***************************************************************************)
(* Proofs about PackageAnalysis, for every set of source trees: its        *)
(* variables keep their types, the names marked Processing are those on    *)
(* the stack, and each package given is compiled to one object.  For the   *)
(* tidy trees among them: cyclic imports are found and failures justified, *)
(* what is compiled sees its imports and was type checked.                 *)
(***************************************************************************)
EXTENDS PackageAnalysis, FiniteSetTheorems, SequenceTheorems, TLAPS

(* The name of the i-th package of the k-th activation. *)
NameAt(k, i) == heap[stack[k].packages[i]].name

(* What an activation works on are objects of the heap. *)
FramesPoint ==
  \A k \in DOMAIN stack :
    stack[k].packages \in Seq(DOMAIN heap) /\ stack[k].i # 0

(* An activation that waits for a call is at one of its packages, and the  *)
(* stack is empty once the first activation has returned.                  *)
Poised ==
  /\ \A k \in Waiting : stack[k].i \in DOMAIN stack[k].packages
  /\ pc \in {"loop", "return"} => stack # <<>>
  /\ pc \in {"typecheck", "codegen", "done"} => stack = <<>>

Typed == TypeOK /\ FramesPoint /\ Poised

(* No activation works on a package that an earlier one is following.      *)
Apart ==
  \A k \in DOMAIN stack : \A i \in DOMAIN stack[k].packages :
    \A j \in 1..(k - 1) : NameAt(k, i) # Following(j)

Marked ==
  pc \notin Failed =>
    {n \in Name : status[n] = "Processing"} = {Following(k) : k \in Waiting}

(* The objects stand for the packages of the command line, one for each.   *)
AreGiven(t, h, objs) ==
  /\ {h[objs[k]].name : k \in DOMAIN objs} = {t.package[f] : f \in t.given}
  /\ \A j, k \in DOMAIN objs : h[objs[j]].name = h[objs[k]].name => j = k

FirstOnGiven ==
  /\ pc = "enter" /\ stack = <<>> =>
       calling = tree.given /\ \A n \in Name : status[n] = "None"
  /\ stack # <<>> => AreGiven(tree, heap, stack[1].packages)
  /\ pc \in {"typecheck", "codegen", "done"} => AreGiven(tree, heap, returned)
  /\ pc = "done" =>
       objects = [k \in 1..Cardinality(tree.given) |->
                    IF k \in DOMAIN returned THEN heap[returned[k]].name
                    ELSE NoName]

IInv == Typed /\ Apart /\ Marked /\ FirstOnGiven

Obj == [name : Name, files : SUBSET File]

-----------------------------------------------------------------------------
(* What the assumption says of the tree at hand.                           *)
LEMMA TreeFacts ==
  ASSUME tree \in Trees
  PROVE  /\ tree.package \in [File -> Name]
         /\ tree.imports \in [File -> SUBSET Name]
         /\ tree.candidates \in [Name -> Seq(SUBSET File)]
         /\ tree.given \in SUBSET File
         /\ IsFiniteSet(File) /\ IsFiniteSet(Name) /\ NoName \notin Name
  BY TreesAssumption

(* The top of a stack, and what replacing it changes.                      *)
LEMMA TopFacts ==
  ASSUME stack \in Seq(Frame), stack # <<>>
  PROVE  /\ Len(stack) \in Nat \ {0}
         /\ Len(stack) \in DOMAIN stack
         /\ Top = stack[Len(stack)]
         /\ Top \in Frame
  BY DEF Top

(* A new top leaves the frames below.                                      *)
LEMMA WithTopFacts ==
  ASSUME stack \in Seq(Frame), stack # <<>>, NEW frame \in Frame
  PROVE  /\ WithTop(frame) \in Seq(Frame)
         /\ WithTop(frame) # <<>>
         /\ Len(WithTop(frame)) = Len(stack)
         /\ DOMAIN WithTop(frame) = DOMAIN stack
         /\ WithTop(frame)[Len(stack)] = frame
         /\ \A k \in 1..(Len(stack) - 1) : WithTop(frame)[k] = stack[k]
         /\ \A k \in DOMAIN stack : k # Len(stack) => WithTop(frame)[k] = stack[k]
  BY DEF WithTop

(* A frame with some of its fields replaced.                               *)
LEMMA FrameFacts ==
  ASSUME NEW f \in Frame, NEW i \in Nat, NEW names \in SUBSET Name
  PROVE  /\ [f EXCEPT !.i = i] \in Frame
         /\ [f EXCEPT !.i = i].packages = f.packages
         /\ [f EXCEPT !.i = i].i = i
         /\ [f EXCEPT !.names = names] \in Frame
         /\ [f EXCEPT !.names = names].packages = f.packages
         /\ [f EXCEPT !.names = names].i = f.i
         /\ [f EXCEPT !.phase = "precheck", !.i = i] \in Frame
         /\ [f EXCEPT !.phase = "precheck", !.i = i].packages = f.packages
         /\ [f EXCEPT !.phase = "precheck", !.i = i].i = i
  BY DEF Frame

(* A prefix is as long as it says.                                         *)
LEMMA FrontLength ==
  ASSUME NEW S, NEW s \in Seq(S), NEW n \in 0..Len(s)
  PROVE  Len(SubSeq(s, 1, n)) = n
<1>1. n \in Int /\ \A i \in 1..n : s[i] \in S
  OBVIOUS
<1>2. Len(SubSeq(s, 1, n)) = IF 1 <= n THEN n - 1 + 1 ELSE 0
  BY ONLY <1>1, SubSeqProperties
<1> QED BY ONLY <1>1, <1>2, n \in 0..Len(s), Len(s) \in Nat

(* The frame turned to its next package.                                   *)
LEMMA AdvanceFacts ==
  ASSUME stack \in Seq(Frame), stack # <<>>, Top \in Frame, Top.i \in Nat,
         stack' = WithTop([Top EXCEPT !.i = @ + 1, !.names = {}])
  PROVE  \E g \in Frame : g.packages = Top.packages /\ g.i # 0 /\ stack' = WithTop(g)
<1>1. PICK none \in SUBSET Name : none = {}
  OBVIOUS
<1>2. PICK j \in Nat : j = Top.i + 1
  OBVIOUS
<1>3. PICK f \in Frame : f = Top
  OBVIOUS
<1> DEFINE g == [f EXCEPT !.i = j, !.names = none]
<1>4. stack' = WithTop(g)
  BY <1>1, <1>2, <1>3
<1>5. g \in Frame /\ g.packages = f.packages /\ g.i = j
  BY DEF Frame
<1>6. j # 0
  BY <1>2
<1> HIDE DEF g
<1> QED BY <1>3, <1>4, <1>5, <1>6

(* Popping the top leaves the frames below.                                *)
LEMMA PopFacts ==
  ASSUME stack \in Seq(Frame), stack # <<>>
  PROVE  /\ SubSeq(stack, 1, Len(stack) - 1) \in Seq(Frame)
         /\ Len(SubSeq(stack, 1, Len(stack) - 1)) = Len(stack) - 1
         /\ \A k \in 1..(Len(stack) - 1) :
              SubSeq(stack, 1, Len(stack) - 1)[k] = stack[k]
         /\ SubSeq(stack, 1, Len(stack) - 1) = <<>> <=> Len(stack) = 1
<1> DEFINE rest == SubSeq(stack, 1, Len(stack) - 1)
<1>1. Len(stack) \in Nat \ {0}
  OBVIOUS
<1>2. rest \in Seq(Frame)
  BY <1>1
<1>3. Len(rest) = Len(stack) - 1
  BY SMTT(30), <1>1, FrontLength
<1>4. \A k \in 1..(Len(stack) - 1) : rest[k] = stack[k]
  BY <1>1
<1> HIDE DEF rest
<1>5. rest = <<>> <=> Len(rest) = 0
  BY <1>2
<1>6. rest = <<>> <=> Len(stack) = 1
  BY <1>1, <1>3, <1>5
<1> QED BY <1>2, <1>3, <1>4, <1>6, Zenon DEF rest

(* The files and the names an object of the heap imports.                  *)
LEMMA ImportFacts ==
  ASSUME tree \in Trees, NEW object \in Obj
  PROVE  /\ ImportsOf(object) \in SUBSET Name
         /\ ImportNames(object) \in SUBSET Name
         /\ ~Unresolved(object) => ImportFiles(object) \in SUBSET File
<1>1. ImportsOf(object) \in SUBSET Name
  BY TreeFacts DEF ImportsOf, Obj
<1>2. ImportNames(object) \in SUBSET Name
  BY <1>1 DEF ImportNames
<1>3. ASSUME ~Unresolved(object)
      PROVE  ImportFiles(object) \in SUBSET File
  <2>1. ASSUME NEW n \in ImportsOf(object)
        PROVE  tree.candidates[n][1] \in SUBSET File
    <3>1. tree.candidates[n] \in Seq(SUBSET File)
      BY <1>1, TreeFacts
    <3>2. tree.candidates[n] # <<>>
      BY <1>3 DEF Unresolved
    <3> QED BY <3>1, <3>2
  <2> QED BY <2>1 DEF ImportFiles
<1> QED BY <1>1, <1>2, <1>3

(* The heap holds packages with names and files.                           *)
LEMMA HeapFacts ==
  ASSUME TypeOK
  PROVE  /\ heap \in Seq(Obj)
         /\ Len(heap) \in Nat /\ DOMAIN heap = 1..Len(heap)
         /\ heap \in [1..Len(heap) -> Obj]
         /\ \A o \in DOMAIN heap : heap[o] \in Obj /\ heap[o].name \in Name
<1>1. heap \in Seq(Obj)
  BY DEF TypeOK, Obj
<1>2. \A x \in Obj : x.name \in Name
  BY DEF Obj
<1> QED BY <1>1, <1>2, LenProperties

(* What the loops look at is an object of the heap.                        *)
LEMMA CurrentFacts ==
  ASSUME Typed, stack # <<>>, Top.i \in DOMAIN Top.packages
  PROVE  /\ Top.packages[Top.i] \in DOMAIN heap
         /\ Current \in Obj
         /\ Current.name \in Name
         /\ Current.name = NameAt(Len(stack), Top.i)
         /\ Current.name = Following(Len(stack))
<1>1. Top.packages \in Seq(DOMAIN heap)
  BY TopFacts DEF Typed, TypeOK, FramesPoint
<1>2. Top.packages[Top.i] \in DOMAIN heap
  BY <1>1
<1>3. Current \in Obj
  BY <1>2, HeapFacts DEF Current, Typed
<1>4. Current.name \in Name
  BY <1>3 DEF Obj
<1>5. Current.name = NameAt(Len(stack), Top.i)
  BY Zenon DEF Current, NameAt, Top
<1>6. Current.name = Following(Len(stack))
  BY Zenon DEF Current, Following, Top
<1> QED BY <1>2, <1>3, <1>4, <1>5, <1>6

(* The loops look at packages of the top.                                  *)
LEMMA TopInRange ==
  ASSUME Typed, stack # <<>>
  PROVE  /\ Top \in Frame /\ Top.i \in Nat /\ Top.i # 0
         /\ Len(stack) \in DOMAIN stack /\ Top = stack[Len(stack)]
         /\ Top.packages \in Seq(DOMAIN heap)
         /\ Top.i <= Len(Top.packages) => Top.i \in DOMAIN Top.packages
<1>1. stack \in Seq(Frame)
  BY DEF Typed, TypeOK
<1>2. Top \in Frame /\ Len(stack) \in DOMAIN stack /\ Top = stack[Len(stack)]
  BY <1>1, TopFacts
<1>3. Top.i \in Nat
  BY <1>2 DEF Frame
<1>4. Top.packages \in Seq(DOMAIN heap) /\ Top.i # 0
  BY <1>2 DEF Typed, FramesPoint
<1>5. DOMAIN Top.packages = 1..Len(Top.packages) /\ Len(Top.packages) \in Nat
  BY <1>4, LenProperties
<1>6. Top.i <= Len(Top.packages) => Top.i \in DOMAIN Top.packages
  BY <1>3, <1>4, <1>5
<1> QED BY <1>2, <1>3, <1>4, <1>6

-----------------------------------------------------------------------------
(* EnterStage1 puts new objects behind those of the heap.                  *)
LEMMA GrowFacts ==
  ASSUME NEW S, NEW m \in Nat, NEW n \in Nat,
         NEW s \in [1..m -> S], NEW t \in [1..n -> S]
  PROVE  /\ s \o t \in [1..(m + n) -> S]
         /\ s \o t \in Seq(S)
         /\ \A i \in 1..m : (s \o t)[i] = s[i]
         /\ \A i \in 1..n : (s \o t)[m + i] = t[i]
<1>1. s \in Seq(S) /\ t \in Seq(S) /\ Len(s) = m /\ Len(t) = n
  OBVIOUS
<1>2. /\ s \o t \in Seq(S)
      /\ Len(s \o t) = m + n
      /\ \A i \in 1..(m + n) : (s \o t)[i] = IF i <= m THEN s[i] ELSE t[i - m]
  BY <1>1, ConcatProperties
<1>3. s \o t \in [1..(m + n) -> S]
  BY ONLY <1>2, LenProperties
<1>4. \A i \in 1..m : (s \o t)[i] = s[i]
  BY <1>2
<1>5. \A i \in 1..n : (s \o t)[m + i] = t[i]
  BY <1>2
<1> QED BY <1>2, <1>3, <1>4, <1>5

(* An order lists the kept names once each.                                *)
LEMMA OrderFacts ==
  ASSUME Typed, NEW order \in Orders(Kept)
  PROVE  /\ Kept \in SUBSET Name
         /\ Cardinality(Kept) \in Nat
         /\ order \in [1..Cardinality(Kept) -> Kept]
         /\ \A n \in Kept : \E k \in DOMAIN order : order[k] = n
         /\ \A j, k \in DOMAIN order : order[j] = order[k] => j = k
<1>1. Kept \in SUBSET Name
  BY TreeFacts DEF Kept, Organized, Typed, TypeOK
<1>2. IsFiniteSet(Kept)
  BY <1>1, TreeFacts, FS_Subset DEF Typed, TypeOK
<1>3. Cardinality(Kept) \in Nat
  BY <1>2, FS_CardinalityType
<1> QED BY <1>1, <1>3 DEF Orders, Bijection, Injection, Surjection, IsInjective

(* The heap grows by one object for each name that is kept.                *)
LEMMA EnterFacts ==
  ASSUME Typed, NEW order \in Orders(Kept),
         heap' = heap \o [k \in DOMAIN order |->
                            [name |-> order[k], files |-> Named(order[k])]]
  PROVE  /\ Len(heap) \in Nat /\ DOMAIN heap = 1..Len(heap)
         /\ heap' \in Seq(Obj)
         /\ DOMAIN heap' = 1..(Len(heap) + Cardinality(Kept))
         /\ \A o \in DOMAIN heap : o \in DOMAIN heap' /\ heap'[o] = heap[o]
         /\ Ids(order) \in [1..Cardinality(Kept) -> DOMAIN heap']
         /\ Ids(order) \in Seq(DOMAIN heap')
         /\ \A k \in DOMAIN order : /\ Ids(order)[k] = Len(heap) + k
                                    /\ heap'[Ids(order)[k]].name = order[k]
                                    /\ heap'[Ids(order)[k]].files = Named(order[k])
         /\ \A o \in DOMAIN heap' :
              o \in DOMAIN heap \/ \E k \in DOMAIN order : o = Ids(order)[k]
<1> DEFINE m == Len(heap)
           n == Cardinality(Kept)
           new == [k \in DOMAIN order |->
                     [name |-> order[k], files |-> Named(order[k])]]
<1>2. m \in Nat /\ DOMAIN heap = 1..m /\ heap \in [1..m -> Obj]
  BY HeapFacts DEF Typed
<1>3. n \in Nat /\ DOMAIN order = 1..n /\ Kept \in SUBSET Name
  BY OrderFacts
<1>4. ASSUME NEW k \in 1..n
      PROVE  /\ new[k] \in Obj /\ new[k].name = order[k]
             /\ new[k].files = Named(order[k])
  <2>1. order[k] \in Name
    BY <1>3, OrderFacts
  <2>2. Named(order[k]) \in SUBSET File
    BY DEF Named, Typed, TypeOK
  <2> QED BY <1>3, <2>1, <2>2 DEF Obj
<1>5. new \in [1..n -> Obj]
  BY <1>3, <1>4
<1> HIDE DEF new, n, m
<1>6. /\ heap \o new \in [1..(m + n) -> Obj]
      /\ heap \o new \in Seq(Obj)
      /\ \A i \in 1..m : (heap \o new)[i] = heap[i]
      /\ \A i \in 1..n : (heap \o new)[m + i] = new[i]
  <2>1. m \in Nat /\ n \in Nat /\ heap \in [1..m -> Obj] /\ new \in [1..n -> Obj]
    BY <1>2, <1>3, <1>5
  <2>2. heap \o new \in [1..(m + n) -> Obj]
    BY ONLY <2>1, GrowFacts
  <2>3. heap \o new \in Seq(Obj)
    BY ONLY <2>1, GrowFacts
  <2>4. \A i \in 1..m : (heap \o new)[i] = heap[i]
    BY ONLY <2>1, GrowFacts
  <2>5. \A i \in 1..n : (heap \o new)[m + i] = new[i]
    BY ONLY <2>1, GrowFacts
  <2> QED BY ONLY <2>2, <2>3, <2>4, <2>5
<1>7. heap' = heap \o new
  BY DEF new
<1>8. DOMAIN heap' = 1..(m + n)
  BY <1>6, <1>7
<1>9. \A k \in 1..n : Ids(order)[k] = m + k /\ m + k \in 1..(m + n)
  BY <1>2, <1>3 DEF Ids, m
<1>10. Ids(order) \in [1..n -> DOMAIN heap']
  BY <1>3, <1>8, <1>9 DEF Ids
<1>11. Ids(order) \in Seq(DOMAIN heap')
  BY <1>3, <1>10
<1>12. \A k \in 1..n : /\ heap'[Ids(order)[k]].name = order[k]
                      /\ heap'[Ids(order)[k]].files = Named(order[k])
  BY <1>4, <1>6, <1>7, <1>9
<1>13. \A o \in DOMAIN heap : o \in DOMAIN heap' /\ heap'[o] = heap[o]
  BY <1>2, <1>3, <1>6, <1>7, <1>8
<1>14. heap' \in Seq(Obj)
  BY <1>6, <1>7
<1>15. \A o \in DOMAIN heap' :
         o \in DOMAIN heap \/ \E k \in DOMAIN order : o = Ids(order)[k]
  <2>1. ASSUME NEW o \in 1..(m + n), o \notin 1..m
        PROVE  \E k \in 1..n : o = Ids(order)[k]
    <3>1. o - m \in 1..n /\ o = m + (o - m)
      BY <1>2, <1>3, <2>1 DEF m
    <3> QED BY <1>9, <3>1
  <2> QED BY <1>2, <1>3, <1>8, <2>1
<1> QED BY <1>2, <1>3, <1>8, <1>9, <1>10, <1>11, <1>12, <1>13, <1>14, <1>15, Zenon DEF m, n

-----------------------------------------------------------------------------
(* Replacing the top by a frame for the same packages: the activations     *)
(* below are as they were.                                                 *)
LEMMA TopStep ==
  ASSUME Typed, stack # <<>>, NEW g \in Frame, g.packages = Top.packages, g.i # 0,
         stack' = WithTop(g), heap' = heap
  PROVE  /\ stack' \in Seq(Frame) /\ stack' # <<>>
         /\ Len(stack') = Len(stack) /\ DOMAIN stack' = DOMAIN stack
         /\ \A k \in DOMAIN stack : stack'[k].packages = stack[k].packages
         /\ stack'[Len(stack)] = g
         /\ \A k \in 1..(Len(stack) - 1) : stack'[k] = stack[k]
         /\ FramesPoint'
         /\ Apart => Apart'
<1>1. stack \in Seq(Frame) /\ heap \in Seq(Obj)
  BY HeapFacts DEF Typed, TypeOK
<1>2. /\ stack' \in Seq(Frame) /\ stack' # <<>>
      /\ Len(stack') = Len(stack) /\ DOMAIN stack' = DOMAIN stack
      /\ stack'[Len(stack)] = g
      /\ \A k \in 1..(Len(stack) - 1) : stack'[k] = stack[k]
      /\ \A k \in DOMAIN stack : k # Len(stack) => stack'[k] = stack[k]
  BY <1>1, WithTopFacts
<1>3. ASSUME NEW k \in DOMAIN stack
      PROVE  stack'[k].packages = stack[k].packages
  <2>1. CASE k = Len(stack)
    BY <1>2, <2>1 DEF Top
  <2>2. CASE k # Len(stack)
    BY <1>2, <2>2
  <2> QED BY <2>1, <2>2
<1>4. ASSUME NEW k \in DOMAIN stack
      PROVE  stack'[k].packages \in Seq(DOMAIN heap) /\ stack'[k].i # 0
  <2>1. stack[k].packages \in Seq(DOMAIN heap) /\ stack[k].i # 0
    BY DEF Typed, FramesPoint
  <2>2. stack'[k].i # 0
    BY <1>2, <2>1
  <2> QED BY <1>3, <2>1, <2>2
<1>5. FramesPoint'
  BY <1>2, <1>4 DEF FramesPoint
<1>6. ASSUME Apart
      PROVE  Apart'
  <2> SUFFICES ASSUME NEW k \in DOMAIN stack', NEW i \in DOMAIN stack'[k].packages,
                      NEW j \in 1..(k - 1)
               PROVE  heap'[stack'[k].packages[i]].name #
                        heap'[stack'[j].packages[stack'[j].i]].name
    BY DEF Apart, NameAt, Following
  <2>1. k \in DOMAIN stack /\ i \in DOMAIN stack[k].packages
    BY <1>2, <1>3
  <2>2. heap[stack[k].packages[i]].name # heap[stack[j].packages[stack[j].i]].name
    BY <1>6, <2>1 DEF Apart, NameAt, Following
  <2>3. stack'[j] = stack[j]
    BY <1>1, <1>2, <2>1
  <2> QED BY <1>3, <2>1, <2>2, <2>3
<1> QED BY <1>2, <1>3, <1>5, <1>6

(* LeaveStage1 takes the top off.                                          *)
LEMMA PopStep ==
  ASSUME Typed, LeaveStage1
  PROVE  /\ stack # <<>> /\ Len(stack) \in Nat \ {0}
         /\ stack' \in Seq(Frame)
         /\ Len(stack') = Len(stack) - 1
         /\ DOMAIN stack' = 1..(Len(stack) - 1)
         /\ DOMAIN stack' \subseteq DOMAIN stack
         /\ \A k \in 1..(Len(stack) - 1) : stack'[k] = stack[k]
         /\ stack' = <<>> <=> Len(stack) = 1
         /\ FramesPoint'
         /\ Apart => Apart'
<1>1. stack \in Seq(Frame) /\ stack # <<>>
  BY DEF Typed, TypeOK, Poised, LeaveStage1
<1>2. stack' = SubSeq(stack, 1, Len(stack) - 1) /\ heap' = heap
  BY DEF LeaveStage1
<1>3. /\ Len(stack) \in Nat \ {0}
      /\ stack' \in Seq(Frame)
      /\ Len(stack') = Len(stack) - 1
      /\ \A k \in 1..(Len(stack) - 1) : stack'[k] = stack[k]
      /\ stack' = <<>> <=> Len(stack) = 1
  BY <1>1, <1>2, PopFacts
<1>4. DOMAIN stack' = 1..(Len(stack) - 1) /\ DOMAIN stack' \subseteq DOMAIN stack
  BY <1>1, <1>3
<1>5. FramesPoint'
  BY <1>2, <1>3, <1>4 DEF FramesPoint, Typed
<1>6. ASSUME Apart
      PROVE  Apart'
  <2> SUFFICES ASSUME NEW k \in DOMAIN stack', NEW i \in DOMAIN stack'[k].packages,
                      NEW j \in 1..(k - 1)
               PROVE  heap'[stack'[k].packages[i]].name #
                        heap'[stack'[j].packages[stack'[j].i]].name
    BY DEF Apart, NameAt, Following
  <2>1. stack'[k] = stack[k] /\ k \in DOMAIN stack
    BY <1>3, <1>4
  <2>2. j \in 1..(Len(stack) - 1)
    BY <1>3, <1>4
  <2>3. stack'[j] = stack[j]
    BY <1>3, <2>2
  <2>4. heap[stack[k].packages[i]].name # heap[stack[j].packages[stack[j].i]].name
    BY <1>6, <2>1 DEF Apart, NameAt, Following
  <2> QED BY <1>2, <2>1, <2>3, <2>4
<1> QED BY <1>1, <1>3, <1>4, <1>5, <1>6

(* What ScanCalls, ScanLeaf, FinishScan and the loop of TypePrecheck have  *)
(* in common: the top is replaced.                                         *)
TopChanges ==
  \/ ScanCalls
  \/ ScanLeaf
  \/ FinishScan
  \/ BeginPrecheck
  \/ \E n \in Name : PrecheckImport(n)
  \/ FinishPrecheck

(* The new top works on the same packages as the old one.                  *)
LEMMA TopChange ==
  ASSUME Typed, TopChanges
  PROVE  /\ stack # <<>> /\ heap' = heap /\ tree' = tree
         /\ \E g \in Frame : /\ g.packages = Top.packages /\ g.i # 0
                             /\ stack' = WithTop(g)
                             /\ ScanCalls => g.i = Top.i
<1>1. stack # <<>> /\ heap' = heap /\ tree' = tree
  BY DEF Typed, Poised, TopChanges, ScanCalls, ScanLeaf, Scanning, FinishScan,
         BeginPrecheck, PrecheckImport, FinishPrecheck, Prechecking
<1>2. Top \in Frame /\ Top.i \in Nat /\ Top.i # 0
  BY <1>1, TopInRange
<1>3. CASE ScanCalls
  <2> DEFINE g == [Top EXCEPT !.names = ImportNames(Current)]
  <2>1. stack' = WithTop(g)
    BY <1>3 DEF ScanCalls
  <2>2. ImportNames(Current) \in SUBSET Name
    <3>1. pc # "enter" /\ Top.i \in DOMAIN Top.packages
      BY <1>1, <1>3, TopInRange DEF ScanCalls, Scanning
    <3> QED BY <1>1, <3>1, CurrentFacts, ImportFacts DEF Typed, TypeOK
  <2>3. g \in Frame /\ g.packages = Top.packages /\ g.i = Top.i
    BY <1>2, <2>2, FrameFacts
  <2> HIDE DEF g
  <2> QED BY <1>1, <1>2, <2>1, <2>3
<1>4. CASE ~ScanCalls
  <2>1. CASE ScanLeaf
    <3> DEFINE g == [Top EXCEPT !.i = Top.i + 1]
    <3>1. stack' = WithTop(g)
      BY <2>1 DEF ScanLeaf
    <3>2. Top.i + 1 \in Nat /\ Top.i + 1 # 0
      BY <1>2
    <3>3. g \in Frame /\ g.packages = Top.packages /\ g.i = Top.i + 1
      BY <1>2, <3>2, FrameFacts
    <3> HIDE DEF g
    <3> QED BY <1>1, <1>4, <3>1, <3>2, <3>3
  <2>2. CASE BeginPrecheck
    <3> DEFINE g == [Top EXCEPT !.phase = "precheck", !.i = 1]
    <3>1. stack' = WithTop(g)
      BY <2>2 DEF BeginPrecheck
    <3>2. g \in Frame /\ g.packages = Top.packages /\ g.i = 1
      BY <1>2, FrameFacts
    <3> HIDE DEF g
    <3> QED BY <1>1, <1>4, <3>1, <3>2
  <2>3. CASE \E n \in Name : PrecheckImport(n)
    <3> PICK n \in Name : PrecheckImport(n)
      BY <2>3
    <3> DEFINE g == [Top EXCEPT !.names = Top.names \cup {n}]
    <3>1. stack' = WithTop(g)
      BY DEF PrecheckImport
    <3>2. Top.names \cup {n} \in SUBSET Name
      BY <1>2 DEF Frame
    <3>3. g \in Frame /\ g.packages = Top.packages /\ g.i = Top.i
      BY <1>2, <3>2, FrameFacts
    <3> HIDE DEF g
    <3> QED BY <1>1, <1>2, <1>4, <3>1, <3>3
  <2>4. CASE FinishScan \/ FinishPrecheck
    <3>1. stack' = WithTop([Top EXCEPT !.i = @ + 1, !.names = {}])
      BY <2>4 DEF FinishScan, FinishPrecheck
    <3>2. \E g \in Frame : g.packages = Top.packages /\ g.i # 0 /\ stack' = WithTop(g)
      BY <1>1, <1>2, <3>1, AdvanceFacts DEF Typed, TypeOK
    <3> QED BY <1>1, <1>4, <3>2
  <2> QED BY <1>4, <2>1, <2>2, <2>3, <2>4 DEF TopChanges
<1> QED BY <1>3, <1>4

(* What that leaves alone.                                                 *)
LEMMA TopChangeFacts ==
  ASSUME Typed, TopChanges
  PROVE  /\ stack # <<>> /\ heap' = heap /\ tree' = tree
         /\ stack' \in Seq(Frame) /\ stack' # <<>>
         /\ Len(stack) \in Nat \ {0}
         /\ Len(stack') = Len(stack)
         /\ \A k \in DOMAIN stack : stack'[k].packages = stack[k].packages
         /\ \A k \in 1..(Len(stack) - 1) : stack'[k] = stack[k]
         /\ FramesPoint'
         /\ Apart => Apart'
         /\ ScanCalls => stack'[Len(stack)].i = Top.i
<1>1. PICK g \in Frame : /\ g.packages = Top.packages /\ g.i # 0
                         /\ stack' = WithTop(g)
                         /\ ScanCalls => g.i = Top.i
  BY TopChange
<1>2. stack # <<>> /\ heap' = heap /\ tree' = tree
  BY TopChange
<1>3. Len(stack) \in Nat \ {0}
  BY <1>2, TopFacts DEF Typed, TypeOK
<1> QED BY <1>1, <1>2, <1>3, TopStep

-----------------------------------------------------------------------------
(* Type correctness: entering, replacing the top, leaving, and the rest.   *)
NewFrame(order) ==
  [packages |-> Ids(order), phase |-> "scan", i |-> 1, names |-> {}]

(* A new activation stands on the stack and works on the new objects.      *)
LEMMA EnterStep ==
  ASSUME Typed, EnterStage1
  PROVE  \E order \in Orders(Kept) :
           /\ stack' = Append(stack, NewFrame(order))
           /\ packages' = Register(order)
           /\ stack' \in Seq(Frame)
           /\ Len(stack') = Len(stack) + 1 /\ Len(stack) \in Nat
           /\ stack'[Len(stack) + 1] = NewFrame(order)
           /\ \A k \in 1..Len(stack) : stack'[k] = stack[k]
           /\ heap' \in Seq(Obj)
           /\ DOMAIN heap' = 1..(Len(heap) + Cardinality(Kept))
           /\ \A o \in DOMAIN heap : o \in DOMAIN heap' /\ heap'[o] = heap[o]
           /\ Ids(order) \in [1..Cardinality(Kept) -> DOMAIN heap']
           /\ Ids(order) \in Seq(DOMAIN heap')
           /\ \A k \in DOMAIN order : heap'[Ids(order)[k]].name = order[k]
           /\ \A k \in DOMAIN order : /\ Ids(order)[k] = Len(heap) + k
                                      /\ heap'[Ids(order)[k]].files = Named(order[k])
           /\ \A o \in DOMAIN heap' :
                o \in DOMAIN heap \/ \E k \in DOMAIN order : o = Ids(order)[k]
           /\ contexts' = contexts \o [k \in DOMAIN order |->
                                         Named(order[k]) \X {Ids(order)[k]}]
           /\ imported' = imported \o [k \in DOMAIN order |-> {}]
<1>1. PICK order \in Orders(Kept) :
        /\ heap' = heap \o [k \in DOMAIN order |->
                              [name |-> order[k], files |-> Named(order[k])]]
        /\ contexts' = contexts \o [k \in DOMAIN order |->
                                      Named(order[k]) \X {Ids(order)[k]}]
        /\ imported' = imported \o [k \in DOMAIN order |-> {}]
        /\ packages' = Register(order)
        /\ stack' = Append(stack, NewFrame(order))
  BY DEF EnterStage1, NewFrame
<1>2. /\ heap' \in Seq(Obj)
      /\ DOMAIN heap' = 1..(Len(heap) + Cardinality(Kept))
      /\ \A o \in DOMAIN heap : o \in DOMAIN heap' /\ heap'[o] = heap[o]
      /\ Ids(order) \in [1..Cardinality(Kept) -> DOMAIN heap']
      /\ Ids(order) \in Seq(DOMAIN heap')
      /\ \A k \in DOMAIN order : heap'[Ids(order)[k]].name = order[k]
      /\ \A k \in DOMAIN order : /\ Ids(order)[k] = Len(heap) + k
                                 /\ heap'[Ids(order)[k]].files = Named(order[k])
      /\ \A o \in DOMAIN heap' :
           o \in DOMAIN heap \/ \E k \in DOMAIN order : o = Ids(order)[k]
  BY <1>1, EnterFacts
<1>3. stack \in Seq(Frame)
  BY DEF Typed, TypeOK
<1>4. Len(heap) \in Nat /\ Cardinality(Kept) \in Nat
  BY HeapFacts, OrderFacts DEF Typed
<1>5. Ids(order) \in Seq(Nat)
  <2>1. DOMAIN heap' \subseteq Nat
    BY <1>2, <1>4
  <2> QED BY <1>2, <2>1, SeqMonotonic
<1>6. NewFrame(order) \in Frame
  BY <1>5 DEF NewFrame, Frame
<1>7. /\ stack' \in Seq(Frame)
      /\ Len(stack') = Len(stack) + 1 /\ Len(stack) \in Nat
      /\ stack'[Len(stack) + 1] = NewFrame(order)
      /\ \A k \in 1..Len(stack) : stack'[k] = stack[k]
  BY <1>1, <1>3, <1>6
<1> QED BY <1>1, <1>2, <1>7

(* The new activation does not wait yet, and nothing else changes places.  *)
LEMMA EnterFrames ==
  ASSUME Typed, EnterStage1
  PROVE  FramesPoint' /\ Poised'
<1>1. PICK order \in Orders(Kept) :
        /\ Len(stack') = Len(stack) + 1 /\ Len(stack) \in Nat
        /\ stack' \in Seq(Frame)
        /\ stack'[Len(stack) + 1] = NewFrame(order)
        /\ \A k \in 1..Len(stack) : stack'[k] = stack[k]
        /\ \A o \in DOMAIN heap : o \in DOMAIN heap'
        /\ Ids(order) \in Seq(DOMAIN heap')
  BY EnterStep
<1>2. DOMAIN stack' = 1..(Len(stack) + 1) /\ DOMAIN stack = 1..Len(stack)
  BY <1>1 DEF Typed, TypeOK
<1>3. ASSUME NEW k \in DOMAIN stack'
      PROVE  stack'[k].packages \in Seq(DOMAIN heap') /\ stack'[k].i # 0
  <2>1. CASE k = Len(stack) + 1
    BY <1>1, <2>1 DEF NewFrame
  <2>2. CASE k # Len(stack) + 1
    <3>1. k \in DOMAIN stack /\ stack'[k] = stack[k]
      BY <1>1, <1>2, <2>2
    <3>2. stack[k].packages \in Seq(DOMAIN heap) /\ stack[k].i # 0
      BY <3>1 DEF Typed, FramesPoint
    <3>3. stack[k].packages \in Seq(DOMAIN heap')
      BY <1>1, <3>2, SeqMonotonic
    <3> QED BY <3>1, <3>2, <3>3
  <2> QED BY <2>1, <2>2
<1>4. FramesPoint'
  BY <1>3 DEF FramesPoint
<1>5. pc = "enter" /\ pc' = "loop"
  BY DEF EnterStage1
<1>6. \A k \in Waiting' : stack'[k].i \in DOMAIN stack'[k].packages
  <2>1. Waiting' = Waiting /\ Waiting = 1..Len(stack)
    BY <1>1, <1>5 DEF Waiting
  <2>2. \A k \in Waiting : stack[k].i \in DOMAIN stack[k].packages
    BY DEF Typed, Poised
  <2> QED BY <1>1, <2>1, <2>2
<1>7. stack' # <<>>
  BY <1>1
<1> QED BY <1>4, <1>5, <1>6, <1>7 DEF Poised

(* Each new object gets a context with its own files.                      *)
LEMMA EnterContexts ==
  ASSUME Typed, EnterStage1
  PROVE  /\ contexts' \in [DOMAIN heap' -> SUBSET (File \X DOMAIN heap')]
         /\ imported' \in [DOMAIN heap' -> SUBSET DOMAIN heap']
<1> DEFINE m == Len(heap)
           n == Cardinality(Kept)
           C == SUBSET (File \X DOMAIN heap')
           I == SUBSET DOMAIN heap'
<1>1. PICK order \in Orders(Kept) :
        /\ DOMAIN heap' = 1..(m + n)
        /\ \A o \in DOMAIN heap : o \in DOMAIN heap'
        /\ Ids(order) \in [1..n -> DOMAIN heap']
        /\ contexts' = contexts \o [k \in DOMAIN order |->
                                      Named(order[k]) \X {Ids(order)[k]}]
        /\ imported' = imported \o [k \in DOMAIN order |-> {}]
  BY EnterStep
<1>2. m \in Nat /\ n \in Nat /\ DOMAIN heap = 1..m /\ DOMAIN order = 1..n
  BY HeapFacts, OrderFacts DEF Typed
<1>3. contexts \in [1..m -> C] /\ imported \in [1..m -> I]
  <2>1. /\ contexts \in [1..m -> SUBSET (File \X DOMAIN heap)]
        /\ imported \in [1..m -> SUBSET DOMAIN heap]
    BY <1>2 DEF Typed, TypeOK
  <2>2. SUBSET (File \X DOMAIN heap) \subseteq C /\ SUBSET DOMAIN heap \subseteq I
    BY <1>1
  <2> QED BY <2>1, <2>2
<1> DEFINE newC == [k \in DOMAIN order |-> Named(order[k]) \X {Ids(order)[k]}]
           newI == [k \in DOMAIN order |-> {}]
<1>4. newC \in [1..n -> C]
  <2>1. ASSUME NEW k \in 1..n
        PROVE  Named(order[k]) \X {Ids(order)[k]} \in C
    <3>1. Named(order[k]) \subseteq File
      BY DEF Named, Typed, TypeOK
    <3>2. Ids(order)[k] \in DOMAIN heap'
      BY <1>1
    <3> QED BY <3>1, <3>2
  <2> QED BY <1>2, <2>1
<1>5. newI \in [1..n -> I]
  BY <1>2
<1> HIDE DEF newC, newI, C, I, m, n
<1>6. contexts' \in [1..(m + n) -> C]
  <2>1. contexts' = contexts \o newC
    BY <1>1 DEF newC
  <2> QED BY ONLY <1>2, <1>3, <1>4, <2>1, GrowFacts
<1>7. imported' \in [1..(m + n) -> I]
  <2>1. imported' = imported \o newI
    BY <1>1 DEF newI
  <2> QED BY ONLY <1>2, <1>3, <1>5, <2>1, GrowFacts
<1> QED BY <1>1, <1>6, <1>7 DEF C, I, m, n

(* A name is registered for an object of the heap.                         *)
LEMMA EnterRegisters ==
  ASSUME Typed, EnterStage1
  PROVE  packages' \in [Name -> DOMAIN heap' \cup {0}]
<1>1. PICK order \in Orders(Kept) :
        /\ packages' = Register(order)
        /\ DOMAIN heap' = 1..(Len(heap) + Cardinality(Kept))
        /\ \A o \in DOMAIN heap : o \in DOMAIN heap'
  BY EnterStep
<1>2. ASSUME NEW n \in Name
      PROVE  Register(order)[n] \in DOMAIN heap' \cup {0}
  <2>1. CASE n \in Kept
    <3> DEFINE k == CHOOSE k \in DOMAIN order : order[k] = n
    <3>1. k \in DOMAIN order
      BY <2>1, OrderFacts
    <3>2. Register(order)[n] = Len(heap) + k
      BY <2>1 DEF Register
    <3> HIDE DEF k
    <3>3. Len(heap) \in Nat /\ Cardinality(Kept) \in Nat /\ k \in 1..Cardinality(Kept)
      BY <3>1, HeapFacts, OrderFacts DEF Typed
    <3> QED BY <1>1, <3>2, <3>3
  <2>2. CASE n \notin Kept
    <3>1. Register(order)[n] = packages[n]
      BY <2>2 DEF Register
    <3>2. packages[n] \in DOMAIN heap \cup {0}
      BY DEF Typed, TypeOK
    <3> QED BY <1>1, <3>1, <3>2
  <2> QED BY <2>1, <2>2
<1> QED BY <1>1, <1>2 DEF Register

(* EnterStage1 keeps the types.                                            *)
LEMMA TypedEnter ==
  ASSUME Typed, EnterStage1
  PROVE  Typed'
<1>1. PICK order \in Orders(Kept) :
        /\ stack' \in Seq(Frame)
        /\ heap' \in Seq(Obj)
        /\ \A o \in DOMAIN heap : o \in DOMAIN heap'
  BY EnterStep
<1>2. /\ tree' = tree /\ pc' = "loop" /\ calling' = {} /\ returned' = returned
      /\ status' = status /\ checked' = checked /\ objects' = objects
  BY DEF EnterStage1, backend
<1>3. returned' \in Seq(DOMAIN heap')
  <2>1. returned \in Seq(DOMAIN heap)
    BY DEF Typed, TypeOK
  <2> QED BY <1>1, <1>2, <2>1, SeqMonotonic
<1>4. checked' \subseteq DOMAIN heap'
  BY <1>1, <1>2 DEF Typed, TypeOK
<1>5. /\ tree' \in Trees /\ calling' \subseteq File
      /\ status' \in [Name -> {"None", "Processing", "Done"}]
      /\ objects' \in Seq(Name \cup {NoName})
      /\ pc' \in Ended \cup {"enter", "loop", "return", "typecheck", "codegen"}
  BY <1>2 DEF Typed, TypeOK
<1>6. TypeOK'
  BY <1>1, <1>3, <1>4, <1>5, EnterContexts, EnterRegisters DEF TypeOK, Obj
<1> QED BY <1>6, EnterFrames DEF Typed

(* Replacing the top keeps the types.                                      *)
LEMMA TypedTop ==
  ASSUME Typed, TopChanges
  PROVE  Typed'
<1>1. /\ stack # <<>> /\ heap' = heap /\ tree' = tree
      /\ stack' \in Seq(Frame) /\ stack' # <<>>
      /\ Len(stack) \in Nat \ {0} /\ Len(stack') = Len(stack)
      /\ \A k \in DOMAIN stack : stack'[k].packages = stack[k].packages
      /\ \A k \in 1..(Len(stack) - 1) : stack'[k] = stack[k]
      /\ ScanCalls => stack'[Len(stack)].i = Top.i
      /\ FramesPoint'
  BY TopChangeFacts
<1>2. /\ ScanCalls => pc = "loop" /\ pc' = "enter"
      /\ FinishScan => pc = "return" /\ pc' = "loop"
      /\ ~ScanCalls /\ ~FinishScan => pc = "loop" /\ pc' = "loop"
  BY DEF TopChanges, ScanCalls, ScanLeaf, Scanning, FinishScan, BeginPrecheck,
         PrecheckImport, FinishPrecheck, Prechecking
<1>3. status' \in [Name -> {"None", "Processing", "Done"}]
  <2>1. status \in [Name -> {"None", "Processing", "Done"}]
    BY DEF Typed, TypeOK
  <2> QED BY <2>1 DEF TopChanges, ScanCalls, ScanLeaf, FinishScan, BeginPrecheck,
                      PrecheckImport, FinishPrecheck
<1>4. calling' \subseteq File
  <2>1. CASE ScanCalls
    <3>1. Top.i \in DOMAIN Top.packages /\ pc # "enter"
      BY <1>1, <1>2, <2>1, TopInRange DEF ScanCalls, Scanning
    <3>2. calling' = ImportFiles(Current) /\ ~Unresolved(Current)
      BY <2>1 DEF ScanCalls
    <3> QED BY <1>1, <3>1, <3>2, CurrentFacts, ImportFacts DEF Typed, TypeOK
  <2>2. CASE ~ScanCalls
    BY <2>2 DEF TopChanges, ScanLeaf, FinishScan, BeginPrecheck, PrecheckImport,
                FinishPrecheck, Typed, TypeOK
  <2> QED BY <2>1, <2>2
<1>5. returned' \in Seq(DOMAIN heap')
  <2>1. returned' = returned \/ returned' = <<>>
    BY DEF TopChanges, ScanCalls, ScanLeaf, FinishScan, BeginPrecheck,
           PrecheckImport, FinishPrecheck
  <2> QED BY <1>1, <2>1, EmptySeq DEF Typed, TypeOK
<1>6. packages' \in [Name -> DOMAIN heap' \cup {0}]
  <2>1. packages \in [Name -> DOMAIN heap \cup {0}]
    BY DEF Typed, TypeOK
  <2>2. CASE FinishScan
    <3>1. Range(returned) \subseteq DOMAIN heap
      BY DEF Typed, TypeOK, Range
    <3>2. ASSUME NEW n \in Name,
                 \E o \in Range(returned) : heap[o].name = n /\ n \in Top.names
          PROVE  (CHOOSE o \in Range(returned) : heap[o].name = n) \in DOMAIN heap
      BY <3>1, <3>2
    <3> QED BY <1>1, <2>1, <2>2, <3>2 DEF FinishScan
  <2>3. CASE ~FinishScan
    BY <1>1, <2>1, <2>3 DEF TopChanges, ScanCalls, ScanLeaf, BeginPrecheck,
                            PrecheckImport, FinishPrecheck
  <2> QED BY <2>2, <2>3
<1>7. /\ contexts' \in [DOMAIN heap' -> SUBSET (File \X DOMAIN heap')]
      /\ imported' \in [DOMAIN heap' -> SUBSET DOMAIN heap']
  <2>1. /\ contexts \in [DOMAIN heap -> SUBSET (File \X DOMAIN heap)]
        /\ imported \in [DOMAIN heap -> SUBSET DOMAIN heap]
        /\ packages \in [Name -> DOMAIN heap \cup {0}]
    BY DEF Typed, TypeOK
  <2>2. ASSUME NEW n \in Name, PrecheckImport(n)
        PROVE  /\ contexts' \in [DOMAIN heap -> SUBSET (File \X DOMAIN heap)]
               /\ imported' \in [DOMAIN heap -> SUBSET DOMAIN heap]
    <3> DEFINE o == Top.packages[Top.i]
               from == packages[n]
               new == {d \in contexts[from] : d[1] \notin {e[1] : e \in contexts[o]}}
    <3>1. from \in DOMAIN heap
      BY <2>1, <2>2 DEF PrecheckImport
    <3>2. new \subseteq File \X DOMAIN heap
      BY <2>1, <3>1
    <3>3. imported' = [imported EXCEPT ![o] = @ \cup {from}]
      BY <2>2 DEF PrecheckImport
    <3>4. contexts' = [contexts EXCEPT ![o] = @ \cup new]
      BY <2>2 DEF PrecheckImport
    <3> HIDE DEF new, from, o
    <3>5. imported' \in [DOMAIN heap -> SUBSET DOMAIN heap]
      BY <2>1, <3>1, <3>3
    <3>6. contexts' \in [DOMAIN heap -> SUBSET (File \X DOMAIN heap)]
      BY <2>1, <3>2, <3>4
    <3> QED BY <3>5, <3>6
  <2>3. CASE ~\E n \in Name : PrecheckImport(n)
    BY <1>1, <2>1, <2>3 DEF TopChanges, ScanCalls, ScanLeaf, FinishScan, BeginPrecheck,
                            FinishPrecheck
  <2> QED BY <1>1, <2>2, <2>3
<1>8. checked' = checked /\ objects' = objects
  BY DEF TopChanges, ScanCalls, ScanLeaf, FinishScan, BeginPrecheck, PrecheckImport,
         FinishPrecheck, backend
<1>9. TypeOK'
  BY <1>1, <1>2, <1>3, <1>4, <1>5, <1>6, <1>7, <1>8 DEF Typed, TypeOK
<1>10. Poised'
  <2>1. \A k \in 1..(Len(stack) - 1) : stack[k].i \in DOMAIN stack[k].packages
    <3>1. 1..(Len(stack) - 1) \subseteq Waiting
      BY <1>1, <1>2 DEF Waiting
    <3> QED BY <3>1 DEF Typed, Poised
  <2>2. CASE ScanCalls
    <3>1. Top.i \in DOMAIN Top.packages
      BY <1>1, <2>2, TopInRange DEF ScanCalls, Scanning
    <3>2. ASSUME NEW k \in 1..Len(stack)
          PROVE  stack'[k].i \in DOMAIN stack'[k].packages
      <4>1. CASE k = Len(stack)
        <5>1. Len(stack) \in DOMAIN stack /\ Top = stack[Len(stack)]
          BY <1>1, TopInRange
        <5> QED BY <1>1, <2>2, <3>1, <4>1, <5>1
      <4>2. CASE k # Len(stack)
        <5>1. k \in 1..(Len(stack) - 1)
          BY <1>1, <4>2
        <5> QED BY <1>1, <2>1, <5>1
      <4> QED BY <4>1, <4>2
    <3> QED BY <1>1, <1>2, <2>2, <3>2 DEF Poised, Waiting
  <2>3. CASE ~ScanCalls
    <3>1. pc' = "loop"
      BY <1>2, <2>3
    <3> QED BY <1>1, <2>1, <3>1 DEF Poised, Waiting
  <2> QED BY <2>2, <2>3
<1> QED BY <1>1, <1>9, <1>10 DEF Typed

(* LeaveStage1 keeps the types.                                            *)
LEMMA TypedLeave ==
  ASSUME Typed, LeaveStage1
  PROVE  Typed'
<1>1. /\ pc = "loop" /\ stack # <<>> /\ returned' = Top.packages
      /\ pc' = IF Len(stack) = 1 THEN "typecheck" ELSE "return"
      /\ heap' = heap /\ tree' = tree /\ calling' = calling
      /\ packages' = packages /\ status' = status
      /\ contexts' = contexts /\ imported' = imported
      /\ checked' = checked /\ objects' = objects
  BY DEF Typed, Poised, LeaveStage1, backend
<1>2. /\ stack' \in Seq(Frame)
      /\ Len(stack) \in Nat \ {0} /\ Len(stack') = Len(stack) - 1
      /\ \A k \in 1..(Len(stack) - 1) : stack'[k] = stack[k]
      /\ stack' = <<>> <=> Len(stack) = 1
      /\ FramesPoint'
  BY PopStep
<1>3. returned' \in Seq(DOMAIN heap')
  BY <1>1, TopInRange
<1>4. pc' \in {"typecheck", "return"}
  BY <1>1
<1>5. TypeOK'
  BY <1>1, <1>2, <1>3, <1>4 DEF Typed, TypeOK
<1>6. Poised'
  <2>1. \A k \in 1..(Len(stack) - 1) : stack[k].i \in DOMAIN stack[k].packages
    BY <1>1 DEF Typed, Poised, Waiting
  <2>2. Waiting' = 1..(Len(stack) - 1)
    BY <1>2, <1>4 DEF Waiting
  <2>3. pc' = "typecheck" => stack' = <<>>
    BY <1>1, <1>2
  <2>4. pc' = "return" => stack' # <<>>
    BY <1>1, <1>2
  <2> QED BY <1>2, <1>4, <2>1, <2>2, <2>3, <2>4 DEF Poised
<1> QED BY <1>2, <1>5, <1>6 DEF Typed

(* The other actions leave the stack and the heap as they are.             *)
Rest ==
  \/ DetectCycle
  \/ ScanUnresolved
  \/ \E n \in Name : PrecheckMissing(n)
  \/ \E o \in Registered : TypeCheckPackage(o)
  \/ BeginCodegen
  \/ Codegen

(* They keep the types, and end the analysis or follow it.                 *)
LEMMA TypedRest ==
  ASSUME Typed, Rest
  PROVE  /\ Typed' /\ stack' = stack /\ heap' = heap
         /\ pc' # "unresolved" => status' = status
         /\ tree' = tree /\ calling' = calling /\ returned' = returned
         /\ \/ pc = "enter" /\ pc' = "cyclic"
            \/ pc = "loop" /\ pc' \in {"unresolved", "missing"}
            \/ pc = "typecheck" /\ pc' \in {"typecheck", "codegen"}
            \/ pc = "codegen" /\ pc' = "done"
<1>1. /\ stack' = stack /\ heap' = heap /\ (pc' # "unresolved" => status' = status)
      /\ tree' = tree /\ calling' = calling /\ returned' = returned
      /\ packages' = packages /\ contexts' = contexts /\ imported' = imported
  BY DEF Rest, DetectCycle, ScanUnresolved, PrecheckMissing, TypeCheckPackage,
         BeginCodegen, Codegen, progress
<1>2. \/ pc = "enter" /\ pc' = "cyclic"
      \/ pc = "loop" /\ pc' \in {"unresolved", "missing"}
      \/ pc = "typecheck" /\ pc' \in {"typecheck", "codegen"}
      \/ pc = "codegen" /\ pc' = "done"
  BY DEF Rest, DetectCycle, ScanUnresolved, PrecheckMissing, TypeCheckPackage,
         BeginCodegen, Codegen, Scanning, Prechecking
<1>3. checked' \subseteq DOMAIN heap
  <2>1. checked \subseteq DOMAIN heap /\ Registered \subseteq DOMAIN heap
    BY DEF Typed, TypeOK, Registered
  <2> QED BY <2>1 DEF Rest, DetectCycle, ScanUnresolved, PrecheckMissing,
                      TypeCheckPackage, BeginCodegen, Codegen, backend
<1>4. objects' \in Seq(Name \cup {NoName})
  <2>1. objects \in Seq(Name \cup {NoName})
    BY DEF Typed, TypeOK
  <2>2. CASE Codegen
    <3>1. Cardinality(tree.given) \in Nat
      BY TreeFacts, FS_Subset, FS_CardinalityType DEF Typed, TypeOK
    <3>2. ASSUME NEW k \in DOMAIN returned
          PROVE  heap[returned[k]].name \in Name
      <4>1. returned \in Seq(DOMAIN heap)
        BY DEF Typed, TypeOK
      <4>2. returned[k] \in DOMAIN heap
        BY <4>1
      <4> QED BY <4>2, HeapFacts DEF Typed
    <3>3. \A k \in 1..Cardinality(tree.given) :
            (IF k \in DOMAIN returned THEN heap[returned[k]].name ELSE NoName)
              \in Name \cup {NoName}
      BY <3>2
    <3> QED BY <2>2, <3>1, <3>3 DEF Codegen
  <2> QED BY <2>1, <2>2 DEF Rest, DetectCycle, ScanUnresolved, PrecheckMissing, TypeCheckPackage,
                            BeginCodegen, backend
<1>5. status' \in [Name -> {"None", "Processing", "Done"}]
  <2>1. status \in [Name -> {"None", "Processing", "Done"}]
    BY DEF Typed, TypeOK
  <2> QED BY <1>1, <2>1 DEF Rest, DetectCycle, ScanUnresolved, PrecheckMissing,
                            TypeCheckPackage, BeginCodegen, Codegen
<1>6. TypeOK'
  BY <1>1, <1>2, <1>3, <1>4, <1>5 DEF Typed, TypeOK, Ended, Failed
<1>7. FramesPoint'
  BY <1>1 DEF Typed, FramesPoint
<1>8. Poised'
  <2>1. CASE pc = "loop"
    <3>1. Top.i \in DOMAIN Top.packages /\ stack # <<>>
      <4>1. (Scanning \/ Prechecking) /\ stack # <<>>
        BY <2>1 DEF Typed, Poised, Rest, DetectCycle, ScanUnresolved, PrecheckMissing,
                    TypeCheckPackage,
                    BeginCodegen, Codegen
      <4> QED BY <4>1, TopInRange DEF Scanning, Prechecking
    <3>2. \A k \in 1..(Len(stack) - 1) : stack[k].i \in DOMAIN stack[k].packages
      BY <2>1 DEF Typed, Poised, Waiting
    <3>3. \A k \in 1..Len(stack) : stack[k].i \in DOMAIN stack[k].packages
      BY <3>1, <3>2, TopInRange
    <3> QED BY <1>1, <1>2, <2>1, <3>3 DEF Poised, Waiting
  <2>2. CASE ~(pc = "loop")
    BY <1>1, <1>2, <2>2 DEF Typed, Poised, Waiting
  <2> QED BY <2>1, <2>2
<1> QED BY <1>1, <1>2, <1>6, <1>7, <1>8 DEF Typed

(* Every step keeps the types.                                             *)
LEMMA TypedStep ==
  ASSUME Typed, [Next]_vars
  PROVE  Typed'
<1>1. CASE Next
  BY <1>1, TypedEnter, TypedTop, TypedLeave, TypedRest DEF Next, TopChanges, Rest
<1>2. CASE UNCHANGED vars
  BY <1>2 DEF vars, progress, backend, Typed, TypeOK, FramesPoint, Poised, Waiting
<1> QED BY <1>1, <1>2

-----------------------------------------------------------------------------
(* The names the activations follow, and those a new one will work on.     *)
LEMMA FollowingFacts ==
  ASSUME Typed, NEW k \in Waiting
  PROVE  /\ stack[k].packages[stack[k].i] \in DOMAIN heap
         /\ Following(k) \in Name
<1>1. stack[k].i \in DOMAIN stack[k].packages
  BY DEF Typed, Poised
<1>2. k \in DOMAIN stack
  BY DEF Waiting, Typed, TypeOK
<1>3. stack[k].packages \in Seq(DOMAIN heap)
  BY <1>2 DEF Typed, FramesPoint
<1>4. stack[k].packages[stack[k].i] \in DOMAIN heap
  BY <1>1, <1>3
<1> QED BY <1>4, HeapFacts DEF Typed, Following

(* A new activation works on names that are not marked, so nobody follows  *)
(* them.                                                                   *)
LEMMA ApartEnter ==
  ASSUME IInv, EnterStage1
  PROVE  Apart'
<1>1. PICK order \in Orders(Kept) :
        /\ Len(stack') = Len(stack) + 1 /\ Len(stack) \in Nat
        /\ stack'[Len(stack) + 1] = NewFrame(order)
        /\ \A k \in 1..Len(stack) : stack'[k] = stack[k]
        /\ stack' \in Seq(Frame)
        /\ \A o \in DOMAIN heap : o \in DOMAIN heap' /\ heap'[o] = heap[o]
        /\ Ids(order) \in [1..Cardinality(Kept) -> DOMAIN heap']
        /\ \A k \in DOMAIN order : heap'[Ids(order)[k]].name = order[k]
  BY EnterStep DEF IInv
<1>2. pc = "enter" /\ Waiting = 1..Len(stack) /\ Typed
  BY DEF EnterStage1, Waiting, IInv
<1>3. order \in [1..Cardinality(Kept) -> Kept]
  BY <1>2, OrderFacts
<1> SUFFICES ASSUME NEW k \in DOMAIN stack', NEW i \in DOMAIN stack'[k].packages,
                    NEW j \in 1..(k - 1)
             PROVE  heap'[stack'[k].packages[i]].name #
                      heap'[stack'[j].packages[stack'[j].i]].name
  BY DEF Apart, NameAt, Following
<1>4. k \in 1..(Len(stack) + 1) /\ j \in 1..Len(stack)
  BY <1>1
<1>5. /\ stack[j].packages[stack[j].i] \in DOMAIN heap
      /\ heap'[stack'[j].packages[stack'[j].i]].name = Following(j)
  <2>1. stack[j].packages[stack[j].i] \in DOMAIN heap
    BY <1>2, <1>4, FollowingFacts
  <2>2. stack'[j] = stack[j]
    BY <1>1, <1>4
  <2> QED BY <1>1, <2>1, <2>2 DEF Following
<1>6. CASE k = Len(stack) + 1
  <2>1. stack'[k].packages = Ids(order)
    BY <1>1, <1>6 DEF NewFrame
  <2>2. i \in DOMAIN order
    BY <1>1, <1>3, <2>1
  <2>3. heap'[stack'[k].packages[i]].name = order[i]
    BY <1>1, <2>1, <2>2
  <2>4. order[i] \in Kept
    BY <1>3, <2>2
  <2>5. status[order[i]] = "None"
    BY <2>4 DEF Kept
  <2>6. status[Following(j)] = "Processing"
    <3>1. pc \notin Failed
      BY <1>2 DEF Failed
    <3> QED BY <1>2, <1>4, <3>1 DEF IInv, Marked
  <2> QED BY <1>5, <2>3, <2>5, <2>6
<1>7. CASE k # Len(stack) + 1
  <2>1. k \in 1..Len(stack) /\ k \in DOMAIN stack
    BY <1>1, <1>4, <1>7 DEF IInv, Typed, TypeOK
  <2>2. stack'[k] = stack[k]
    BY <1>1, <2>1
  <2>3. stack[k].packages[i] \in DOMAIN heap
    <3>1. stack[k].packages \in Seq(DOMAIN heap)
      BY <2>1 DEF IInv, Typed, FramesPoint
    <3> QED BY <2>2, <3>1
  <2>4. heap[stack[k].packages[i]].name # Following(j)
    BY <2>1, <2>2 DEF IInv, Apart, NameAt
  <2> QED BY <1>1, <1>5, <2>2, <2>3, <2>4
<1> QED BY <1>6, <1>7

(* Every step keeps the activations apart.                                 *)
LEMMA ApartStep ==
  ASSUME IInv, [Next]_vars
  PROVE  Apart'
<1>1. CASE EnterStage1
  BY <1>1, ApartEnter
<1>2. CASE TopChanges
  BY <1>2, TopChangeFacts DEF IInv
<1>3. CASE LeaveStage1
  BY <1>3, PopStep DEF IInv
<1>4. CASE stack' = stack /\ heap' = heap
  BY <1>4 DEF IInv, Apart, NameAt, Following
<1>5. CASE Rest
  BY <1>4, <1>5, TypedRest DEF IInv
<1>6. CASE UNCHANGED vars
  BY <1>4, <1>6 DEF vars, progress
<1> QED BY <1>1, <1>2, <1>3, <1>5, <1>6 DEF Next, TopChanges, Rest

-----------------------------------------------------------------------------
(* The marked names and the names that are followed change together.       *)
LEMMA MarkedEnter ==
  ASSUME IInv, EnterStage1
  PROVE  Marked'
<1>1. /\ Len(stack') = Len(stack) + 1 /\ Len(stack) \in Nat
      /\ \A k \in 1..Len(stack) : stack'[k] = stack[k]
      /\ \A o \in DOMAIN heap : heap'[o] = heap[o]
  BY EnterStep DEF IInv
<1>2. pc = "enter" /\ pc' = "loop" /\ status' = status
  BY DEF EnterStage1
<1>3. Waiting = 1..Len(stack) /\ Waiting' = 1..Len(stack)
  BY <1>1, <1>2 DEF Waiting
<1>4. {n \in Name : status[n] = "Processing"} = {Following(k) : k \in 1..Len(stack)}
  BY <1>2, <1>3 DEF IInv, Marked, Failed
<1>5. \A k \in 1..Len(stack) :
        heap'[stack'[k].packages[stack'[k].i]].name = Following(k)
  <2> TAKE k \in 1..Len(stack)
  <2>1. stack[k].packages[stack[k].i] \in DOMAIN heap
    BY <1>3, FollowingFacts DEF IInv
  <2> QED BY <1>1, <2>1 DEF Following
<1>6. {heap'[stack'[k].packages[stack'[k].i]].name : k \in 1..Len(stack)} =
        {Following(k) : k \in 1..Len(stack)}
  BY <1>5
<1> QED BY <1>2, <1>3, <1>4, <1>6 DEF Marked, Following

(* The top follows no package that an activation below follows.            *)
LEMMA TopIsApart ==
  ASSUME IInv, stack # <<>>, pc # "enter", Top.i \in DOMAIN Top.packages
  PROVE  /\ Current.name \in Name
         /\ Current.name = Following(Len(stack))
         /\ \A j \in 1..(Len(stack) - 1) : Following(j) # Current.name
<1>1. /\ Current.name \in Name
      /\ Current.name = NameAt(Len(stack), Top.i)
      /\ Current.name = Following(Len(stack))
  BY CurrentFacts DEF IInv
<1>2. Len(stack) \in DOMAIN stack /\ Top = stack[Len(stack)]
  BY TopInRange DEF IInv
<1> QED BY <1>1, <1>2 DEF IInv, Apart

(* The mark is set when the top begins to wait and taken off when it goes  *)
(* on; no activation below follows the same name.                          *)
LEMMA MarkedScan ==
  ASSUME IInv, ScanCalls \/ ScanLeaf \/ FinishScan
  PROVE  Marked'
<1> DEFINE below == {Following(k) : k \in 1..(Len(stack) - 1)}
           marked == {n \in Name : status[n] = "Processing"}
           here == Current.name
<1>1. /\ stack # <<>> /\ heap' = heap
      /\ Len(stack) \in Nat \ {0}
      /\ Len(stack') = Len(stack)
      /\ \A k \in DOMAIN stack : stack'[k].packages = stack[k].packages
      /\ \A k \in 1..(Len(stack) - 1) : stack'[k] = stack[k]
      /\ ScanCalls => stack'[Len(stack)].i = Top.i
  BY TopChangeFacts DEF IInv, TopChanges
<1>2. Top.i \in DOMAIN Top.packages /\ pc \in {"loop", "return"}
  <2>1. CASE ScanCalls \/ ScanLeaf
    BY <1>1, <2>1, TopInRange DEF ScanCalls, ScanLeaf, Scanning, IInv
  <2>2. CASE FinishScan
    <3>1. pc = "return" /\ Len(stack) \in Waiting
      BY <1>1, <2>2 DEF FinishScan, Waiting
    <3> QED BY <3>1 DEF IInv, Typed, Poised, Top
  <2> QED BY <2>1, <2>2
<1>3. here \in Name /\ here = Following(Len(stack)) /\ here \notin below
  BY <1>1, <1>2, TopIsApart
<1>4. status \in [Name -> {"None", "Processing", "Done"}]
  BY DEF IInv, Typed, TypeOK
<1>5. {heap'[stack'[k].packages[stack'[k].i]].name : k \in 1..(Len(stack) - 1)} = below
  <2>1. \A k \in 1..(Len(stack) - 1) :
          heap'[stack'[k].packages[stack'[k].i]].name = Following(k)
    BY <1>1 DEF Following
  <2> QED BY <2>1
<1>6. CASE ScanCalls
  <2>1. pc = "loop" /\ pc' = "enter"
    BY <1>6 DEF ScanCalls, Scanning
  <2>2. marked = below
    BY <2>1 DEF IInv, Marked, Waiting, Failed
  <2>3. {n \in Name : status'[n] = "Processing"} = below \cup {here}
    <3>1. status' = [status EXCEPT ![here] = "Processing"]
      BY <1>6 DEF ScanCalls
    <3>2. \A n \in Name : status'[n] = "Processing" <=> n = here \/ status[n] = "Processing"
      BY <1>3, <1>4, <3>1
    <3> QED BY <1>3, <2>2, <3>2
  <2>4. heap'[stack'[Len(stack)].packages[stack'[Len(stack)].i]].name = here
    <3>1. Len(stack) \in DOMAIN stack /\ Top = stack[Len(stack)]
      BY <1>1, TopInRange DEF IInv
    <3> QED BY <1>1, <1>6, <3>1 DEF Current
  <2>5. {heap'[stack'[k].packages[stack'[k].i]].name : k \in 1..Len(stack)} =
          below \cup {here}
    <3>1. 1..Len(stack) = 1..(Len(stack) - 1) \cup {Len(stack)}
      BY <1>1
    <3> QED BY <1>5, <2>4, <3>1
  <2> QED BY <1>1, <2>1, <2>3, <2>5 DEF Marked, Following, Waiting
<1>7. CASE ScanLeaf \/ FinishScan
  <2>1. pc' = "loop" /\ status' = [status EXCEPT ![here] = "Done"]
    BY <1>7 DEF ScanLeaf, FinishScan, Scanning
  <2>2. marked \ {here} = below
    <3>1. CASE ScanLeaf
      <4>1. marked = below
        BY <3>1 DEF IInv, Marked, Waiting, Failed, ScanLeaf, Scanning
      <4> QED BY <1>3, <4>1
    <3>2. CASE FinishScan
      <4>1. marked = {Following(k) : k \in 1..Len(stack)}
        BY <3>2 DEF IInv, Marked, Waiting, Failed, FinishScan
      <4>2. 1..Len(stack) = 1..(Len(stack) - 1) \cup {Len(stack)}
        BY <1>1
      <4>3. marked = below \cup {here}
        BY <1>3, <4>1, <4>2
      <4> QED BY <1>3, <4>3
    <3> QED BY <1>7, <3>1, <3>2
  <2>3. \A n \in Name : status'[n] = "Processing" <=> n # here /\ status[n] = "Processing"
    BY <1>3, <1>4, <2>1
  <2>4. {n \in Name : status'[n] = "Processing"} = below
    BY <2>2, <2>3
  <2>5. Waiting' = 1..(Len(stack) - 1)
    BY <1>1, <2>1 DEF Waiting
  <2> QED BY <1>5, <2>4, <2>5 DEF Marked, Following
<1> QED BY <1>6, <1>7

(* The second loop and the return leave the marks alone.                   *)
LEMMA MarkedPrecheck ==
  ASSUME IInv,
         \/ BeginPrecheck
         \/ \E n \in Name : PrecheckImport(n)
         \/ FinishPrecheck
         \/ LeaveStage1
  PROVE  Marked'
<1>1. /\ pc = "loop" /\ status' = status /\ heap' = heap
      /\ LeaveStage1 => pc' \in {"return", "typecheck"}
      /\ ~LeaveStage1 => pc' = "loop"
  <2>1. CASE LeaveStage1
    BY <2>1 DEF LeaveStage1
  <2>2. CASE ~LeaveStage1
    BY <2>2 DEF BeginPrecheck, PrecheckImport, FinishPrecheck, Prechecking
  <2> QED BY <2>1, <2>2
<1>2. /\ Len(stack) \in Nat \ {0}
      /\ LeaveStage1 => Len(stack') = Len(stack) - 1
      /\ ~LeaveStage1 => Len(stack') = Len(stack)
      /\ \A k \in 1..(Len(stack) - 1) : stack'[k] = stack[k]
  BY PopStep, TopChangeFacts DEF IInv, TopChanges
<1>3. Waiting = 1..(Len(stack) - 1)
  BY <1>1 DEF Waiting
<1>4. Waiting' = 1..(Len(stack) - 1)
  <2>1. CASE LeaveStage1
    <3>1. pc' # "loop"
      BY <2>1 DEF LeaveStage1
    <3> QED BY <1>2, <2>1, <3>1 DEF Waiting
  <2>2. CASE ~LeaveStage1
    BY <1>1, <1>2, <2>2 DEF Waiting
  <2> QED BY <2>1, <2>2
<1>5. \A k \in 1..(Len(stack) - 1) :
        heap'[stack'[k].packages[stack'[k].i]].name = Following(k)
  BY <1>1, <1>2 DEF Following
<1>6. {heap'[stack'[k].packages[stack'[k].i]].name : k \in 1..(Len(stack) - 1)} =
        {Following(k) : k \in 1..(Len(stack) - 1)}
  BY <1>5
<1>7. {n \in Name : status[n] = "Processing"} = {Following(k) : k \in 1..(Len(stack) - 1)}
  BY <1>1, <1>3 DEF IInv, Marked, Failed
<1> QED BY <1>1, <1>4, <1>6, <1>7 DEF Marked, Following

(* Every step keeps marks and followers equal.                             *)
LEMMA MarkedStep ==
  ASSUME IInv, [Next]_vars
  PROVE  Marked'
<1>1. CASE Rest
  <2>1. /\ stack' = stack /\ heap' = heap
        /\ pc' # "unresolved" => status' = status
        /\ \/ pc' \in Failed
           \/ pc \in {"typecheck", "codegen"} /\ pc' \in {"typecheck", "codegen", "done"}
    BY <1>1, TypedRest DEF IInv, Failed
  <2>2. CASE pc' \in Failed
    BY <2>2 DEF Marked
  <2>3. CASE pc \in {"typecheck", "codegen"} /\ pc' \in {"typecheck", "codegen", "done"}
    BY <2>1, <2>3 DEF IInv, Marked, Waiting, Following, Failed
  <2> QED BY <2>1, <2>2, <2>3
<1>2. CASE UNCHANGED vars
  BY <1>2 DEF vars, progress, IInv, Marked, Waiting, Following
<1> QED BY <1>1, <1>2, MarkedEnter, MarkedScan, MarkedPrecheck DEF Next, Rest

-----------------------------------------------------------------------------
(* The first activation works on the packages of the command line.         *)
LEMMA FirstEnter ==
  ASSUME IInv, EnterStage1
  PROVE  FirstOnGiven'
<1>1. PICK order \in Orders(Kept) :
        /\ Len(stack') = Len(stack) + 1 /\ Len(stack) \in Nat
        /\ stack'[Len(stack) + 1] = NewFrame(order)
        /\ \A k \in 1..Len(stack) : stack'[k] = stack[k]
        /\ \A o \in DOMAIN heap : heap'[o] = heap[o]
        /\ Ids(order) \in [1..Cardinality(Kept) -> DOMAIN heap']
        /\ \A k \in DOMAIN order : heap'[Ids(order)[k]].name = order[k]
  BY EnterStep DEF IInv
<1>2. pc = "enter" /\ pc' = "loop" /\ tree' = tree /\ stack' # <<>>
  <2>1. pc = "enter" /\ pc' = "loop" /\ tree' = tree
    BY DEF EnterStage1
  <2>2. Len(stack') # 0
    BY <1>1
  <2> QED BY <2>1, <2>2
<1>3. AreGiven(tree', heap', stack'[1].packages)
  <2>1. CASE stack = <<>>
    <3>1. Kept = {tree.package[f] : f \in tree.given}
      <4>1. calling = tree.given /\ \A n \in Name : status[n] = "None"
        BY <1>2, <2>1 DEF IInv, FirstOnGiven
      <4>2. Organized \subseteq Name
        BY <4>1, TreeFacts DEF Organized, IInv, Typed, TypeOK
      <4> QED BY <4>1, <4>2 DEF Kept, Organized
    <3>2. /\ order \in [1..Cardinality(Kept) -> Kept]
          /\ \A n \in Kept : \E k \in DOMAIN order : order[k] = n
          /\ \A j, k \in DOMAIN order : order[j] = order[k] => j = k
      BY OrderFacts DEF IInv
    <3>3. stack'[1].packages = Ids(order)
      BY <1>1, <2>1 DEF NewFrame
    <3>4. DOMAIN Ids(order) = DOMAIN order
      BY <1>1, <3>2
    <3>5. {heap'[Ids(order)[k]].name : k \in DOMAIN Ids(order)} = Kept
      <4>1. \A k \in DOMAIN order : heap'[Ids(order)[k]].name \in Kept
        BY <1>1, <3>2
      <4>2. \A n \in Kept : \E k \in DOMAIN order : heap'[Ids(order)[k]].name = n
        BY <1>1, <3>2
      <4> QED BY <3>4, <4>1, <4>2
    <3>6. \A j, k \in DOMAIN Ids(order) :
            heap'[Ids(order)[j]].name = heap'[Ids(order)[k]].name => j = k
      BY <1>1, <3>2, <3>4
    <3> QED BY SMTT(30), <1>2, <3>1, <3>3, <3>5, <3>6 DEF AreGiven
  <2>2. CASE stack # <<>>
    <3>1. AreGiven(tree, heap, stack[1].packages)
      BY <2>2 DEF IInv, FirstOnGiven
    <3>2. 1 \in DOMAIN stack /\ 1 \in 1..Len(stack)
      BY <2>2 DEF IInv, Typed, TypeOK
    <3>3. stack[1].packages \in Seq(DOMAIN heap)
      BY <3>2 DEF IInv, Typed, FramesPoint
    <3>4. stack'[1].packages = stack[1].packages
      BY <1>1, <3>2
    <3>5. \A k \in DOMAIN stack[1].packages :
            heap'[stack[1].packages[k]].name = heap[stack[1].packages[k]].name
      BY <1>1, <3>3
    <3>6. {heap'[stack[1].packages[k]].name : k \in DOMAIN stack[1].packages} =
            {heap[stack[1].packages[k]].name : k \in DOMAIN stack[1].packages}
      BY <3>5
    <3>7. AreGiven(tree, heap', stack[1].packages)
      BY <3>1, <3>5, <3>6 DEF AreGiven
    <3> QED BY <1>2, <3>4, <3>7
  <2> QED BY <2>1, <2>2
<1> QED BY <1>2, <1>3 DEF FirstOnGiven

(* Every step keeps the first activation on the packages given.            *)
LEMMA FirstStep ==
  ASSUME IInv, [Next]_vars
  PROVE  FirstOnGiven'
<1>1. CASE TopChanges
  <2>1. /\ heap' = heap /\ tree' = tree /\ stack # <<>> /\ stack' # <<>>
        /\ stack'[1].packages = stack[1].packages
    <3>1. 1 \in DOMAIN stack
      BY <1>1, TopChangeFacts DEF IInv, Typed, TypeOK
    <3> QED BY <1>1, <3>1, TopChangeFacts DEF IInv
  <2>2. pc' \in {"enter", "loop"}
    BY <1>1 DEF TopChanges, ScanCalls, ScanLeaf, Scanning, FinishScan, BeginPrecheck,
                PrecheckImport, FinishPrecheck, Prechecking
  <2>3. AreGiven(tree, heap, stack[1].packages)
    BY <2>1 DEF IInv, FirstOnGiven
  <2>4. AreGiven(tree', heap', stack'[1].packages)
    BY <2>1, <2>3
  <2> QED BY <2>1, <2>2, <2>4 DEF FirstOnGiven
<1>2. CASE LeaveStage1
  <2>1. /\ heap' = heap /\ tree' = tree /\ returned' = Top.packages
        /\ pc' = IF Len(stack) = 1 THEN "typecheck" ELSE "return"
    BY <1>2 DEF LeaveStage1
  <2>2. /\ stack # <<>> /\ Len(stack) \in Nat \ {0}
        /\ \A k \in 1..(Len(stack) - 1) : stack'[k] = stack[k]
        /\ stack' = <<>> <=> Len(stack) = 1
    BY <1>2, PopStep DEF IInv
  <2>3. AreGiven(tree, heap, stack[1].packages)
    BY <2>2 DEF IInv, FirstOnGiven
  <2>4. CASE Len(stack) = 1
    <3>1. AreGiven(tree', heap', returned')
      BY <2>1, <2>3, <2>4 DEF Top
    <3> QED BY <2>1, <2>2, <2>4, <3>1 DEF FirstOnGiven
  <2>5. CASE Len(stack) # 1
    <3>1. stack'[1] = stack[1]
      <4>1. \A n \in Nat \ {0} : n # 1 => 1 \in 1..(n - 1)
        OBVIOUS
      <4>2. 1 \in 1..(Len(stack) - 1)
        BY <2>2, <2>5, <4>1
      <4> QED BY <2>2, <4>2
    <3>2. AreGiven(tree', heap', stack'[1].packages)
      BY <2>1, <2>3, <3>1
    <3> QED BY <2>1, <2>5, <3>2 DEF FirstOnGiven
  <2> QED BY <2>4, <2>5
<1>3. CASE Rest
  <2>1. /\ stack' = stack /\ heap' = heap /\ tree' = tree /\ returned' = returned
        /\ pc' # "enter"
        /\ pc' \in {"typecheck", "codegen", "done"} => pc \in {"typecheck", "codegen"}
    BY <1>3, TypedRest DEF IInv
  <2>2. pc' = "done" =>
          objects' = [k \in 1..Cardinality(tree.given) |->
                        IF k \in DOMAIN returned THEN heap[returned[k]].name
                        ELSE NoName]
    BY <1>3 DEF Rest, DetectCycle, ScanUnresolved, PrecheckMissing, TypeCheckPackage,
                BeginCodegen, Codegen
  <2>3. stack' # <<>> => AreGiven(tree', heap', stack'[1].packages)
    BY <2>1 DEF IInv, FirstOnGiven
  <2>4. pc' \in {"typecheck", "codegen", "done"} => AreGiven(tree', heap', returned')
    BY <2>1 DEF IInv, FirstOnGiven
  <2> QED BY <2>1, <2>2, <2>3, <2>4 DEF FirstOnGiven
<1>4. CASE UNCHANGED vars
  BY <1>4 DEF vars, progress, backend, IInv, FirstOnGiven
<1> QED BY <1>1, <1>2, <1>3, <1>4, FirstEnter DEF Next, TopChanges, Rest

-----------------------------------------------------------------------------
(* The invariant holds of the first call.                                  *)
LEMMA InitIInv == Init => IInv
<1> SUFFICES ASSUME Init PROVE IInv
  OBVIOUS
<1>1. /\ tree \in Trees /\ pc = "enter" /\ calling = tree.given
      /\ returned = <<>> /\ stack = <<>> /\ heap = <<>>
      /\ contexts = <<>> /\ imported = <<>> /\ checked = {} /\ objects = <<>>
      /\ status = [n \in Name |-> "None"] /\ packages = [n \in Name |-> 0]
  BY DEF Init
<1>2. TypeOK
  <2>1. \A S : <<>> \in Seq(S)
    OBVIOUS
  <2>2. DOMAIN <<>> = {}
    OBVIOUS
  <2>3. /\ contexts \in [DOMAIN heap -> SUBSET (File \X DOMAIN heap)]
        /\ imported \in [DOMAIN heap -> SUBSET DOMAIN heap]
    BY <1>1, <2>2
  <2>4. tree.given \subseteq File
    BY <1>1, TreeFacts
  <2>5. /\ returned \in Seq(DOMAIN heap) /\ stack \in Seq(Frame)
        /\ heap \in Seq([name : Name, files : SUBSET File])
        /\ objects \in Seq(Name \cup {NoName})
    BY <1>1, <2>1
  <2> QED BY <1>1, <2>3, <2>4, <2>5 DEF TypeOK
<1>3. DOMAIN stack = {} /\ Waiting = {}
  BY <1>1 DEF Waiting
<1>4. FramesPoint /\ Poised /\ Apart
  BY <1>1, <1>3 DEF FramesPoint, Poised, Apart
<1>5. Marked
  BY <1>1, <1>3 DEF Marked
<1>6. FirstOnGiven
  BY <1>1 DEF FirstOnGiven
<1> QED BY <1>2, <1>4, <1>5, <1>6 DEF IInv, Typed

(* No step of the analysis breaks it.                                      *)
LEMMA NextIInv == IInv /\ [Next]_vars => IInv'
  BY TypedStep, ApartStep, MarkedStep, FirstStep DEF IInv

(* What the other theorems rest on: the invariant holds throughout.        *)
THEOREM Inductive == Spec => []IInv
  BY InitIInv, NextIInv, PTL DEF Spec

(* The variables keep their types. *)
THEOREM TypeCorrect == Spec => []TypeOK
<1>1. IInv => TypeOK
  BY DEF IInv, Typed
<1> QED BY <1>1, Inductive, PTL

(* A follower each, and only names to follow: no more activations wait     *)
(* than there are packages.                                                *)
LEMMA DepthBound ==
  ASSUME IInv
  PROVE  /\ \A j, k \in Waiting : Following(j) = Following(k) => j = k
         /\ Len(stack) <= Cardinality(Name) + 1
<1>1. stack \in Seq(Frame) /\ Len(stack) \in Nat
  BY DEF IInv, Typed, TypeOK
<1>2. ASSUME NEW j \in Waiting, NEW k \in Waiting, j < k
      PROVE  Following(j) # Following(k)
  <2>1. k \in DOMAIN stack /\ j \in 1..(k - 1)
    BY <1>1, <1>2 DEF Waiting
  <2>2. stack[k].i \in DOMAIN stack[k].packages
    BY DEF IInv, Typed, Poised
  <2>3. NameAt(k, stack[k].i) # Following(j)
    BY <2>1, <2>2 DEF IInv, Apart
  <2> QED BY <2>3 DEF NameAt, Following
<1>3. \A j, k \in Waiting : Following(j) = Following(k) => j = k
  <2> SUFFICES ASSUME NEW j \in Waiting, NEW k \in Waiting, j # k
               PROVE  Following(j) # Following(k)
    OBVIOUS
  <2>1. j < k \/ k < j
    BY <1>1 DEF Waiting
  <2> QED BY <1>2, <2>1
<1>4. PICK m \in Nat : Waiting = 1..m /\ Len(stack) <= m + 1
  <2>1. CASE pc = "loop"
    <3>1. Len(stack) # 0
      BY <1>1, <2>1 DEF IInv, Typed, Poised
    <3> QED BY <1>1, <2>1, <3>1 DEF Waiting
  <2>2. CASE pc # "loop"
    BY <1>1, <2>2 DEF Waiting
  <2> QED BY <2>1, <2>2
<1>5. m <= Cardinality(Name)
  <2> DEFINE f == [k \in 1..m |-> Following(k)]
  <2>1. f \in [1..m -> Name]
    BY <1>4, FollowingFacts DEF IInv
  <2>2. IsInjective(f)
    BY <1>3, <1>4 DEF IsInjective
  <2>3. f \in Injection(1..m, Name)
    BY <2>1, <2>2 DEF Injection
  <2>4. IsFiniteSet(Name)
    BY TreesAssumption
  <2> HIDE DEF f
  <2>5. Cardinality(1..m) <= Cardinality(Name)
    BY <2>3, <2>4, FS_Injection
  <2>6. Cardinality(1..m) = m
    BY <1>4, FS_Interval
  <2> QED BY <2>5, <2>6
<1>6. Cardinality(Name) \in Nat
  BY TreesAssumption, FS_CardinalityType
<1> QED BY <1>1, <1>3, <1>4, <1>5, <1>6

(* The names marked Processing are those the activations on the stack are  *)
(* following, each followed once, and the recursion is never deeper than   *)
(* there are packages: _package_status does its job for every source tree. *)
THEOREM RecursionIsBounded == Spec => []StatusIsStack
<1>1. IInv => StatusIsStack
  BY DepthBound DEF IInv, Marked, StatusIsStack
<1> QED BY <1>1, Inductive, PTL

(* No more packages are given than files. *)
LEMMA GivenBound ==
  ASSUME IInv, AreGiven(tree, heap, returned)
  PROVE  /\ DOMAIN returned \subseteq 1..Cardinality(tree.given)
         /\ \A k \in DOMAIN returned : heap[returned[k]].name \in Name
<1>1. returned \in Seq(DOMAIN heap) /\ tree \in Trees
  BY DEF IInv, Typed, TypeOK
<1>2. PICK m \in Nat : DOMAIN returned = 1..m
  BY <1>1
<1>3. \A k \in 1..m : heap[returned[k]].name \in Name
  <2>1. \A k \in 1..m : returned[k] \in DOMAIN heap
    BY <1>1, <1>2
  <2> QED BY <2>1, HeapFacts DEF IInv, Typed
<1>4. IsFiniteSet(tree.given)
  BY <1>1, TreeFacts, FS_Subset
<1> DEFINE named == {tree.package[f] : f \in tree.given}
           f == [k \in 1..m |-> heap[returned[k]].name]
           g == [x \in tree.given |-> tree.package[x]]
<1>5. IsFiniteSet(named) /\ Cardinality(named) <= Cardinality(tree.given)
  <2>1. g \in Surjection(tree.given, named)
    BY DEF Surjection
  <2> HIDE DEF g, named
  <2> QED BY <1>4, <2>1, FS_Surjection
<1>6. f \in Injection(1..m, named)
  <2>1. \A k \in 1..m : heap[returned[k]].name \in named
    BY <1>2 DEF AreGiven
  <2>2. \A j, k \in 1..m : heap[returned[j]].name = heap[returned[k]].name => j = k
    BY <1>2 DEF AreGiven
  <2>3. f \in [1..m -> named]
    BY <2>1
  <2>4. IsInjective(f)
    BY <2>2 DEF IsInjective
  <2> QED BY <2>3, <2>4 DEF Injection
<1> HIDE DEF f, g, named
<1>7. Cardinality(1..m) <= Cardinality(named)
  BY <1>5, <1>6, FS_Injection
<1>8. Cardinality(1..m) = m
  BY <1>2, FS_Interval
<1>9. Cardinality(named) \in Nat /\ Cardinality(tree.given) \in Nat
  BY <1>4, <1>5, FS_CardinalityType
<1> QED BY <1>2, <1>3, <1>5, <1>7, <1>8, <1>9

(* PACKAGES.md: "Each package is compiled into a single object file", for  *)
(* every source tree.                                                      *)
THEOREM EachCompiledOnce == Spec => []OneObjectPerPackage
<1>1. IInv => OneObjectPerPackage
  <2> SUFFICES ASSUME IInv, pc = "done"
               PROVE  /\ Range(objects) \ {NoName} = {tree.package[f] : f \in tree.given}
                      /\ \A i, j \in DOMAIN objects :
                           objects[i] = objects[j] /\ objects[i] # NoName => i = j
    BY DEF OneObjectPerPackage
  <2> DEFINE c == Cardinality(tree.given)
  <2>1. /\ AreGiven(tree, heap, returned)
        /\ objects = [k \in 1..c |-> IF k \in DOMAIN returned
                                     THEN heap[returned[k]].name ELSE NoName]
    BY DEF IInv, FirstOnGiven
  <2>2. /\ DOMAIN returned \subseteq 1..c
        /\ \A k \in DOMAIN returned : heap[returned[k]].name \in Name
    BY <2>1, GivenBound
  <2>3. NoName \notin Name
    BY TreesAssumption
  <2> HIDE DEF c
  <2>4. DOMAIN objects = 1..c
    BY <2>1
  <2>5. /\ \A k \in DOMAIN returned : objects[k] = heap[returned[k]].name
        /\ \A k \in 1..c : k \notin DOMAIN returned => objects[k] = NoName
    BY <2>1, <2>2
  <2>6. Range(objects) \ {NoName} = {heap[returned[k]].name : k \in DOMAIN returned}
    <3>1. \A k \in DOMAIN returned : objects[k] \in Range(objects) \ {NoName}
      BY <2>2, <2>3, <2>4, <2>5 DEF Range
    <3>2. ASSUME NEW x \in Range(objects) \ {NoName}
          PROVE  \E k \in DOMAIN returned : x = heap[returned[k]].name
      <4>1. PICK k \in 1..c : x = objects[k]
        BY <2>4 DEF Range
      <4> QED BY <2>5, <4>1
    <3> QED BY <2>5, <3>1, <3>2
  <2>7. Range(objects) \ {NoName} = {tree.package[f] : f \in tree.given}
    BY <2>1, <2>6 DEF AreGiven
  <2>8. ASSUME NEW i \in DOMAIN objects, NEW j \in DOMAIN objects,
               objects[i] = objects[j], objects[i] # NoName
        PROVE  i = j
    <3>1. i \in DOMAIN returned /\ j \in DOMAIN returned
      BY <2>4, <2>5, <2>8
    <3> QED BY <2>1, <2>5, <2>8, <3>1 DEF AreGiven
  <2> QED BY <2>7, <2>8
<1> QED BY <1>1, Inductive, PTL

-----------------------------------------------------------------------------
(* Tidy source trees.  An activation and the packages of its frame are     *)
(* looked at through the tree t, the heap h and the stack s.               *)
NameIn(h, s, k, i) == h[s[k].packages[i]].name
FollowedIn(h, s, k) == NameIn(h, s, k, s[k].i)

(* The packages from which no import leads to a cycle or to nothing.       *)
Grounded(t) ==
  {n \in Name : \A m \in ReachedFrom(t, {n}) :
                  ~InCycle(t, m) /\ ~ImportsNothing(t, m)}

(* A name that some file declares has an object in the registry p.         *)
Known(t, p, n) == FilesOf(t, n) # {} => p[n] # 0

(* Objects are whole packages; a name is registered for one of its own.    *)
Whole(t, h) == \A o \in DOMAIN h : h[o].files = FilesOf(t, h[o].name)
Entitled(h, p) == \A n \in Name : p[n] # 0 => h[p[n]].name = n

(* A call is handed the packages imported by the one that is followed,     *)
(* each of which resolves to something.                                    *)
AskedFor(t, h, s, c) ==
  c = UNION {FilesOf(t, m) : m \in PackageImports(t, FollowedIn(h, s, Len(s)))}
Follow(t, h, s, ks) ==
  \A k \in ks :
    /\ s[k].phase = "scan"
    /\ ~ImportsNothing(t, FollowedIn(h, s, k))
    /\ s[k].names \subseteq PackageImports(t, FollowedIn(h, s, k))
Followers ==
  IF pc \in {"enter", "return"} THEN 1..Len(stack) ELSE 1..(Len(stack) - 1)
Calls ==
  /\ pc = "enter" /\ stack # <<>> => AskedFor(tree, heap, stack, calling)
  /\ Follow(tree, heap, stack, Followers)
  /\ pc = "loop" /\ Top.phase = "scan" => Top.names = {}

(* Whatever an activation works on is in use, and reached from whatever    *)
(* the activations before it follow.                                       *)
Reached(t, h, s) ==
  \A k \in DOMAIN s : \A i \in DOMAIN s[k].packages :
    /\ NameIn(h, s, k, i) \in InUse(t)
    /\ \A j \in 1..(k - 1) :
         NameIn(h, s, k, i) \in ReachedFrom(t, PackageImports(t, FollowedIn(h, s, j)))

(* A package that was scanned is grounded, and what it imports is known.   *)
IsScanned(s, k, i) == s[k].phase = "precheck" \/ i < s[k].i
Sound(t, p, n) == n \in Grounded(t) /\ \A m \in PackageImports(t, n) : Known(t, p, m)
Scanned(t, h, s, p) ==
  \A k \in DOMAIN s : \A i \in DOMAIN s[k].packages :
    /\ p[NameIn(h, s, k, i)] # 0
    /\ IsScanned(s, k, i) => Sound(t, p, NameIn(h, s, k, i))

(* What a followed package imports is known, and grounded or worked on by  *)
(* the next activation, or grounded once that has returned.                *)
Behind(t, h, s, p) ==
  \A k \in DOMAIN s : k # 1 =>
    \A m \in PackageImports(t, FollowedIn(h, s, k - 1)) :
      /\ Known(t, p, m)
      /\ \/ m \in Grounded(t)
         \/ \E i \in DOMAIN s[k].packages : NameIn(h, s, k, i) = m
Answered(t, h, s, p) ==
  \A m \in PackageImports(t, FollowedIn(h, s, Len(s))) :
    Known(t, p, m) /\ m \in Grounded(t)

Backed ==
  /\ Behind(tree, heap, stack, packages)
  /\ pc = "return" => Answered(tree, heap, stack, packages)

(* What a mark says.                                                       *)
Marks(t, p, st) ==
  \A n \in Name : /\ st[n] = "Done" => n \in Grounded(t)
                  /\ st[n] # "None" => p[n] # 0

(* How the analysis ended.                                                 *)
Analysed == {"typecheck", "codegen", "done"}
Verdict ==
  /\ pc = "cyclic" => HasImportCycle(tree)
  /\ pc = "unresolved" => HasUnresolvedImport(tree)
  /\ pc = "missing" => \E n \in InUse(tree) : \E m \in PackageImports(tree, n) :
                         tree.candidates[m] # <<>> /\
                         \A f \in tree.candidates[m][1] : tree.package[f] # m
  /\ pc \in Analysed =>
       \A k \in DOMAIN returned : heap[returned[k]].name \in Grounded(tree)

(* The files whose declarations the context of an object holds: its own,   *)
(* and those of its imports unless it still has to be prechecked.          *)
Held(c, o) == {d[1] : d \in c[o]}
HasImports(t, h, c, o) ==
  \A n \in PackageImports(t, h[o].name) : FilesOf(t, n) \subseteq Held(c, o)
Ahead(s, o) ==
  \E k \in DOMAIN s : \E i \in DOMAIN s[k].packages :
    s[k].packages[i] = o /\ (s[k].phase = "precheck" => i >= s[k].i)
Visible(t, h, s, c) ==
  \A o \in DOMAIN h :
    /\ FilesOf(t, h[o].name) \subseteq Held(c, o)
    /\ HasImports(t, h, c, o) \/ Ahead(s, o)
Copied(t, s, c) ==
  \A k \in DOMAIN s : s[k].phase = "precheck" /\ s[k].i \in DOMAIN s[k].packages =>
    \A n \in s[k].names : FilesOf(t, n) \subseteq Held(c, s[k].packages[s[k].i])

(* A package of the command line is registered as the object that is       *)
(* compiled, unless something imports it.                                  *)
Fresh(t, h, p, o) ==
  p[h[o].name] = o \/ \E n \in InUse(t) : h[o].name \in PackageImports(t, n)
Compiled ==
  /\ stack # <<>> => \A k \in DOMAIN stack[1].packages :
                       Fresh(tree, heap, packages, stack[1].packages[k])
  /\ pc \in Analysed => \A k \in DOMAIN returned :
                          Fresh(tree, heap, packages, returned[k])
  /\ pc \in {"codegen", "done"} => Registered \subseteq checked

TidyInv ==
  /\ Whole(tree, heap)
  /\ Entitled(heap, packages)
  /\ Calls
  /\ Reached(tree, heap, stack)
  /\ Scanned(tree, heap, stack, packages)
  /\ Backed
  /\ Marks(tree, packages, status)
  /\ Verdict
  /\ Visible(tree, heap, stack, contexts)
  /\ Copied(tree, stack, contexts)
  /\ Compiled

-----------------------------------------------------------------------------
(* What reaching means.                                                    *)
LEMMA ImportsAreNames ==
  ASSUME NEW t \in Trees
  PROVE  \A n : PackageImports(t, n) \subseteq Name
  BY TreesAssumption DEF PackageImports, FilesOf

(* What is reached is closed, and the least closed set around S.           *)
LEMMA ReachFacts ==
  ASSUME NEW t \in Trees, NEW S \in SUBSET Name
  PROVE  /\ ReachedFrom(t, S) \in SUBSET Name
         /\ S \subseteq ReachedFrom(t, S)
         /\ \A n \in ReachedFrom(t, S) :
              PackageImports(t, n) \subseteq ReachedFrom(t, S)
         /\ \A T \in SUBSET Name : S \subseteq T /\ Closed(t, T)
              => ReachedFrom(t, S) \subseteq T
<1>1. ASSUME NEW n \in ReachedFrom(t, S), NEW m \in PackageImports(t, n)
      PROVE  m \in ReachedFrom(t, S)
  <2>1. m \in Name
    BY ImportsAreNames
  <2>2. ASSUME NEW T \in SUBSET Name, S \subseteq T, Closed(t, T)
        PROVE  m \in T
    <3>1. n \in T
      BY <2>2 DEF ReachedFrom
    <3> QED BY <2>2, <3>1 DEF Closed
  <2> QED BY <2>1, <2>2 DEF ReachedFrom
<1> QED BY <1>1 DEF ReachedFrom

(* More is reached from more.                                              *)
LEMMA ReachWithin ==
  ASSUME NEW t \in Trees, NEW S \in SUBSET Name, NEW R \in SUBSET Name,
         R \subseteq ReachedFrom(t, S)
  PROVE  ReachedFrom(t, R) \subseteq ReachedFrom(t, S)
<1>1. Closed(t, ReachedFrom(t, S))
  BY ReachFacts DEF Closed
<1> QED BY <1>1, ReachFacts

(* No import leads out of the grounded packages.                           *)
LEMMA GroundedIsClosed ==
  ASSUME NEW t \in Trees
  PROVE  /\ Grounded(t) \in SUBSET Name
         /\ Closed(t, Grounded(t))
         /\ \A n \in Grounded(t) : ~InCycle(t, n) /\ ~ImportsNothing(t, n)
<1>1. Grounded(t) \in SUBSET Name
  BY DEF Grounded
<1>2. ASSUME NEW n \in Grounded(t)
      PROVE  ~InCycle(t, n) /\ ~ImportsNothing(t, n)
  <2>1. n \in ReachedFrom(t, {n})
    BY <1>1, ReachFacts
  <2> QED BY <2>1 DEF Grounded
<1>3. ASSUME NEW n \in Grounded(t), NEW m \in PackageImports(t, n)
      PROVE  m \in Grounded(t)
  <2>1. n \in Name /\ m \in Name /\ {n} \in SUBSET Name /\ {m} \in SUBSET Name
    BY <1>1, ImportsAreNames
  <2>2. {m} \subseteq ReachedFrom(t, {n})
    BY <2>1, ReachFacts
  <2>3. ReachedFrom(t, {m}) \subseteq ReachedFrom(t, {n})
    BY <2>1, <2>2, ReachWithin
  <2> QED BY <2>1, <2>3 DEF Grounded
<1> QED BY <1>1, <1>2, <1>3 DEF Closed

(* A package whose imports are grounded and found is grounded itself: it   *)
(* cannot be in a cycle that they are not in.                              *)
LEMMA GroundedStep ==
  ASSUME NEW t \in Trees, NEW n \in Name, ~ImportsNothing(t, n),
         PackageImports(t, n) \subseteq Grounded(t)
  PROVE  n \in Grounded(t)
<1> DEFINE P == PackageImports(t, n)
           R == ReachedFrom(t, P)
           G == Grounded(t)
<1>1. P \in SUBSET Name /\ {n} \in SUBSET Name
  BY ImportsAreNames
<1>2. R \subseteq G
  BY <1>1, ReachFacts, GroundedIsClosed
<1>3. CASE InCycle(t, n)
  BY <1>2, <1>3 DEF InCycle
<1>4. CASE ~InCycle(t, n)
  <2>1. Closed(t, {n} \cup R)
    <3>1. P \subseteq R
      BY <1>1, ReachFacts
    <3>2. \A m \in R : PackageImports(t, m) \subseteq R
      BY <1>1, ReachFacts
    <3> QED BY <3>1, <3>2 DEF Closed
  <2>2. {n} \cup R \in SUBSET Name
    BY <1>1, ReachFacts
  <2>3. ReachedFrom(t, {n}) \subseteq {n} \cup R
    <3>1. {n} \subseteq {n} \cup R
      OBVIOUS
    <3> HIDE DEF R, P
    <3> QED BY <1>1, <2>1, <2>2, <3>1, ReachFacts
  <2>4. \A m \in R : ~InCycle(t, m) /\ ~ImportsNothing(t, m)
    BY <1>2, GroundedIsClosed
  <2> QED BY <1>4, <2>3, <2>4 DEF Grounded
<1> QED BY <1>3, <1>4

(* A name without files imports nothing.                                   *)
LEMMA NoFilesGrounded ==
  ASSUME NEW t \in Trees, NEW n \in Name, FilesOf(t, n) = {}
  PROVE  n \in Grounded(t)
<1>1. PackageImports(t, n) = {}
  BY DEF PackageImports
<1> QED BY <1>1, GroundedStep DEF ImportsNothing

(* If all that is given is grounded, all that is in use is.                *)
LEMMA GivenGrounded ==
  ASSUME NEW t \in Trees, {t.package[f] : f \in t.given} \subseteq Grounded(t)
  PROVE  ~HasImportCycle(t) /\ ~HasUnresolvedImport(t)
<1>1. {t.package[f] : f \in t.given} \in SUBSET Name
  BY GroundedIsClosed
<1>2. InUse(t) \subseteq Grounded(t)
  BY <1>1, ReachFacts, GroundedIsClosed DEF InUse
<1> QED BY <1>2, GroundedIsClosed DEF HasImportCycle, HasUnresolvedImport

(* What is given is in use, and so is what is imported from there.         *)
LEMMA InUseFacts ==
  ASSUME NEW t \in Trees
  PROVE  /\ InUse(t) \in SUBSET Name
         /\ \A f \in t.given : t.package[f] \in InUse(t)
         /\ \A n \in InUse(t) : PackageImports(t, n) \subseteq InUse(t)
<1>1. {t.package[f] : f \in t.given} \in SUBSET Name
  BY TreesAssumption
<1> QED BY <1>1, ReachFacts DEF InUse

(* What the imports of a package reach is closed, and has the imports.     *)
LEMMA ImportReach ==
  ASSUME NEW t \in Trees, NEW a \in Name
  PROVE  /\ PackageImports(t, a) \subseteq ReachedFrom(t, PackageImports(t, a))
         /\ \A n \in ReachedFrom(t, PackageImports(t, a)) :
              PackageImports(t, n) \subseteq ReachedFrom(t, PackageImports(t, a))
         /\ \A n \in Name : a \in ReachedFrom(t, PackageImports(t, n)) =>
              ReachedFrom(t, PackageImports(t, a)) \subseteq
                ReachedFrom(t, PackageImports(t, n))
<1>1. \A n \in Name : PackageImports(t, n) \in SUBSET Name
  BY ImportsAreNames
<1>2. ASSUME NEW n \in Name, a \in ReachedFrom(t, PackageImports(t, n))
      PROVE  ReachedFrom(t, PackageImports(t, a)) \subseteq
               ReachedFrom(t, PackageImports(t, n))
  <2>1. PackageImports(t, a) \subseteq ReachedFrom(t, PackageImports(t, n))
    BY <1>1, <1>2, ReachFacts
  <2> QED BY <1>1, <2>1, ReachWithin
<1> QED BY <1>1, <1>2, ReachFacts

-----------------------------------------------------------------------------
(* A step that enters no activation leaves those below the top, and every  *)
(* activation keeps its packages.                                          *)
Shrunk(s, r) ==
  /\ DOMAIN r \subseteq DOMAIN s
  /\ \A k \in DOMAIN r : /\ r[k].packages = s[k].packages
                         /\ \A j \in 1..(k - 1) : j \in DOMAIN r /\ r[j] = s[j]

(* Every step but the entering of an activation is of this kind.           *)
LEMMA Shrinks ==
  ASSUME IInv, [Next]_vars, ~EnterStage1
  PROVE  heap' = heap /\ tree' = tree /\ Shrunk(stack, stack')
<1>1. stack \in Seq(Frame) /\ DOMAIN stack = 1..Len(stack) /\ Len(stack) \in Nat
  BY DEF IInv, Typed, TypeOK
<1>2. CASE TopChanges
  <2>1. /\ heap' = heap /\ tree' = tree
        /\ stack' \in Seq(Frame) /\ Len(stack') = Len(stack)
        /\ \A k \in DOMAIN stack : stack'[k].packages = stack[k].packages
        /\ \A k \in 1..(Len(stack) - 1) : stack'[k] = stack[k]
    BY <1>2, TopChangeFacts DEF IInv
  <2>2. DOMAIN stack' = DOMAIN stack
    BY <1>1, <2>1
  <2>3. \A k \in DOMAIN stack : \A j \in 1..(k - 1) :
          j \in 1..(Len(stack) - 1) /\ j \in DOMAIN stack
    BY <1>1
  <2> QED BY <2>1, <2>2, <2>3 DEF Shrunk
<1>3. CASE LeaveStage1
  <2>1. /\ heap' = heap /\ tree' = tree
        /\ stack' \in Seq(Frame) /\ Len(stack') = Len(stack) - 1
        /\ \A k \in 1..(Len(stack) - 1) : stack'[k] = stack[k]
    BY <1>3, PopStep DEF IInv, LeaveStage1
  <2>2. DOMAIN stack' = 1..(Len(stack) - 1)
    BY <2>1
  <2>3. \A k \in DOMAIN stack' : k \in DOMAIN stack /\ stack'[k] = stack[k]
    BY <1>1, <2>1, <2>2
  <2>4. \A k \in DOMAIN stack' : \A j \in 1..(k - 1) : j \in DOMAIN stack'
    BY <1>1, <2>2
  <2> QED BY <2>1, <2>3, <2>4 DEF Shrunk
<1>4. ASSUME heap' = heap, tree' = tree, stack' = stack
      PROVE  heap' = heap /\ tree' = tree /\ Shrunk(stack, stack')
  <2>1. \A k \in DOMAIN stack : \A j \in 1..(k - 1) : j \in DOMAIN stack
    BY <1>1
  <2> QED BY <1>4, <2>1 DEF Shrunk
<1>5. CASE Rest
  BY <1>4, <1>5, TypedRest DEF IInv
<1>6. CASE UNCHANGED vars
  BY <1>4, <1>6 DEF vars, progress
<1> QED BY <1>2, <1>3, <1>5, <1>6 DEF Next, TopChanges, Rest

(* The names at hand stay.                                                 *)
LEMMA ShrunkNames ==
  ASSUME NEW h, NEW s, NEW r, Shrunk(s, r)
  PROVE  /\ \A k \in DOMAIN r : k \in DOMAIN s /\ DOMAIN r[k].packages = DOMAIN s[k].packages
         /\ \A k \in DOMAIN r : \A i : NameIn(h, r, k, i) = NameIn(h, s, k, i)
         /\ \A k \in DOMAIN r : \A j \in 1..(k - 1) :
              FollowedIn(h, r, j) = FollowedIn(h, s, j)
  BY DEF Shrunk, NameIn, FollowedIn

(* Entering keeps them too.                                                *)
LEMMA EnterNames ==
  ASSUME IInv, EnterStage1
  PROVE  /\ pc = "enter" /\ pc' = "loop" /\ tree' = tree /\ status' = status
         /\ Len(stack) \in Nat /\ DOMAIN stack = 1..Len(stack)
         /\ DOMAIN stack' = 1..(Len(stack) + 1)
         /\ stack' \in Seq(Frame) /\ Len(stack') = Len(stack) + 1
         /\ \A k \in 1..Len(stack) :
              /\ stack'[k] = stack[k]
              /\ \A i \in DOMAIN stack[k].packages :
                   /\ stack[k].packages[i] \in DOMAIN heap
                   /\ NameIn(heap', stack', k, i) = NameIn(heap, stack, k, i)
              /\ FollowedIn(heap', stack', k) = FollowedIn(heap, stack, k)
              /\ FollowedIn(heap, stack, k) \in Name
         /\ \A o \in DOMAIN heap : o \in DOMAIN heap' /\ heap'[o] = heap[o]
         /\ stack'[Len(stack) + 1].phase = "scan"
         /\ stack'[Len(stack) + 1].i = 1 /\ stack'[Len(stack) + 1].names = {}
         /\ \A i \in DOMAIN stack'[Len(stack) + 1].packages :
              /\ i \in Nat /\ i >= 1
              /\ NameIn(heap', stack', Len(stack) + 1, i) \in Kept
         /\ \A n \in Kept : \E i \in DOMAIN stack'[Len(stack) + 1].packages :
              NameIn(heap', stack', Len(stack) + 1, i) = n
         /\ Kept \subseteq Name
<1>1. PICK order \in Orders(Kept) :
        /\ stack' \in Seq(Frame)
        /\ Len(stack') = Len(stack) + 1 /\ Len(stack) \in Nat
        /\ stack'[Len(stack) + 1] = NewFrame(order)
        /\ \A k \in 1..Len(stack) : stack'[k] = stack[k]
        /\ \A o \in DOMAIN heap : o \in DOMAIN heap' /\ heap'[o] = heap[o]
        /\ Ids(order) \in [1..Cardinality(Kept) -> DOMAIN heap']
        /\ \A k \in DOMAIN order : heap'[Ids(order)[k]].name = order[k]
  BY EnterStep DEF IInv
<1>2. pc = "enter" /\ pc' = "loop" /\ tree' = tree /\ status' = status
  BY DEF EnterStage1
<1>3. DOMAIN stack = 1..Len(stack) /\ DOMAIN stack' = 1..(Len(stack) + 1)
  BY <1>1 DEF IInv, Typed, TypeOK
<1>4. ASSUME NEW k \in 1..Len(stack), NEW i \in DOMAIN stack[k].packages
      PROVE  /\ stack[k].packages[i] \in DOMAIN heap
             /\ NameIn(heap', stack', k, i) = NameIn(heap, stack, k, i)
  <2>1. stack[k].packages \in Seq(DOMAIN heap)
    BY <1>3 DEF IInv, Typed, FramesPoint
  <2>2. stack[k].packages[i] \in DOMAIN heap
    BY <2>1
  <2> QED BY <1>1, <2>2 DEF NameIn
<1>5. ASSUME NEW k \in 1..Len(stack)
      PROVE  /\ FollowedIn(heap', stack', k) = FollowedIn(heap, stack, k)
             /\ FollowedIn(heap, stack, k) \in Name
  <2>1. stack[k].packages[stack[k].i] \in DOMAIN heap /\ Following(k) \in Name
    BY <1>2, FollowingFacts DEF IInv, Waiting
  <2> QED BY <1>1, <2>1 DEF FollowedIn, NameIn, Following
<1>6. /\ order \in [1..Cardinality(Kept) -> Kept] /\ Kept \subseteq Name
      /\ Cardinality(Kept) \in Nat
      /\ \A n \in Kept : \E k \in DOMAIN order : order[k] = n
  BY OrderFacts DEF IInv
<1> DEFINE g == stack'[Len(stack) + 1]
<1>7. g.phase = "scan" /\ g.i = 1 /\ g.names = {} /\ g.packages = Ids(order)
  BY <1>1 DEF NewFrame
<1>8. \A i \in DOMAIN order : NameIn(heap', stack', Len(stack) + 1, i) = order[i]
  BY <1>1, <1>7 DEF NameIn
<1>9. DOMAIN g.packages = DOMAIN order /\ DOMAIN order = 1..Cardinality(Kept)
  BY <1>1, <1>6, <1>7
<1>10. \A i \in DOMAIN g.packages :
         /\ i \in Nat /\ i >= 1
         /\ NameIn(heap', stack', Len(stack) + 1, i) \in Kept
  BY <1>6, <1>8, <1>9
<1>11. \A n \in Kept : \E i \in DOMAIN g.packages :
         NameIn(heap', stack', Len(stack) + 1, i) = n
  BY <1>6, <1>8, <1>9
<1> HIDE DEF g
<1> QED BY <1>1, <1>2, <1>3, <1>4, <1>5, <1>6, <1>7, <1>10, <1>11 DEF g

-----------------------------------------------------------------------------
(* In a tidy tree an object's imports are those of its package.            *)
LEMMA ObjectFacts ==
  ASSUME tree \in Trees, Tidy(tree), Whole(tree, heap), NEW o \in DOMAIN heap,
         heap[o].name \in Name
  PROVE  /\ ImportsOf(heap[o]) = PackageImports(tree, heap[o].name)
         /\ Unresolved(heap[o]) <=> ImportsNothing(tree, heap[o].name)
         /\ ImportNames(heap[o]) \subseteq PackageImports(tree, heap[o].name)
         /\ ~Unresolved(heap[o]) =>
              ImportFiles(heap[o]) =
                UNION {FilesOf(tree, m) : m \in PackageImports(tree, heap[o].name)}
<1>1. ImportsOf(heap[o]) = PackageImports(tree, heap[o].name)
  BY DEF Whole, ImportsOf, PackageImports
<1>2. Unresolved(heap[o]) <=> ImportsNothing(tree, heap[o].name)
  BY <1>1 DEF Unresolved, ImportsNothing
<1>3. ImportNames(heap[o]) \subseteq PackageImports(tree, heap[o].name)
  BY <1>1 DEF ImportNames
<1>4. ASSUME ~Unresolved(heap[o])
      PROVE  ImportFiles(heap[o]) =
               UNION {FilesOf(tree, m) : m \in PackageImports(tree, heap[o].name)}
  <2>1. \A m \in ImportsOf(heap[o]) : m \in Name /\ tree.candidates[m] # <<>>
    BY <1>1, <1>4, ImportsAreNames DEF Unresolved
  <2>2. \A m \in ImportsOf(heap[o]) : tree.candidates[m][1] = FilesOf(tree, m)
    BY <2>1 DEF Tidy
  <2> QED BY <1>1, <2>2 DEF ImportFiles
<1> QED BY <1>1, <1>2, <1>3, <1>4

(* The package the top is at.                                              *)
LEMMA CurrentImports ==
  ASSUME IInv, Tidy(tree), Whole(tree, heap), stack # <<>>,
         Top.i \in DOMAIN Top.packages
  PROVE  /\ Current.name = FollowedIn(heap, stack, Len(stack))
         /\ Current.name \in Name
         /\ Top.packages[Top.i] \in DOMAIN heap
         /\ ImportsOf(Current) = PackageImports(tree, Current.name)
         /\ Unresolved(Current) <=> ImportsNothing(tree, Current.name)
         /\ ImportNames(Current) \subseteq PackageImports(tree, Current.name)
         /\ ~Unresolved(Current) =>
              ImportFiles(Current) =
                UNION {FilesOf(tree, m) : m \in PackageImports(tree, Current.name)}
<1>1. /\ Top.packages[Top.i] \in DOMAIN heap /\ Current.name \in Name
      /\ Current.name = Following(Len(stack))
  BY CurrentFacts DEF IInv
<1>2. Current = heap[Top.packages[Top.i]]
  BY DEF Current
<1>3. Current.name = FollowedIn(heap, stack, Len(stack))
  BY <1>1, Zenon DEF FollowedIn, NameIn, Following
<1>4. tree \in Trees
  BY DEF IInv, Typed, TypeOK
<1> HIDE DEF Current
<1>5. PICK o \in DOMAIN heap : o = Top.packages[Top.i] /\ heap[o] = Current
  BY <1>1, <1>2
<1>6. heap[o].name \in Name
  BY <1>1, <1>5
<1> QED BY <1>1, <1>3, <1>4, <1>5, <1>6, ObjectFacts

(* A call brings whole packages: those given, or those imported by the     *)
(* package that is followed.                                               *)
LEMMA AskedFacts ==
  ASSUME IInv, Tidy(tree), Calls, pc = "enter"
  PROVE  /\ \A n \in Organized : Named(n) = FilesOf(tree, n)
         /\ stack = <<>> => Organized \subseteq InUse(tree)
         /\ stack # <<>> =>
              LET imports == PackageImports(tree, FollowedIn(heap, stack, Len(stack)))
              IN  /\ Organized \subseteq imports
                  /\ \A m \in imports : FilesOf(tree, m) # {} => m \in Organized
<1>1. tree \in Trees
  BY DEF IInv, Typed, TypeOK
<1>2. CASE stack = <<>>
  <2>1. calling = tree.given
    BY <1>2 DEF IInv, FirstOnGiven
  <2>2. Organized \subseteq InUse(tree)
    BY <1>1, <2>1, InUseFacts DEF Organized
  <2>3. ASSUME NEW n \in Organized
        PROVE  Named(n) = FilesOf(tree, n)
    <3>1. FilesOf(tree, n) \subseteq tree.given
      BY <2>1 DEF Organized, Tidy
    <3>2. tree.given \subseteq File
      BY <1>1, TreesAssumption
    <3> QED BY <2>1, <3>1, <3>2 DEF Named, FilesOf
  <2> QED BY <1>2, <2>2, <2>3
<1>3. CASE stack # <<>>
  <2> DEFINE imports == PackageImports(tree, FollowedIn(heap, stack, Len(stack)))
  <2>1. calling = UNION {FilesOf(tree, m) : m \in imports}
    BY <1>3 DEF Calls, AskedFor
  <2> HIDE DEF imports
  <2>2. \A m : \A f \in FilesOf(tree, m) : f \in File /\ tree.package[f] = m
    BY DEF FilesOf
  <2>3. Organized \subseteq imports
    BY <2>1, <2>2 DEF Organized
  <2>4. \A m \in imports : FilesOf(tree, m) # {} => m \in Organized
    BY <2>1, <2>2 DEF Organized
  <2>5. \A n \in Organized : Named(n) = FilesOf(tree, n)
    <3> TAKE n \in Organized
    <3>1. FilesOf(tree, n) \subseteq Named(n)
      BY <2>1, <2>2, <2>3 DEF Named
    <3>2. Named(n) \subseteq FilesOf(tree, n)
      BY <2>1, <2>2 DEF Named, FilesOf
    <3> QED BY <3>1, <3>2
  <2> QED BY <1>3, <2>3, <2>4, <2>5 DEF imports
<1> QED BY <1>2, <1>3

(* The fields of a frame with some replaced.                               *)
LEMMA FrameFields ==
  ASSUME NEW f \in Frame
  PROVE  /\ \A x : /\ [f EXCEPT !.names = x].phase = f.phase
                  /\ [f EXCEPT !.names = x].i = f.i
                  /\ [f EXCEPT !.names = x].names = x
         /\ \A j : /\ [f EXCEPT !.i = j].phase = f.phase
                  /\ [f EXCEPT !.i = j].i = j
                  /\ [f EXCEPT !.i = j].names = f.names
         /\ \A j : /\ [f EXCEPT !.i = j, !.names = {}].phase = f.phase
                  /\ [f EXCEPT !.i = j, !.names = {}].i = j
                  /\ [f EXCEPT !.i = j, !.names = {}].names = {}
         /\ [f EXCEPT !.phase = "precheck", !.i = 1].phase = "precheck"
         /\ [f EXCEPT !.phase = "precheck", !.i = 1].i = 1
         /\ [f EXCEPT !.phase = "precheck", !.i = 1].names = f.names
  BY DEF Frame

(* What the steps that replace the top put into it.                        *)
LEMMA TopFields ==
  ASSUME IInv, TopChanges
  PROVE  /\ Len(stack) \in Nat \ {0} /\ Len(stack) \in DOMAIN stack
         /\ Len(stack') = Len(stack) /\ stack' # <<>>
         /\ DOMAIN stack = 1..Len(stack) /\ DOMAIN stack' = DOMAIN stack
         /\ Top = stack[Len(stack)] /\ Top' = stack'[Len(stack)] /\ Top \in Frame
         /\ \A k \in 1..(Len(stack) - 1) : stack'[k] = stack[k]
         /\ stack'[Len(stack)].packages = Top.packages
         /\ ScanCalls => /\ Top'.phase = Top.phase /\ Top'.i = Top.i
                         /\ Top'.names = ImportNames(Current)
         /\ ScanLeaf => /\ Top'.phase = Top.phase /\ Top'.i = Top.i + 1
                        /\ Top'.names = Top.names
         /\ FinishScan \/ FinishPrecheck =>
              Top'.phase = Top.phase /\ Top'.i = Top.i + 1 /\ Top'.names = {}
         /\ BeginPrecheck => /\ Top'.phase = "precheck" /\ Top'.i = 1
                             /\ Top'.names = Top.names
         /\ \A n \in Name : PrecheckImport(n) =>
              /\ Top'.phase = Top.phase /\ Top'.i = Top.i
              /\ Top'.names = Top.names \cup {n}
<1>1. /\ stack # <<>> /\ stack' \in Seq(Frame) /\ stack' # <<>>
      /\ Len(stack) \in Nat \ {0} /\ Len(stack') = Len(stack)
      /\ \A k \in DOMAIN stack : stack'[k].packages = stack[k].packages
      /\ \A k \in 1..(Len(stack) - 1) : stack'[k] = stack[k]
  BY TopChangeFacts DEF IInv
<1>2. stack \in Seq(Frame) /\ DOMAIN stack = 1..Len(stack) /\ DOMAIN stack' = DOMAIN stack
  BY <1>1 DEF IInv, Typed, TypeOK
<1>3. Top = stack[Len(stack)] /\ Top' = stack'[Len(stack)] /\ Len(stack) \in DOMAIN stack
  BY <1>1, <1>2 DEF Top
<1>4. Top \in Frame
  BY <1>1, <1>2, TopFacts
<1>5. \A g : stack' = WithTop(g) => Top' = g
  <2>1. \A g : WithTop(g) = [stack EXCEPT ![Len(stack)] = g]
    BY DEF WithTop
  <2> QED BY <1>2, <1>3, <2>1
<1>6. /\ ScanCalls => Top' = [Top EXCEPT !.names = ImportNames(Current)]
      /\ ScanLeaf => Top' = [Top EXCEPT !.i = @ + 1]
      /\ FinishScan \/ FinishPrecheck => Top' = [Top EXCEPT !.i = @ + 1, !.names = {}]
      /\ BeginPrecheck => Top' = [Top EXCEPT !.phase = "precheck", !.i = 1]
      /\ \A n \in Name : PrecheckImport(n) => Top' = [Top EXCEPT !.names = @ \cup {n}]
  BY <1>5 DEF ScanCalls, ScanLeaf, FinishScan, FinishPrecheck, BeginPrecheck,
              PrecheckImport
<1>7. /\ ScanCalls => /\ Top'.phase = Top.phase /\ Top'.i = Top.i
                      /\ Top'.names = ImportNames(Current)
      /\ ScanLeaf => /\ Top'.phase = Top.phase /\ Top'.i = Top.i + 1
                     /\ Top'.names = Top.names
      /\ FinishScan \/ FinishPrecheck =>
           Top'.phase = Top.phase /\ Top'.i = Top.i + 1 /\ Top'.names = {}
      /\ BeginPrecheck => /\ Top'.phase = "precheck" /\ Top'.i = 1
                          /\ Top'.names = Top.names
      /\ \A n \in Name : PrecheckImport(n) =>
           /\ Top'.phase = Top.phase /\ Top'.i = Top.i
           /\ Top'.names = Top.names \cup {n}
  <2>1. /\ \A x : /\ [Top EXCEPT !.names = x].phase = Top.phase
                 /\ [Top EXCEPT !.names = x].i = Top.i
                 /\ [Top EXCEPT !.names = x].names = x
        /\ \A j : /\ [Top EXCEPT !.i = j].phase = Top.phase
                 /\ [Top EXCEPT !.i = j].i = j
                 /\ [Top EXCEPT !.i = j].names = Top.names
        /\ \A j : /\ [Top EXCEPT !.i = j, !.names = {}].phase = Top.phase
                 /\ [Top EXCEPT !.i = j, !.names = {}].i = j
                 /\ [Top EXCEPT !.i = j, !.names = {}].names = {}
        /\ [Top EXCEPT !.phase = "precheck", !.i = 1].phase = "precheck"
        /\ [Top EXCEPT !.phase = "precheck", !.i = 1].i = 1
        /\ [Top EXCEPT !.phase = "precheck", !.i = 1].names = Top.names
    BY <1>4, FrameFields
  <2>2. ASSUME ScanCalls
        PROVE  Top'.phase = Top.phase /\ Top'.i = Top.i /\ Top'.names = ImportNames(Current)
    <3>1. PICK x : x = ImportNames(Current)
      OBVIOUS
    <3>2. Top' = [Top EXCEPT !.names = x]
      BY <1>6, <2>2, <3>1
    <3> QED BY <2>1, <3>1, <3>2, Zenon
  <2>3. ASSUME ScanLeaf
        PROVE  Top'.phase = Top.phase /\ Top'.i = Top.i + 1 /\ Top'.names = Top.names
    <3>1. PICK j : j = Top.i + 1
      OBVIOUS
    <3>2. Top' = [Top EXCEPT !.i = j]
      BY <1>6, <2>3, <3>1
    <3>3. /\ [Top EXCEPT !.i = j].phase = Top.phase
          /\ [Top EXCEPT !.i = j].i = j
          /\ [Top EXCEPT !.i = j].names = Top.names
      BY <2>1
    <3> QED BY <3>1, <3>2, <3>3, Zenon
  <2>4. ASSUME FinishScan \/ FinishPrecheck
        PROVE  Top'.phase = Top.phase /\ Top'.i = Top.i + 1 /\ Top'.names = {}
    <3>1. PICK j : j = Top.i + 1
      OBVIOUS
    <3>2. Top' = [Top EXCEPT !.i = j, !.names = {}]
      BY <1>6, <2>4, <3>1
    <3> QED BY <2>1, <3>1, <3>2, ZenonT(40)
  <2>5. ASSUME BeginPrecheck
        PROVE  Top'.phase = "precheck" /\ Top'.i = 1 /\ Top'.names = Top.names
    BY <1>6, <2>1, <2>5, Zenon
  <2>6. ASSUME NEW n \in Name, PrecheckImport(n)
        PROVE  /\ Top'.phase = Top.phase /\ Top'.i = Top.i
               /\ Top'.names = Top.names \cup {n}
    <3>1. PICK x : x = Top.names \cup {n}
      OBVIOUS
    <3>2. Top' = [Top EXCEPT !.names = x]
      BY <1>6, <2>6, <3>1
    <3> QED BY <2>1, <3>1, <3>2, Zenon
  <2> QED BY <2>2, <2>3, <2>4, <2>5, <2>6
<1> QED BY <1>1, <1>2, <1>3, <1>4, <1>7

-----------------------------------------------------------------------------
(* Objects are whole packages.                                             *)
LEMMA WholeStep ==
  ASSUME IInv, Tidy(tree), TidyInv, [Next]_vars
  PROVE  Whole(tree', heap')
<1>1. CASE EnterStage1
  <2>1. PICK order \in Orders(Kept) :
          /\ \A o \in DOMAIN heap : o \in DOMAIN heap' /\ heap'[o] = heap[o]
          /\ \A k \in DOMAIN order : heap'[Ids(order)[k]].name = order[k]
          /\ \A k \in DOMAIN order : /\ Ids(order)[k] = Len(heap) + k
                                     /\ heap'[Ids(order)[k]].files = Named(order[k])
          /\ \A o \in DOMAIN heap' :
               o \in DOMAIN heap \/ \E k \in DOMAIN order : o = Ids(order)[k]
    BY <1>1, EnterStep DEF IInv
  <2>2. pc = "enter" /\ tree' = tree
    BY <1>1 DEF EnterStage1
  <2>3. \A k \in DOMAIN order : order[k] \in Organized
    <3>1. order \in [1..Cardinality(Kept) -> Kept]
      BY OrderFacts DEF IInv
    <3>2. \A k \in DOMAIN order : order[k] \in Kept
      BY <3>1
    <3> QED BY <3>2 DEF Kept
  <2>4. \A n \in Organized : Named(n) = FilesOf(tree, n)
    BY <2>2, AskedFacts DEF TidyInv
  <2>5. ASSUME NEW o \in DOMAIN heap'
        PROVE  heap'[o].files = FilesOf(tree, heap'[o].name)
    <3>1. CASE o \in DOMAIN heap
      BY <2>1, <3>1 DEF TidyInv, Whole
    <3>2. CASE \E k \in DOMAIN order : o = Ids(order)[k]
      BY <2>1, <2>3, <2>4, <3>2
    <3> QED BY <2>1, <3>1, <3>2
  <2> QED BY <2>2, <2>5 DEF Whole
<1>2. CASE ~EnterStage1
  BY <1>2, Shrinks DEF TidyInv
<1> QED BY <1>1, <1>2

(* A registered name stays registered, for an object of that name; what an *)
(* activation works on is registered when it is entered.                   *)
LEMMA RegistryStep ==
  ASSUME IInv, Entitled(heap, packages), [Next]_vars
  PROVE  /\ Entitled(heap', packages')
         /\ \A n \in Name : packages[n] # 0 => packages'[n] # 0
         /\ EnterStage1 => \A n \in Kept : packages'[n] # 0
<1>1. packages \in [Name -> DOMAIN heap \cup {0}] /\ DOMAIN heap = 1..Len(heap)
      /\ Len(heap) \in Nat
  BY HeapFacts DEF IInv, Typed, TypeOK
<1>2. CASE EnterStage1
  <2>1. PICK order \in Orders(Kept) :
          /\ packages' = Register(order)
          /\ \A o \in DOMAIN heap : o \in DOMAIN heap' /\ heap'[o] = heap[o]
          /\ \A k \in DOMAIN order : heap'[Ids(order)[k]].name = order[k]
          /\ \A k \in DOMAIN order : /\ Ids(order)[k] = Len(heap) + k
                                     /\ heap'[Ids(order)[k]].files = Named(order[k])
    BY <1>2, EnterStep DEF IInv
  <2>2. /\ order \in [1..Cardinality(Kept) -> Kept] /\ Cardinality(Kept) \in Nat
        /\ \A n \in Kept : \E k \in DOMAIN order : order[k] = n
    BY OrderFacts DEF IInv
  <2>3. ASSUME NEW n \in Name, n \in Kept
        PROVE  packages'[n] # 0 /\ heap'[packages'[n]].name = n
    <3>1. PICK k : k = CHOOSE j \in DOMAIN order : order[j] = n
      OBVIOUS
    <3>2. k \in DOMAIN order /\ order[k] = n
      BY <2>2, <2>3, <3>1
    <3>3. packages'[n] = Len(heap) + k
      BY <2>1, <2>3, <3>1 DEF Register
    <3>4. k \in Nat /\ k # 0
      BY <2>2, <3>2
    <3> QED BY <1>1, <2>1, <3>2, <3>3, <3>4
  <2>4. ASSUME NEW n \in Name, n \notin Kept
        PROVE  packages'[n] = packages[n]
    BY <2>1, <2>4 DEF Register
  <2>5. ASSUME NEW n \in Name, packages'[n] # 0
        PROVE  heap'[packages'[n]].name = n
    <3>1. CASE n \in Kept
      BY <2>3, <3>1
    <3>2. CASE n \notin Kept
      <4>1. packages[n] \in DOMAIN heap /\ packages'[n] = packages[n]
        BY <1>1, <2>4, <2>5, <3>2
      <4> QED BY <2>1, <2>5, <4>1 DEF Entitled
    <3> QED BY <3>1, <3>2
  <2>6. Kept \subseteq Name
    BY OrderFacts DEF IInv
  <2> QED BY <2>3, <2>4, <2>5, <2>6 DEF Entitled
<1>3. CASE FinishScan
  <2>1. heap' = heap /\ ~EnterStage1
    BY <1>3 DEF FinishScan, EnterStage1
  <2>2. Range(returned) \subseteq DOMAIN heap
    BY DEF IInv, Typed, TypeOK, Range
  <2>3. ASSUME NEW n \in Name
        PROVE  \/ packages'[n] = packages[n]
               \/ packages'[n] # 0 /\ heap[packages'[n]].name = n
    <3>1. CASE \E o \in Range(returned) : heap[o].name = n /\ n \in Top.names
      <4>1. packages'[n] = CHOOSE o \in Range(returned) : heap[o].name = n
        BY <1>3, <3>1 DEF FinishScan
      <4>2. packages'[n] \in Range(returned) /\ heap[packages'[n]].name = n
        BY <3>1, <4>1
      <4> QED BY <1>1, <2>2, <4>2
    <3>2. CASE ~\E o \in Range(returned) : heap[o].name = n /\ n \in Top.names
      BY <1>3, <3>2 DEF FinishScan
    <3> QED BY <3>1, <3>2
  <2> QED BY <2>1, <2>3 DEF Entitled
<1>4. CASE packages' = packages /\ heap' = heap /\ ~EnterStage1
  BY <1>4 DEF Entitled
<1>5. CASE ~EnterStage1 /\ ~FinishScan
  <2>1. packages' = packages
    BY <1>5 DEF Next, DetectCycle, ScanUnresolved, ScanCalls, ScanLeaf, BeginPrecheck,
                PrecheckImport, PrecheckMissing, FinishPrecheck, LeaveStage1,
                TypeCheckPackage, BeginCodegen, Codegen, vars, progress
  <2> QED BY <1>4, <1>5, <2>1, Shrinks
<1> QED BY <1>2, <1>3, <1>5

(* So what is known stays known.                                           *)
LEMMA KnownStays ==
  ASSUME IInv, Entitled(heap, packages), [Next]_vars
  PROVE  /\ \A n \in Name : Known(tree, packages, n) => Known(tree, packages', n)
         /\ \A n \in Name : Sound(tree, packages, n) => Sound(tree, packages', n)
<1>1. \A n \in Name : Known(tree, packages, n) => Known(tree, packages', n)
  BY RegistryStep DEF Known
<1>2. \A n : PackageImports(tree, n) \subseteq Name
  BY ImportsAreNames DEF IInv, Typed, TypeOK
<1> QED BY <1>1, <1>2 DEF Sound

(* Whatever an activation works on is in use.                              *)
LEMMA ReachedStep ==
  ASSUME IInv, Tidy(tree), TidyInv, [Next]_vars
  PROVE  Reached(tree', heap', stack')
<1>1. tree \in Trees
  BY DEF IInv, Typed, TypeOK
<1>2. CASE EnterStage1
  <2>1. /\ pc = "enter" /\ tree' = tree
        /\ Len(stack) \in Nat /\ DOMAIN stack = 1..Len(stack)
        /\ DOMAIN stack' = 1..(Len(stack) + 1)
        /\ \A k \in 1..Len(stack) :
             /\ stack'[k] = stack[k]
             /\ \A i \in DOMAIN stack[k].packages :
                  NameIn(heap', stack', k, i) = NameIn(heap, stack, k, i)
             /\ FollowedIn(heap', stack', k) = FollowedIn(heap, stack, k)
             /\ FollowedIn(heap, stack, k) \in Name
        /\ \A i \in DOMAIN stack'[Len(stack) + 1].packages :
             NameIn(heap', stack', Len(stack) + 1, i) \in Kept
        /\ Kept \subseteq Name
    BY <1>2, EnterNames
  <2> SUFFICES ASSUME NEW k \in DOMAIN stack', NEW i \in DOMAIN stack'[k].packages
               PROVE  /\ NameIn(heap', stack', k, i) \in InUse(tree)
                      /\ \A j \in 1..(k - 1) : NameIn(heap', stack', k, i) \in
                           ReachedFrom(tree, PackageImports(tree, FollowedIn(heap', stack', j)))
    BY <2>1 DEF Reached
  <2>2. CASE k # Len(stack) + 1
    <3>1. k \in DOMAIN stack /\ k \in 1..Len(stack) /\ i \in DOMAIN stack[k].packages
      BY <2>1, <2>2
    <3>2. \A j \in 1..(k - 1) : j \in 1..Len(stack)
      BY <2>1, <3>1
    <3>3. NameIn(heap', stack', k, i) = NameIn(heap, stack, k, i)
      BY <2>1, <3>1
    <3> QED BY <2>1, <3>1, <3>2, <3>3 DEF TidyInv, Reached
  <2>3. CASE k = Len(stack) + 1
    <3>1. PICK n \in Kept : n = NameIn(heap', stack', k, i)
      BY <2>1, <2>3
    <3>2. n \in Organized /\ n \in Name
      BY <2>1, <3>1 DEF Kept
    <3>3. CASE stack = <<>>
      <4>1. n \in InUse(tree)
        BY <2>1, <3>2, <3>3, AskedFacts DEF TidyInv
      <4>2. 1..(k - 1) = {}
        BY <2>1, <2>3, <3>3
      <4> QED BY <3>1, <4>1, <4>2
    <3>4. CASE stack # <<>>
      <4>1. PICK a \in Name : a = FollowedIn(heap, stack, Len(stack))
        BY <2>1, <3>4
      <4>2. n \in PackageImports(tree, a)
        BY <2>1, <3>2, <3>4, <4>1, AskedFacts DEF TidyInv
      <4>3. Len(stack) \in DOMAIN stack /\ Len(stack) \in 1..Len(stack)
        BY <2>1, <3>4
      <4>4. stack[Len(stack)].i \in DOMAIN stack[Len(stack)].packages
        BY <2>1, <4>3 DEF IInv, Typed, Poised, Waiting
      <4>5. /\ a \in InUse(tree)
            /\ \A j \in 1..(Len(stack) - 1) :
                 a \in ReachedFrom(tree, PackageImports(tree, FollowedIn(heap, stack, j)))
        BY <4>1, <4>3, <4>4 DEF TidyInv, Reached, FollowedIn
      <4>6. n \in InUse(tree)
        BY <1>1, <4>2, <4>5, InUseFacts
      <4>7. ASSUME NEW j \in 1..(k - 1)
            PROVE  n \in ReachedFrom(tree, PackageImports(tree, FollowedIn(heap', stack', j)))
        <5>1. PICK b \in Name : b = FollowedIn(heap', stack', j) /\ b = FollowedIn(heap, stack, j)
          BY <2>1, <2>3
        <5>2. CASE j = Len(stack)
          BY <1>1, <4>1, <4>2, <5>1, <5>2, ImportReach
        <5>3. CASE j # Len(stack)
          <6>1. j \in 1..(Len(stack) - 1)
            <7>1. Len(stack) \in Nat /\ j \in 1..(Len(stack) + 1 - 1)
              BY <2>1, <2>3
            <7> QED BY <5>3, <7>1
          <6>2. a \in ReachedFrom(tree, PackageImports(tree, b))
            BY <4>5, <5>1, <6>1
          <6> QED BY <1>1, <4>2, <5>1, <6>2, ImportReach
        <5> QED BY <5>2, <5>3
      <4> QED BY <3>1, <4>6, <4>7
    <3> QED BY <3>3, <3>4
  <2> QED BY <2>2, <2>3
<1>3. CASE ~EnterStage1
  <2>1. heap' = heap /\ tree' = tree /\ Shrunk(stack, stack')
    BY <1>3, Shrinks
  <2>2. /\ \A k \in DOMAIN stack' :
             k \in DOMAIN stack /\ DOMAIN stack'[k].packages = DOMAIN stack[k].packages
        /\ \A k \in DOMAIN stack' : \A i :
             NameIn(heap, stack', k, i) = NameIn(heap, stack, k, i)
        /\ \A k \in DOMAIN stack' : \A j \in 1..(k - 1) :
             FollowedIn(heap, stack', j) = FollowedIn(heap, stack, j)
    BY <2>1, ShrunkNames
  <2>3. Reached(tree, heap, stack')
    BY <2>2 DEF TidyInv, Reached
  <2> QED BY <2>1, <2>3
<1> QED BY <1>2, <1>3

(* The activations that wait follow packages whose imports are found.      *)
LEMMA FollowStays ==
  ASSUME NEW ks, ks \subseteq Followers, Calls, tree' = tree,
         \A k \in ks : /\ stack'[k] = stack[k]
                       /\ FollowedIn(heap', stack', k) = FollowedIn(heap, stack, k)
  PROVE  Follow(tree', heap', stack', ks)
  BY DEF Calls, Follow

(* Calls bring what is asked for.                                          *)
LEMMA CallsStep ==
  ASSUME IInv, Tidy(tree), TidyInv, [Next]_vars
  PROVE  Calls'
<1>1. stack \in Seq(Frame) /\ Len(stack) \in Nat /\ DOMAIN stack = 1..Len(stack)
  BY DEF IInv, Typed, TypeOK
<1>2. Calls
  BY DEF TidyInv
<1>3. CASE EnterStage1
  <2>1. /\ pc = "enter" /\ pc' = "loop" /\ tree' = tree
        /\ Len(stack') = Len(stack) + 1
        /\ \A k \in 1..Len(stack) :
             /\ stack'[k] = stack[k]
             /\ FollowedIn(heap', stack', k) = FollowedIn(heap, stack, k)
        /\ stack'[Len(stack) + 1].names = {}
    BY <1>3, EnterNames
  <2>2. Followers = 1..Len(stack) /\ Followers' = 1..Len(stack)
    BY <1>1, <2>1 DEF Followers
  <2>3. Follow(tree', heap', stack', Followers')
    BY <1>2, <2>1, <2>2, FollowStays
  <2>4. Top'.names = {}
    BY <2>1 DEF Top
  <2> QED BY <2>1, <2>3, <2>4 DEF Calls
<1>4. CASE TopChanges
  <2>1. /\ heap' = heap /\ tree' = tree /\ ~EnterStage1
        /\ Len(stack) \in Nat \ {0} /\ Len(stack') = Len(stack)
        /\ \A k \in 1..(Len(stack) - 1) : stack'[k] = stack[k]
    <3>1. ~EnterStage1
      BY <1>4 DEF TopChanges, EnterStage1, ScanCalls, ScanLeaf, Scanning, FinishScan,
                  BeginPrecheck, PrecheckImport, FinishPrecheck, Prechecking
    <3> QED BY <1>4, <3>1, TopChangeFacts DEF IInv
  <2>2. \A k \in 1..(Len(stack) - 1) :
          FollowedIn(heap', stack', k) = FollowedIn(heap, stack, k)
    BY <2>1 DEF FollowedIn, NameIn
  <2>3. 1..(Len(stack) - 1) \subseteq Followers
    BY <1>1 DEF Followers
  <2>4. Follow(tree', heap', stack', 1..(Len(stack) - 1))
    BY <1>2, <2>1, <2>2, <2>3, FollowStays
  <2>5. CASE ScanCalls
    <3>1. /\ pc = "loop" /\ pc' = "enter" /\ Top.phase = "scan" /\ stack # <<>>
          /\ Top.i <= Len(Top.packages) /\ ~Unresolved(Current)
          /\ calling' = ImportFiles(Current)
      BY <2>1, <2>5 DEF ScanCalls, Scanning
    <3>2. Top.i \in DOMAIN Top.packages
      BY <3>1, TopInRange DEF IInv
    <3>3. /\ Current.name = FollowedIn(heap, stack, Len(stack))
          /\ ~ImportsNothing(tree, Current.name)
          /\ ImportNames(Current) \subseteq PackageImports(tree, Current.name)
          /\ ImportFiles(Current) =
               UNION {FilesOf(tree, m) : m \in PackageImports(tree, Current.name)}
      BY <3>1, <3>2, CurrentImports DEF TidyInv
    <3>4. /\ Top = stack[Len(stack)] /\ Top' = stack'[Len(stack)]
          /\ stack'[Len(stack)].packages = Top.packages
          /\ Top'.phase = Top.phase /\ Top'.i = Top.i
          /\ Top'.names = ImportNames(Current)
      BY <1>4, <2>5, TopFields
    <3>5. FollowedIn(heap', stack', Len(stack)) = Current.name
      BY <2>1, <3>3, <3>4 DEF FollowedIn, NameIn
    <3>6. Followers' = 1..Len(stack)
      BY <2>1, <3>1 DEF Followers
    <3>7. ASSUME NEW k \in 1..Len(stack)
          PROVE  /\ stack'[k].phase = "scan"
                 /\ ~ImportsNothing(tree', FollowedIn(heap', stack', k))
                 /\ stack'[k].names \subseteq
                      PackageImports(tree', FollowedIn(heap', stack', k))
      <4>1. CASE k = Len(stack)
        BY <2>1, <3>1, <3>3, <3>4, <3>5, <4>1
      <4>2. CASE k # Len(stack)
        <5>1. k \in 1..(Len(stack) - 1)
          BY <2>1, <4>2
        <5> QED BY <2>4, <5>1 DEF Follow
      <4> QED BY <4>1, <4>2
    <3>8. AskedFor(tree', heap', stack', calling')
      BY <2>1, <3>1, <3>3, <3>5 DEF AskedFor
    <3>9. Follow(tree', heap', stack', Followers')
      BY <3>6, <3>7 DEF Follow
    <3> QED BY <3>1, <3>8, <3>9 DEF Calls
  <2>6. CASE ~ScanCalls
    <3>1. pc' = "loop" /\ (ScanLeaf \/ BeginPrecheck => pc = "loop" /\ Top.phase = "scan")
          /\ (FinishPrecheck => Top.phase = "precheck")
          /\ (\A n \in Name : PrecheckImport(n) => Top.phase = "precheck")
      BY <1>4, <2>6 DEF TopChanges, ScanLeaf, Scanning, FinishScan, BeginPrecheck,
                        PrecheckImport, FinishPrecheck, Prechecking
    <3>2. Followers' = 1..(Len(stack) - 1)
      BY <2>1, <3>1 DEF Followers
    <3>3. /\ ScanLeaf => Top'.names = Top.names
          /\ FinishScan \/ FinishPrecheck => Top'.names = {}
          /\ BeginPrecheck => Top'.phase = "precheck"
          /\ \A n \in Name : PrecheckImport(n) => Top'.phase = Top.phase
      BY <1>4, TopFields
    <3>4. pc = "loop" /\ Top.phase = "scan" => Top.names = {}
      BY <1>2 DEF Calls
    <3>5. Top'.phase = "scan" => Top'.names = {}
      BY <1>4, <2>6, <3>1, <3>3, <3>4 DEF TopChanges
    <3>6. Follow(tree', heap', stack', Followers')
      BY <2>4, <3>2
    <3> QED BY <3>1, <3>5, <3>6 DEF Calls
  <2> QED BY <2>5, <2>6
<1>5. CASE LeaveStage1
  <2>1. /\ pc = "loop" /\ pc' = IF Len(stack) = 1 THEN "typecheck" ELSE "return"
        /\ heap' = heap /\ tree' = tree
        /\ Len(stack) \in Nat \ {0} /\ Len(stack') = Len(stack) - 1
        /\ \A k \in 1..(Len(stack) - 1) : stack'[k] = stack[k]
    BY <1>5, PopStep DEF IInv, LeaveStage1
  <2>2. Followers = 1..(Len(stack) - 1)
    BY <2>1 DEF Followers
  <2>3. Followers' \subseteq 1..(Len(stack) - 1)
    BY <2>1 DEF Followers
  <2>4. \A k \in Followers' : /\ stack'[k] = stack[k]
                              /\ FollowedIn(heap', stack', k) = FollowedIn(heap, stack, k)
    BY <2>1, <2>3 DEF FollowedIn, NameIn
  <2>5. Follow(tree', heap', stack', Followers')
    BY <1>2, <2>1, <2>2, <2>3, <2>4, FollowStays
  <2> QED BY <2>1, <2>5 DEF Calls
<1>6. CASE Rest
  <2>1. /\ stack' = stack /\ heap' = heap /\ tree' = tree
        /\ pc' \notin {"enter", "loop", "return"}
    BY <1>6, TypedRest DEF IInv
  <2>2. Followers' \subseteq Followers
    BY <1>1, <2>1 DEF Followers
  <2>3. Follow(tree', heap', stack', Followers')
    BY <1>2, <2>1, <2>2, FollowStays
  <2> QED BY <2>1, <2>3 DEF Calls
<1>7. CASE UNCHANGED vars
  BY <1>2, <1>7 DEF vars, progress, backend, Calls, Followers, Top
<1> QED BY <1>3, <1>4, <1>5, <1>6, <1>7 DEF Next, TopChanges, Rest

-----------------------------------------------------------------------------
(* The package that turns done is grounded, and what it imports is known.  *)
LEMMA CurrentSound ==
  ASSUME IInv, Tidy(tree), TidyInv, ScanLeaf \/ FinishScan
  PROVE  /\ Sound(tree, packages, Current.name)
         /\ Top.phase = "scan" /\ Top.i \in DOMAIN Top.packages
         /\ Current.name \in Name
         /\ Current.name = NameIn(heap, stack, Len(stack), Top.i)
<1>1. stack # <<>> /\ tree \in Trees /\ stack \in Seq(Frame)
  BY DEF IInv, Typed, TypeOK, Poised, ScanLeaf, Scanning, FinishScan
<1>2. Len(stack) \in Nat \ {0} /\ Len(stack) \in 1..Len(stack) /\ Top = stack[Len(stack)]
  BY <1>1, TopFacts DEF Top
<1>3. Top.phase = "scan" /\ Top.i \in DOMAIN Top.packages
  <2>1. CASE ScanLeaf
    BY <1>1, <2>1, TopInRange DEF IInv, ScanLeaf, Scanning
  <2>2. CASE FinishScan
    <3>1. Len(stack) \in Waiting /\ Len(stack) \in Followers
      BY <1>2, <2>2 DEF FinishScan, Waiting, Followers
    <3> QED BY <1>2, <3>1 DEF IInv, Typed, Poised, TidyInv, Calls, Follow
  <2> QED BY <2>1, <2>2
<1>4. /\ Current.name = FollowedIn(heap, stack, Len(stack))
      /\ Current.name \in Name
      /\ Unresolved(Current) <=> ImportsNothing(tree, Current.name)
      /\ ~Unresolved(Current) =>
           ImportFiles(Current) =
             UNION {FilesOf(tree, m) : m \in PackageImports(tree, Current.name)}
  BY <1>1, <1>3, CurrentImports DEF TidyInv
<1>5. PICK n \in Name : n = Current.name
  BY <1>4
<1>6. PackageImports(tree, n) \subseteq Name
  BY <1>1, ImportsAreNames
<1>7. /\ ~ImportsNothing(tree, n)
      /\ \A m \in PackageImports(tree, n) : Known(tree, packages, m) /\ m \in Grounded(tree)
  <2>1. CASE ScanLeaf
    <3>1. ~Unresolved(Current) /\ ImportFiles(Current) = {}
      BY <2>1 DEF ScanLeaf
    <3>2. \A m \in PackageImports(tree, n) : FilesOf(tree, m) = {}
      BY <1>4, <1>5, <3>1
    <3> QED BY <1>1, <1>4, <1>5, <1>6, <3>1, <3>2, NoFilesGrounded DEF Known
  <2>2. CASE FinishScan
    <3>1. Len(stack) \in Followers /\ pc = "return"
      BY <1>2, <2>2 DEF FinishScan, Followers
    <3> QED BY <1>4, <1>5, <3>1 DEF TidyInv, Calls, Follow, Backed, Answered
  <2> QED BY <2>1, <2>2
<1>8. n \in Grounded(tree)
  BY <1>1, <1>7, GroundedStep
<1>9. Current.name = NameIn(heap, stack, Len(stack), Top.i)
  BY <1>2, <1>4 DEF FollowedIn
<1> QED BY <1>3, <1>4, <1>5, <1>7, <1>8, <1>9 DEF Sound

(* What the activations were over is sound.                                *)
LEMMA ScannedStep ==
  ASSUME IInv, Tidy(tree), TidyInv, [Next]_vars
  PROVE  Scanned(tree', heap', stack', packages')
<1>1. /\ \A n \in Name : packages[n] # 0 => packages'[n] # 0
      /\ EnterStage1 => \A n \in Kept : packages'[n] # 0
  BY RegistryStep DEF TidyInv
<1>2. \A n \in Name : Sound(tree, packages, n) => Sound(tree, packages', n)
  BY KnownStays DEF TidyInv
<1>3. \A k \in DOMAIN stack : \A i \in DOMAIN stack[k].packages :
        /\ NameIn(heap, stack, k, i) \in Name
        /\ packages[NameIn(heap, stack, k, i)] # 0
        /\ IsScanned(stack, k, i) => Sound(tree, packages, NameIn(heap, stack, k, i))
  <2>1. InUse(tree) \subseteq Name
    BY DEF InUse, ReachedFrom
  <2> QED BY <2>1 DEF TidyInv, Reached, Scanned
<1>4. ASSUME NEW k \in DOMAIN stack, NEW i \in DOMAIN stack[k].packages, tree' = tree,
             NameIn(heap', stack', k, i) = NameIn(heap, stack, k, i),
             IsScanned(stack', k, i) => IsScanned(stack, k, i)
      PROVE  /\ packages'[NameIn(heap', stack', k, i)] # 0
             /\ IsScanned(stack', k, i) =>
                  Sound(tree', packages', NameIn(heap', stack', k, i))
  BY <1>1, <1>2, <1>3, <1>4
<1>5. CASE EnterStage1
  <2>1. /\ tree' = tree /\ Len(stack) \in Nat /\ DOMAIN stack = 1..Len(stack)
        /\ DOMAIN stack' = 1..(Len(stack) + 1)
        /\ \A k \in 1..Len(stack) :
             /\ stack'[k] = stack[k]
             /\ \A i \in DOMAIN stack[k].packages :
                  NameIn(heap', stack', k, i) = NameIn(heap, stack, k, i)
        /\ stack'[Len(stack) + 1].phase = "scan" /\ stack'[Len(stack) + 1].i = 1
        /\ \A i \in DOMAIN stack'[Len(stack) + 1].packages :
             /\ i \in Nat /\ i >= 1
             /\ NameIn(heap', stack', Len(stack) + 1, i) \in Kept
    BY <1>5, EnterNames
  <2> SUFFICES ASSUME NEW k \in DOMAIN stack', NEW i \in DOMAIN stack'[k].packages
               PROVE  /\ packages'[NameIn(heap', stack', k, i)] # 0
                      /\ IsScanned(stack', k, i) =>
                           Sound(tree', packages', NameIn(heap', stack', k, i))
    BY DEF Scanned
  <2>2. CASE k \in 1..Len(stack)
    <3>1. k \in DOMAIN stack /\ i \in DOMAIN stack[k].packages
      BY <2>1, <2>2
    <3>2. IsScanned(stack', k, i) => IsScanned(stack, k, i)
      BY <2>1, <2>2 DEF IsScanned
    <3> QED BY <1>4, <2>1, <2>2, <3>1, <3>2
  <2>3. CASE k = Len(stack) + 1
    <3>1. ~IsScanned(stack', k, i)
      <4>1. i \in Nat /\ i >= 1 /\ ~(i < 1)
        BY <2>1, <2>3
      <4> QED BY <2>1, <2>3, <4>1 DEF IsScanned
    <3> QED BY <1>1, <1>5, <2>1, <2>3, <3>1
  <2> QED BY <2>1, <2>2, <2>3
<1>6. CASE TopChanges
  <2>1. /\ Len(stack) \in Nat \ {0} /\ Len(stack) \in DOMAIN stack
        /\ DOMAIN stack = 1..Len(stack) /\ DOMAIN stack' = DOMAIN stack
        /\ Top = stack[Len(stack)] /\ Top' = stack'[Len(stack)] /\ Top \in Frame
        /\ \A k \in 1..(Len(stack) - 1) : stack'[k] = stack[k]
        /\ stack'[Len(stack)].packages = Top.packages
        /\ ScanCalls => /\ Top'.phase = Top.phase /\ Top'.i = Top.i
        /\ ScanLeaf => /\ Top'.phase = Top.phase /\ Top'.i = Top.i + 1
        /\ FinishScan \/ FinishPrecheck =>
             Top'.phase = Top.phase /\ Top'.i = Top.i + 1
        /\ \A n \in Name : PrecheckImport(n) =>
             /\ Top'.phase = Top.phase /\ Top'.i = Top.i
    BY <1>6, TopFields
  <2>2. heap' = heap /\ tree' = tree
    BY <1>6, TopChangeFacts DEF IInv
  <2>3. \A k \in DOMAIN stack : stack'[k].packages = stack[k].packages
    BY <1>6, TopChangeFacts DEF IInv
  <2>4. \A k \in DOMAIN stack : \A i :
          NameIn(heap', stack', k, i) = NameIn(heap, stack, k, i)
    BY <2>2, <2>3 DEF NameIn
  <2> SUFFICES ASSUME NEW k \in DOMAIN stack, NEW i \in DOMAIN stack[k].packages
               PROVE  /\ packages'[NameIn(heap', stack', k, i)] # 0
                      /\ IsScanned(stack', k, i) =>
                           Sound(tree', packages', NameIn(heap', stack', k, i))
    BY <2>1, <2>3 DEF Scanned
  <2>5. CASE k # Len(stack)
    <3>1. k \in 1..(Len(stack) - 1)
      BY <2>1, <2>5
    <3>2. IsScanned(stack', k, i) => IsScanned(stack, k, i)
      BY <2>1, <3>1 DEF IsScanned
    <3> QED BY <1>4, <2>2, <2>4, <3>2
  <2>6. CASE k = Len(stack)
    <3>1. i \in 1..Len(Top.packages) /\ Top.packages \in Seq(Nat) /\ Top.i \in Nat
      BY <2>1, <2>6 DEF Frame
    <3>2. CASE ScanLeaf \/ FinishScan
      <4>1. /\ Sound(tree, packages, Current.name) /\ Top.phase = "scan"
            /\ Current.name \in Name
            /\ Current.name = NameIn(heap, stack, Len(stack), Top.i)
        BY <3>2, CurrentSound
      <4>2. CASE i = Top.i
        <5>1. Sound(tree, packages', NameIn(heap, stack, k, i))
          BY <1>2, <2>6, <4>1, <4>2
        <5> QED BY <1>1, <1>3, <2>2, <2>4, <5>1
      <4>3. CASE i # Top.i
        <5>1. IsScanned(stack', k, i) => IsScanned(stack, k, i)
          BY <2>1, <2>6, <3>1, <3>2, <4>1, <4>3 DEF IsScanned
        <5> QED BY <1>4, <2>2, <2>4, <5>1
      <4> QED BY <4>2, <4>3
    <3>3. CASE BeginPrecheck
      <4>1. i < Top.i
        BY <3>1, <3>3 DEF BeginPrecheck
      <4>2. IsScanned(stack, k, i)
        BY <2>1, <2>6, <4>1 DEF IsScanned
      <4> QED BY <1>4, <2>2, <2>4, <4>2
    <3>4. CASE ScanCalls \/ \E n \in Name : PrecheckImport(n)
      <4>1. Top'.phase = Top.phase /\ Top'.i = Top.i
        BY <2>1, <3>4
      <4>2. IsScanned(stack', k, i) => IsScanned(stack, k, i)
        BY <2>1, <2>6, <4>1 DEF IsScanned
      <4> QED BY <1>4, <2>2, <2>4, <4>2
    <3>5. CASE FinishPrecheck
      <4>1. Top.phase = "precheck"
        BY <3>5 DEF FinishPrecheck, Prechecking
      <4>2. IsScanned(stack, k, i)
        BY <2>1, <2>6, <4>1 DEF IsScanned
      <4> QED BY <1>4, <2>2, <2>4, <4>2
    <3> QED BY <1>6, <3>2, <3>3, <3>4, <3>5 DEF TopChanges
  <2> QED BY <2>5, <2>6
<1>7. ASSUME DOMAIN stack' \subseteq DOMAIN stack, heap' = heap, tree' = tree,
             \A k \in DOMAIN stack' : stack'[k] = stack[k]
      PROVE  Scanned(tree', heap', stack', packages')
  <2> SUFFICES ASSUME NEW k \in DOMAIN stack', NEW i \in DOMAIN stack'[k].packages
               PROVE  /\ packages'[NameIn(heap', stack', k, i)] # 0
                      /\ IsScanned(stack', k, i) =>
                           Sound(tree', packages', NameIn(heap', stack', k, i))
    BY DEF Scanned
  <2>1. k \in DOMAIN stack /\ i \in DOMAIN stack[k].packages
    BY <1>7
  <2>2. /\ NameIn(heap', stack', k, i) = NameIn(heap, stack, k, i)
        /\ IsScanned(stack', k, i) => IsScanned(stack, k, i)
    BY <1>7 DEF NameIn, IsScanned
  <2> QED BY <1>4, <1>7, <2>1, <2>2
<1>8. CASE LeaveStage1
  <2>1. /\ heap' = heap /\ tree' = tree /\ stack' \in Seq(Frame)
        /\ Len(stack) \in Nat \ {0} /\ Len(stack') = Len(stack) - 1
        /\ \A k \in 1..(Len(stack) - 1) : stack'[k] = stack[k]
    BY <1>8, PopStep DEF IInv, LeaveStage1
  <2>2. DOMAIN stack' = 1..(Len(stack) - 1) /\ DOMAIN stack = 1..Len(stack)
    BY <2>1 DEF IInv, Typed, TypeOK
  <2> QED BY <1>7, <2>1, <2>2
<1>9. CASE Rest
  BY <1>7, <1>9, TypedRest DEF IInv
<1>10. CASE UNCHANGED vars
  BY <1>7, <1>10 DEF vars, progress
<1> QED BY <1>5, <1>6, <1>8, <1>9, <1>10 DEF Next, TopChanges, Rest

(* What followed packages import is known.                                 *)
LEMMA BackedStep ==
  ASSUME IInv, Tidy(tree), TidyInv, [Next]_vars
  PROVE  Backed'
<1>1. /\ \A n \in Name : packages[n] # 0 => packages'[n] # 0
      /\ EnterStage1 => \A n \in Kept : packages'[n] # 0
  BY RegistryStep DEF TidyInv
<1>2. \A n \in Name : Known(tree, packages, n) => Known(tree, packages', n)
  BY KnownStays DEF TidyInv
<1>3. tree \in Trees /\ (\A a : PackageImports(tree, a) \subseteq Name)
  BY ImportsAreNames DEF IInv, Typed, TypeOK
<1>4. ASSUME NEW k \in DOMAIN stack, k # 1, tree' = tree,
             FollowedIn(heap', stack', k - 1) = FollowedIn(heap, stack, k - 1),
             DOMAIN stack'[k].packages = DOMAIN stack[k].packages,
             \A i \in DOMAIN stack[k].packages :
               NameIn(heap', stack', k, i) = NameIn(heap, stack, k, i)
      PROVE  \A m \in PackageImports(tree', FollowedIn(heap', stack', k - 1)) :
               /\ Known(tree', packages', m)
               /\ \/ m \in Grounded(tree')
                  \/ \E i \in DOMAIN stack'[k].packages :
                       NameIn(heap', stack', k, i) = m
  <2> SUFFICES ASSUME NEW m \in PackageImports(tree, FollowedIn(heap, stack, k - 1))
               PROVE  /\ Known(tree, packages', m)
                      /\ \/ m \in Grounded(tree)
                         \/ \E i \in DOMAIN stack[k].packages :
                              NameIn(heap', stack', k, i) = m
    BY <1>4
  <2>1. /\ Known(tree, packages, m)
        /\ \/ m \in Grounded(tree)
           \/ \E i \in DOMAIN stack[k].packages : NameIn(heap, stack, k, i) = m
    BY <1>4 DEF TidyInv, Backed, Behind
  <2> QED BY <1>2, <1>3, <1>4, <2>1
<1>5. CASE EnterStage1
  <2>1. /\ pc = "enter" /\ pc' = "loop" /\ tree' = tree
        /\ Len(stack) \in Nat /\ DOMAIN stack = 1..Len(stack)
        /\ DOMAIN stack' = 1..(Len(stack) + 1)
        /\ \A k \in 1..Len(stack) :
             /\ stack'[k] = stack[k]
             /\ \A i \in DOMAIN stack[k].packages :
                  NameIn(heap', stack', k, i) = NameIn(heap, stack, k, i)
             /\ FollowedIn(heap', stack', k) = FollowedIn(heap, stack, k)
             /\ FollowedIn(heap, stack, k) \in Name
        /\ \A n \in Kept : \E i \in DOMAIN stack'[Len(stack) + 1].packages :
             NameIn(heap', stack', Len(stack) + 1, i) = n
    BY <1>5, EnterNames
  <2> SUFFICES ASSUME NEW k \in DOMAIN stack', k # 1
               PROVE  \A m \in PackageImports(tree', FollowedIn(heap', stack', k - 1)) :
                        /\ Known(tree', packages', m)
                        /\ \/ m \in Grounded(tree')
                           \/ \E i \in DOMAIN stack'[k].packages :
                                NameIn(heap', stack', k, i) = m
    BY <2>1 DEF Backed, Behind
  <2>2. k - 1 \in 1..Len(stack)
    BY <2>1
  <2>3. CASE k \in 1..Len(stack)
    <3>1. k \in DOMAIN stack /\ stack'[k] = stack[k]
      BY <2>1, <2>3
    <3> QED BY <1>4, <2>1, <2>2, <2>3, <3>1
  <2>4. CASE k = Len(stack) + 1
    <3>1. k - 1 = Len(stack) /\ stack # <<>>
      BY <2>1, <2>2, <2>4
    <3> SUFFICES ASSUME NEW m \in PackageImports(tree, FollowedIn(heap, stack, Len(stack)))
                 PROVE  /\ Known(tree, packages', m)
                        /\ \/ m \in Grounded(tree)
                           \/ \E i \in DOMAIN stack'[k].packages :
                                NameIn(heap', stack', k, i) = m
      BY <2>1, <2>2, <3>1
    <3>2. m \in Name
      BY <1>3
    <3>3. CASE FilesOf(tree, m) = {}
      BY <1>3, <3>2, <3>3, NoFilesGrounded DEF Known
    <3>4. CASE FilesOf(tree, m) # {}
      <4>1. m \in Organized
        BY <2>1, <3>1, <3>4, AskedFacts DEF TidyInv
      <4>2. status[m] # "Processing"
        BY <1>5, <4>1 DEF EnterStage1
      <4>3. CASE m \in Kept
        BY <1>1, <1>5, <2>1, <2>4, <4>3 DEF Known
      <4>4. CASE m \notin Kept
        <5>1. status[m] # "None"
          BY <4>1, <4>4 DEF Kept
        <5>2. status[m] = "Done"
          BY <3>2, <4>2, <5>1 DEF IInv, Typed, TypeOK
        <5>3. m \in Grounded(tree) /\ packages[m] # 0
          BY <3>2, <5>1, <5>2 DEF TidyInv, Marks
        <5> QED BY <1>1, <3>2, <5>3 DEF Known
      <4> QED BY <4>3, <4>4
    <3> QED BY <3>3, <3>4
  <2> QED BY <2>1, <2>3, <2>4
<1>6. CASE ~EnterStage1
  <2>1. heap' = heap /\ tree' = tree /\ Shrunk(stack, stack')
    BY <1>6, Shrinks
  <2>2. /\ \A k \in DOMAIN stack' :
             k \in DOMAIN stack /\ DOMAIN stack'[k].packages = DOMAIN stack[k].packages
        /\ \A k \in DOMAIN stack' : \A i :
             NameIn(heap, stack', k, i) = NameIn(heap, stack, k, i)
        /\ \A k \in DOMAIN stack' : \A j \in 1..(k - 1) :
             FollowedIn(heap, stack', j) = FollowedIn(heap, stack, j)
    BY <2>1, ShrunkNames
  <2>3. \A k \in DOMAIN stack' : k # 1 => k - 1 \in 1..(k - 1)
    <3>1. DOMAIN stack = 1..Len(stack) /\ Len(stack) \in Nat
      BY DEF IInv, Typed, TypeOK
    <3> QED BY <2>2, <3>1
  <2>4. Behind(tree', heap', stack', packages')
    <3> SUFFICES ASSUME NEW k \in DOMAIN stack', k # 1
                 PROVE  \A m \in PackageImports(tree', FollowedIn(heap', stack', k - 1)) :
                          /\ Known(tree', packages', m)
                          /\ \/ m \in Grounded(tree')
                             \/ \E i \in DOMAIN stack'[k].packages :
                                  NameIn(heap', stack', k, i) = m
      BY DEF Behind
    <3> QED BY <1>4, <2>1, <2>2, <2>3
  <2>5. ASSUME pc' = "return"
        PROVE  Answered(tree', heap', stack', packages')
    <3>1. CASE UNCHANGED vars
      BY <2>5, <3>1 DEF vars, progress, TidyInv, Backed, Answered, FollowedIn, NameIn
    <3>2. CASE Next
      <4>1. LeaveStage1
        BY <2>5, <3>2 DEF Next, EnterStage1, DetectCycle, ScanUnresolved, ScanCalls,
             ScanLeaf, Scanning, FinishScan, BeginPrecheck, PrecheckImport, PrecheckMissing,
             FinishPrecheck, Prechecking, TypeCheckPackage, BeginCodegen, Codegen
      <4>2. /\ Len(stack) \in Nat \ {0} /\ Len(stack') = Len(stack) - 1
            /\ \A k \in 1..(Len(stack) - 1) : stack'[k] = stack[k]
        BY <4>1, PopStep DEF IInv
      <4>3. Len(stack) # 1 /\ Top.phase = "precheck" /\ packages' = packages
        BY <2>5, <4>1 DEF LeaveStage1
      <4>4. Len(stack) \in DOMAIN stack /\ Top = stack[Len(stack)]
            /\ Len(stack) - 1 \in 1..(Len(stack) - 1)
        <5>1. stack \in Seq(Frame) /\ DOMAIN stack = 1..Len(stack)
          BY DEF IInv, Typed, TypeOK
        <5> QED BY <4>2, <4>3, <5>1 DEF Top
      <4>5. FollowedIn(heap', stack', Len(stack')) = FollowedIn(heap, stack, Len(stack) - 1)
        BY <2>1, <4>2, <4>4 DEF FollowedIn, NameIn
      <4>6. ASSUME NEW m \in PackageImports(tree, FollowedIn(heap, stack, Len(stack) - 1))
            PROVE  Known(tree, packages, m) /\ m \in Grounded(tree)
        <5>1. /\ Known(tree, packages, m)
              /\ \/ m \in Grounded(tree)
                 \/ \E i \in DOMAIN stack[Len(stack)].packages :
                      NameIn(heap, stack, Len(stack), i) = m
          BY <4>3, <4>4 DEF TidyInv, Backed, Behind
        <5>2. ASSUME NEW i \in DOMAIN stack[Len(stack)].packages
              PROVE  NameIn(heap, stack, Len(stack), i) \in Grounded(tree)
          BY <4>3, <4>4 DEF TidyInv, Scanned, IsScanned, Sound
        <5> QED BY <5>1, <5>2
      <4> QED BY <2>1, <4>3, <4>5, <4>6 DEF Answered
    <3> QED BY <3>1, <3>2
  <2> QED BY <2>4, <2>5 DEF Backed
<1> QED BY <1>5, <1>6

(* A mark that is set says what it should.                                 *)
LEMMA MarksStep ==
  ASSUME IInv, Tidy(tree), TidyInv, [Next]_vars
  PROVE  Marks(tree', packages', status')
<1>1. \A n \in Name : packages[n] # 0 => packages'[n] # 0
  BY RegistryStep DEF TidyInv
<1>2. tree' = tree
  BY Shrinks, EnterNames
<1>3. status \in [Name -> {"None", "Processing", "Done"}]
  BY DEF IInv, Typed, TypeOK
<1>4. \A n \in Name : /\ status[n] = "Done" => n \in Grounded(tree)
                      /\ status[n] # "None" => packages[n] # 0
  BY DEF TidyInv, Marks
<1>5. CASE status' = status
  BY <1>1, <1>2, <1>4, <1>5 DEF Marks
<1>6. CASE ScanLeaf \/ FinishScan
  <2>1. /\ Sound(tree, packages, Current.name) /\ Current.name \in Name
        /\ Top.i \in DOMAIN Top.packages
        /\ Current.name = NameIn(heap, stack, Len(stack), Top.i)
    BY <1>6, CurrentSound
  <2>2. Len(stack) \in DOMAIN stack /\ Top = stack[Len(stack)]
    <3>1. stack # <<>>
      BY <1>6 DEF IInv, Typed, Poised, ScanLeaf, Scanning, FinishScan
    <3> QED BY <3>1, TopInRange DEF IInv
  <2>3. packages[Current.name] # 0
    BY <2>1, <2>2 DEF TidyInv, Scanned
  <2>4. status' = [status EXCEPT ![Current.name] = "Done"]
    BY <1>6 DEF ScanLeaf, FinishScan
  <2> QED BY <1>1, <1>2, <1>3, <1>4, <2>1, <2>3, <2>4 DEF Marks, Sound
<1>7. CASE ScanUnresolved \/ ScanCalls
  <2>1. stack # <<>> /\ Top.i <= Len(Top.packages)
    BY <1>7 DEF IInv, Typed, Poised, ScanUnresolved, ScanCalls, Scanning
  <2>2. /\ Len(stack) \in DOMAIN stack /\ Top = stack[Len(stack)]
        /\ Top.i \in DOMAIN Top.packages
    BY <2>1, TopInRange DEF IInv
  <2>3. /\ Current.name = FollowedIn(heap, stack, Len(stack))
        /\ Current.name \in Name
    BY <2>1, <2>2, CurrentImports DEF TidyInv
  <2>4. packages[Current.name] # 0
    BY <2>2, <2>3 DEF TidyInv, Scanned, FollowedIn
  <2>5. status' = [status EXCEPT ![Current.name] = "Processing"]
    BY <1>7 DEF ScanUnresolved, ScanCalls
  <2> QED BY <1>1, <1>2, <1>3, <1>4, <2>3, <2>4, <2>5 DEF Marks
<1>8. \/ status' = status \/ ScanLeaf \/ FinishScan \/ ScanUnresolved \/ ScanCalls
  BY DEF Next, EnterStage1, DetectCycle, BeginPrecheck, PrecheckImport, PrecheckMissing,
         FinishPrecheck, LeaveStage1, TypeCheckPackage, BeginCodegen, Codegen, vars, progress
<1> QED BY <1>5, <1>6, <1>7, <1>8

-----------------------------------------------------------------------------
(* A name met again on its way: some package imports itself by a detour.   *)
LEMMA CycleFound ==
  ASSUME IInv, Tidy(tree), TidyInv, DetectCycle
  PROVE  HasImportCycle(tree)
<1>1. PICK n \in Organized : status[n] = "Processing" /\ pc = "enter"
  BY DEF DetectCycle
<1>2. tree \in Trees /\ Len(stack) \in Nat /\ DOMAIN stack = 1..Len(stack)
  BY DEF IInv, Typed, TypeOK
<1>3. Waiting = 1..Len(stack)
  BY <1>1 DEF Waiting
<1>4. n \in Name
  BY SMTT(30), <1>2, TreeFacts DEF Organized, IInv, Typed, TypeOK
<1>5. PICK k \in 1..Len(stack) : n = Following(k)
  BY <1>1, <1>3, <1>4 DEF IInv, Marked, Failed
<1>6. n = FollowedIn(heap, stack, k)
  BY <1>5 DEF Following, FollowedIn, NameIn
<1>7. stack # <<>> /\ Len(stack) \in 1..Len(stack)
  BY <1>2
<1>8. PICK a \in Name : a = FollowedIn(heap, stack, Len(stack))
  BY <1>3, <1>7, FollowingFacts DEF IInv, Following, FollowedIn, NameIn
<1>9. n \in PackageImports(tree, a)
  BY <1>1, <1>7, <1>8, AskedFacts DEF TidyInv
<1>10. stack[Len(stack)].i \in DOMAIN stack[Len(stack)].packages
  BY <1>3, <1>7 DEF IInv, Typed, Poised
<1>11. /\ a \in InUse(tree)
       /\ \A j \in 1..(Len(stack) - 1) :
            a \in ReachedFrom(tree, PackageImports(tree, FollowedIn(heap, stack, j)))
  BY <1>2, <1>7, <1>8, <1>10 DEF TidyInv, Reached, FollowedIn
<1>12. n \in InUse(tree)
  BY <1>2, <1>9, <1>11, InUseFacts
<1>13. n \in ReachedFrom(tree, PackageImports(tree, n))
  <2>1. CASE k = Len(stack)
    BY <1>2, <1>4, <1>6, <1>8, <1>9, <2>1, ImportReach
  <2>2. CASE k # Len(stack)
    <3>1. k \in 1..(Len(stack) - 1)
      <4>1. \A m \in Nat : \A j \in 1..m : j # m => j \in 1..(m - 1)
        OBVIOUS
      <4> QED BY <1>2, <2>2, <4>1
    <3>2. a \in ReachedFrom(tree, PackageImports(tree, n))
      BY <1>6, <1>11, <3>1
    <3> QED BY <1>2, <1>4, <1>9, <3>2, ImportReach
  <2> QED BY <2>1, <2>2
<1> QED BY <1>12, <1>13 DEF HasImportCycle, InCycle

(* The package at hand is in use.                                          *)
LEMMA CurrentInUse ==
  ASSUME IInv, Tidy(tree), TidyInv, Scanning \/ Prechecking
  PROVE  /\ Current.name \in InUse(tree) /\ Current.name \in Name
         /\ Current.name = NameIn(heap, stack, Len(stack), Top.i)
         /\ ImportsOf(Current) = PackageImports(tree, Current.name)
         /\ Unresolved(Current) <=> ImportsNothing(tree, Current.name)
         /\ stack # <<>> /\ Len(stack) \in DOMAIN stack /\ Top = stack[Len(stack)]
         /\ Top.i \in DOMAIN Top.packages /\ Top.packages[Top.i] \in DOMAIN heap
<1>1. stack # <<>> /\ Top.i <= Len(Top.packages)
  BY DEF IInv, Typed, Poised, Scanning, Prechecking
<1>2. /\ Len(stack) \in DOMAIN stack /\ Top = stack[Len(stack)]
      /\ Top.i \in DOMAIN Top.packages
  BY <1>1, TopInRange DEF IInv
<1>3. /\ Current.name = FollowedIn(heap, stack, Len(stack)) /\ Current.name \in Name
      /\ Top.packages[Top.i] \in DOMAIN heap
      /\ ImportsOf(Current) = PackageImports(tree, Current.name)
      /\ Unresolved(Current) <=> ImportsNothing(tree, Current.name)
  BY <1>1, <1>2, CurrentImports DEF TidyInv
<1>4. Current.name \in InUse(tree) /\ Current.name = NameIn(heap, stack, Len(stack), Top.i)
  BY <1>2, <1>3 DEF TidyInv, Reached, FollowedIn
<1> QED BY <1>1, <1>2, <1>3, <1>4

(* How the analysis ends is what the tree asks for.                        *)
LEMMA VerdictStep ==
  ASSUME IInv, Tidy(tree), TidyInv, [Next]_vars
  PROVE  Verdict'
<1>1. tree' = tree /\ tree \in Trees
  BY Shrinks, EnterNames DEF IInv, Typed, TypeOK
<1>2. CASE DetectCycle
  <2>1. pc' = "cyclic" /\ HasImportCycle(tree')
    BY <1>1, <1>2, CycleFound DEF DetectCycle
  <2> QED BY <2>1 DEF Verdict, Analysed
<1>3. CASE ScanUnresolved
  <2>1. pc' = "unresolved" /\ Scanning /\ Unresolved(Current)
    BY <1>3 DEF ScanUnresolved
  <2>2. HasUnresolvedImport(tree')
    BY <1>1, <2>1, CurrentInUse DEF HasUnresolvedImport
  <2> QED BY <2>1, <2>2 DEF Verdict, Analysed
<1>4. CASE \E n \in Name : PrecheckMissing(n)
  <2>1. PICK m \in Name : PrecheckMissing(m)
    BY <1>4
  <2>2. /\ pc' = "missing" /\ Prechecking
        /\ m \in ImportsOf(Current) /\ packages[m] = 0 /\ Top.phase = "precheck"
    BY <2>1 DEF PrecheckMissing, Prechecking
  <2>3. PICK n \in Name : n = Current.name
    BY <2>2, CurrentInUse
  <2>4. n \in InUse(tree) /\ m \in PackageImports(tree, n)
    BY <2>2, <2>3, CurrentInUse
  <2>5. Sound(tree, packages, n)
    <3>1. /\ n = NameIn(heap, stack, Len(stack), Top.i)
          /\ Len(stack) \in DOMAIN stack /\ Top = stack[Len(stack)]
          /\ Top.i \in DOMAIN Top.packages
      BY <2>2, <2>3, CurrentInUse
    <3>2. IsScanned(stack, Len(stack), Top.i)
      BY <2>2, <3>1 DEF IsScanned
    <3> QED BY <3>1, <3>2 DEF TidyInv, Scanned
  <2>6. FilesOf(tree, m) = {} /\ tree.candidates[m] # <<>>
    <3>1. FilesOf(tree, m) = {}
      BY <2>2, <2>4, <2>5 DEF Sound, Known
    <3>2. ~ImportsNothing(tree, n)
      BY <1>1, <2>5, GroundedIsClosed DEF Sound
    <3> QED BY <2>4, <3>1, <3>2 DEF ImportsNothing
  <2>7. tree.candidates[m][1] = FilesOf(tree, m)
    BY <2>1, <2>6 DEF Tidy
  <2>8. \A f \in tree.candidates[m][1] : tree.package[f] # m
    BY <2>6, <2>7
  <2> QED BY <1>1, <2>2, <2>4, <2>6, <2>8 DEF Verdict, Analysed
<1>5. CASE LeaveStage1
  <2>1. /\ pc' = IF Len(stack) = 1 THEN "typecheck" ELSE "return"
        /\ heap' = heap /\ returned' = Top.packages /\ Top.phase = "precheck"
    BY <1>5 DEF LeaveStage1
  <2>2. Len(stack) \in DOMAIN stack /\ Top = stack[Len(stack)]
    <3>1. stack # <<>>
      BY <1>5 DEF IInv, Typed, Poised, LeaveStage1
    <3> QED BY <3>1, TopInRange DEF IInv
  <2>3. \A k \in DOMAIN Top.packages : heap[Top.packages[k]].name \in Grounded(tree)
    BY <2>1, <2>2 DEF TidyInv, Scanned, IsScanned, Sound, NameIn
  <2>4. pc' \in {"typecheck", "return"}
    BY <2>1
  <2> QED BY <1>1, <2>1, <2>3, <2>4 DEF Verdict
<1>6. ASSUME pc \in Analysed, pc' \in Analysed, heap' = heap, returned' = returned
      PROVE  Verdict'
  BY <1>1, <1>6 DEF TidyInv, Verdict, Analysed
<1>7. CASE (\E o \in Registered : TypeCheckPackage(o)) \/ BeginCodegen \/ Codegen
  BY <1>6, <1>7 DEF TypeCheckPackage, BeginCodegen, Codegen, progress, Analysed
<1>8. CASE UNCHANGED vars
  BY <1>8 DEF vars, progress, TidyInv, Verdict
<1>9. CASE EnterStage1 \/ TopChanges
  <2>1. pc' \in {"enter", "loop"}
    BY <1>9 DEF EnterStage1, TopChanges, ScanCalls, ScanLeaf, Scanning, FinishScan,
                BeginPrecheck, PrecheckImport, FinishPrecheck, Prechecking
  <2> QED BY <2>1 DEF Verdict, Analysed
<1> QED BY <1>2, <1>3, <1>4, <1>5, <1>7, <1>8, <1>9 DEF Next, TopChanges

-----------------------------------------------------------------------------
(* The first components of what is paired with one thing.                  *)
LEMMA PairedWithOne ==
  ASSUME NEW S, NEW x
  PROVE  {d[1] : d \in S \X {x}} = S
<1>1. ASSUME NEW d \in S \X {x}
      PROVE  d[1] \in S
  OBVIOUS
<1>2. ASSUME NEW f \in S
      PROVE  \E d \in S \X {x} : d[1] = f
  <2>1. <<f, x>> \in S \X {x} /\ <<f, x>>[1] = f
    OBVIOUS
  <2> QED BY <2>1
<1> QED BY <1>1, <1>2

(* A context only grows; a new one holds the files of its own package.     *)
LEMMA EnterHeld ==
  ASSUME IInv, EnterStage1
  PROVE  /\ \A o \in DOMAIN heap : o \in DOMAIN heap' /\ heap'[o] = heap[o]
                                   /\ contexts'[o] = contexts[o]
         /\ \A o \in DOMAIN heap' : o \in DOMAIN heap \/
              /\ Held(contexts', o) = heap'[o].files
              /\ \E i \in DOMAIN stack'[Len(stack) + 1].packages :
                   stack'[Len(stack) + 1].packages[i] = o
<1>1. PICK order \in Orders(Kept) :
        /\ stack'[Len(stack) + 1] = NewFrame(order)
        /\ \A o \in DOMAIN heap : o \in DOMAIN heap' /\ heap'[o] = heap[o]
        /\ Ids(order) \in [1..Cardinality(Kept) -> DOMAIN heap']
        /\ \A k \in DOMAIN order : /\ Ids(order)[k] = Len(heap) + k
                                   /\ heap'[Ids(order)[k]].files = Named(order[k])
        /\ \A o \in DOMAIN heap' :
             o \in DOMAIN heap \/ \E k \in DOMAIN order : o = Ids(order)[k]
        /\ contexts' = contexts \o [k \in DOMAIN order |->
                                      Named(order[k]) \X {Ids(order)[k]}]
  BY EnterStep DEF IInv
<1> DEFINE m == Len(heap)
           n == Cardinality(Kept)
           C == SUBSET (File \X DOMAIN heap')
           new == [k \in DOMAIN order |-> Named(order[k]) \X {Ids(order)[k]}]
<1>2. m \in Nat /\ n \in Nat /\ DOMAIN heap = 1..m /\ DOMAIN order = 1..n
  BY HeapFacts, OrderFacts DEF IInv, Typed
<1>3. contexts \in [1..m -> C]
  <2>1. contexts \in [1..m -> SUBSET (File \X DOMAIN heap)]
    BY <1>2 DEF IInv, Typed, TypeOK
  <2>2. SUBSET (File \X DOMAIN heap) \subseteq C
    BY <1>1
  <2> QED BY <2>1, <2>2
<1>4. new \in [1..n -> C]
  <2>1. ASSUME NEW k \in 1..n
        PROVE  Named(order[k]) \X {Ids(order)[k]} \in C
    <3>1. Named(order[k]) \subseteq File
      BY DEF Named, IInv, Typed, TypeOK
    <3>2. Ids(order)[k] \in DOMAIN heap'
      BY <1>1
    <3> QED BY <3>1, <3>2
  <2> QED BY <1>2, <2>1
<1>5. contexts' = contexts \o new
  BY <1>1
<1>6. \A k \in 1..n : new[k] = Named(order[k]) \X {Ids(order)[k]}
  BY <1>2
<1> HIDE DEF new, C, m, n
<1>7. /\ \A i \in 1..m : contexts'[i] = contexts[i]
      /\ \A i \in 1..n : contexts'[m + i] = new[i]
  BY ONLY SMTT(30), <1>2, <1>3, <1>4, <1>5, GrowFacts
<1>8. ASSUME NEW k \in DOMAIN order
      PROVE  Held(contexts', Ids(order)[k]) = heap'[Ids(order)[k]].files
  <2>1. contexts'[Ids(order)[k]] = Named(order[k]) \X {Ids(order)[k]}
    BY ZenonT(40), <1>1, <1>2, <1>6, <1>7 DEF m
  <2>2. {d[1] : d \in Named(order[k]) \X {Ids(order)[k]}} = Named(order[k])
    BY PairedWithOne
  <2> QED BY <1>1, <2>1, <2>2 DEF Held
<1>9. ASSUME NEW k \in DOMAIN order
      PROVE  \E i \in DOMAIN stack'[Len(stack) + 1].packages :
               stack'[Len(stack) + 1].packages[i] = Ids(order)[k]
  BY <1>1, <1>2 DEF NewFrame, n
<1>10. \A o \in DOMAIN heap : contexts'[o] = contexts[o]
  BY <1>2, <1>7
<1>11. ASSUME NEW o \in DOMAIN heap', o \notin DOMAIN heap
       PROVE  /\ Held(contexts', o) = heap'[o].files
              /\ \E i \in DOMAIN stack'[Len(stack) + 1].packages :
                   stack'[Len(stack) + 1].packages[i] = o
  <2>1. PICK k \in DOMAIN order : o = Ids(order)[k]
    BY <1>1, <1>11
  <2> QED BY <1>8, <1>9, <2>1
<1> QED BY <1>1, <1>10, <1>11

(* An import adds the files of the package to the context at hand.         *)
LEMMA ImportHeld ==
  ASSUME IInv, Tidy(tree), TidyInv, NEW n \in Name, PrecheckImport(n)
  PROVE  /\ \A o \in DOMAIN heap : Held(contexts, o) \subseteq Held(contexts', o)
         /\ FilesOf(tree, n) \subseteq Held(contexts', Top.packages[Top.i])
<1>1. PICK o \in DOMAIN heap : o = Top.packages[Top.i]
  BY CurrentInUse DEF PrecheckImport
<1>2. PICK from \in DOMAIN heap : from = packages[n]
  BY DEF PrecheckImport, IInv, Typed, TypeOK
<1>3. contexts \in [DOMAIN heap -> SUBSET (File \X DOMAIN heap)]
  BY DEF IInv, Typed, TypeOK
<1>4. contexts' = [contexts EXCEPT
                     ![o] = @ \cup {d \in contexts[from] : d[1] \notin Held(contexts, o)}]
  BY <1>1, <1>2 DEF PrecheckImport, Held
<1>5. PICK new : new = {d \in contexts[from] : d[1] \notin Held(contexts, o)}
  OBVIOUS
<1>6. contexts'[o] = contexts[o] \cup new
  BY <1>3, <1>4, <1>5
<1>7. \A p \in DOMAIN heap : contexts[p] \subseteq contexts'[p]
  <2>1. \A p \in DOMAIN heap : p # o => contexts'[p] = contexts[p]
    BY <1>3, <1>4
  <2> QED BY <1>6, <2>1
<1>8. \A p \in DOMAIN heap : Held(contexts, p) \subseteq Held(contexts', p)
  BY <1>7 DEF Held
<1>9. heap[from].name = n /\ FilesOf(tree, n) \subseteq Held(contexts, from)
  BY <1>2 DEF TidyInv, Entitled, Visible, PrecheckImport
<1>10. ASSUME NEW f \in FilesOf(tree, n)
       PROVE  f \in Held(contexts', o)
  <2>1. CASE f \in Held(contexts, o)
    BY <1>8, <2>1
  <2>2. CASE f \notin Held(contexts, o)
    <3>1. PICK d \in contexts[from] : d[1] = f
      BY <1>9 DEF Held
    <3>2. d \in new
      BY <1>5, <2>2, <3>1
    <3> QED BY <1>6, <3>1, <3>2 DEF Held
  <2> QED BY <2>1, <2>2
<1> QED BY <1>1, <1>8, <1>10

(* Contexts only grow.                                                     *)
LEMMA HeldGrows ==
  ASSUME IInv, Tidy(tree), TidyInv, [Next]_vars
  PROVE  \A o \in DOMAIN heap : /\ o \in DOMAIN heap' /\ heap'[o] = heap[o]
                                /\ Held(contexts, o) \subseteq Held(contexts', o)
<1>1. CASE EnterStage1
  BY <1>1, EnterHeld DEF Held
<1>2. CASE ~EnterStage1
  <2>1. heap' = heap
    BY <1>2, Shrinks
  <2>2. CASE \E n \in Name : PrecheckImport(n)
    BY <2>1, <2>2, ImportHeld
  <2>3. CASE contexts' = contexts
    BY <2>1, <2>3
  <2>4. contexts' = contexts \/ \E n \in Name : PrecheckImport(n)
    BY <1>2 DEF Next, DetectCycle, ScanUnresolved, ScanCalls, ScanLeaf, FinishScan,
                BeginPrecheck, PrecheckMissing, FinishPrecheck, LeaveStage1,
                TypeCheckPackage, BeginCodegen, Codegen, vars, progress
  <2> QED BY <2>2, <2>3, <2>4
<1> QED BY <1>1, <1>2

(* Who is still to be prechecked.                                          *)
LEMMA AheadStep ==
  ASSUME IInv, Tidy(tree), TidyInv, [Next]_vars, ~EnterStage1, NEW o \in DOMAIN heap,
         Ahead(stack, o)
  PROVE  Ahead(stack', o) \/ HasImports(tree, heap, contexts', o)
<1>1. PICK k \in DOMAIN stack : \E i \in DOMAIN stack[k].packages :
        stack[k].packages[i] = o /\ (stack[k].phase = "precheck" => i >= stack[k].i)
  BY DEF Ahead
<1>2. PICK i \in DOMAIN stack[k].packages :
        stack[k].packages[i] = o /\ (stack[k].phase = "precheck" => i >= stack[k].i)
  BY <1>1
<1>3. /\ stack \in Seq(Frame) /\ DOMAIN stack = 1..Len(stack) /\ Len(stack) \in Nat
      /\ i \in 1..Len(stack[k].packages) /\ stack[k].i \in Nat
      /\ Len(stack[k].packages) \in Nat
  <2>1. stack \in Seq(Frame) /\ DOMAIN stack = 1..Len(stack) /\ Len(stack) \in Nat
    BY DEF IInv, Typed, TypeOK
  <2>2. stack[k] \in Frame
    BY <2>1
  <2> QED BY <2>1, <2>2 DEF Frame
<1>4. CASE k \in DOMAIN stack' /\ stack'[k] = stack[k]
  BY <1>2, <1>4 DEF Ahead
<1>5. CASE TopChanges
  <2>1. /\ DOMAIN stack' = DOMAIN stack
        /\ Top = stack[Len(stack)] /\ Top' = stack'[Len(stack)]
        /\ \A j \in 1..(Len(stack) - 1) : stack'[j] = stack[j]
        /\ stack'[Len(stack)].packages = Top.packages
        /\ ScanCalls => Top'.phase = Top.phase
        /\ ScanLeaf => Top'.phase = Top.phase
        /\ FinishScan \/ FinishPrecheck => Top'.phase = Top.phase /\ Top'.i = Top.i + 1
        /\ BeginPrecheck => Top'.phase = "precheck" /\ Top'.i = 1
        /\ \A n \in Name : PrecheckImport(n) => Top'.phase = Top.phase /\ Top'.i = Top.i
    BY <1>5, TopFields
  <2>2. CASE k # Len(stack)
    <3>1. k \in 1..(Len(stack) - 1)
      <4>1. \A m \in Nat : \A j \in 1..m : j # m => j \in 1..(m - 1)
        OBVIOUS
      <4> QED BY <1>3, <2>2, <4>1
    <3> QED BY <1>4, <2>1, <3>1
  <2>3. CASE k = Len(stack)
    <3>1. /\ i \in DOMAIN stack'[k].packages /\ stack'[k].packages[i] = o
          /\ k \in DOMAIN stack' /\ Top = stack[k] /\ Top' = stack'[k]
          /\ i \in Nat /\ i >= 1
      BY <1>2, <1>3, <2>1, <2>3
    <3>2. CASE ScanCalls \/ ScanLeaf \/ FinishScan
      <4>1. Top.phase = "scan"
        BY <3>2, CurrentSound DEF ScanCalls, ScanLeaf, Scanning
      <4> QED BY <2>1, <3>1, <3>2, <4>1 DEF Ahead
    <3>3. CASE BeginPrecheck
      BY <2>1, <3>1, <3>3 DEF Ahead
    <3>4. CASE \E n \in Name : PrecheckImport(n)
      BY <1>2, <2>1, <3>1, <3>4 DEF Ahead
    <3>5. CASE FinishPrecheck
      <4>1. Top.phase = "precheck" /\ ImportsOf(Current) \subseteq Top.names
            /\ Prechecking /\ contexts' = contexts
        BY <3>5 DEF FinishPrecheck, Prechecking
      <4>2. CASE i = Top.i
        <5>1. Current = heap[o]
          BY <1>2, <3>1, <4>2 DEF Current
        <5>2. PackageImports(tree, heap[o].name) \subseteq stack[k].names
          BY <3>1, <4>1, <5>1, CurrentInUse
        <5>3. \A n \in stack[k].names : FilesOf(tree, n) \subseteq Held(contexts, o)
          BY <1>2, <3>1, <4>1, <4>2 DEF TidyInv, Copied
        <5> QED BY <4>1, <5>2, <5>3 DEF HasImports
      <4>3. CASE i # Top.i
        <5>1. i >= Top.i + 1
          <6>1. i >= Top.i /\ i \in Nat /\ Top.i \in Nat
            BY <1>2, <1>3, <3>1, <4>1
          <6> QED BY <4>3, <6>1
        <5> QED BY <2>1, <3>1, <3>5, <5>1 DEF Ahead
      <4> QED BY <4>2, <4>3
    <3> QED BY <1>5, <3>2, <3>3, <3>4, <3>5 DEF TopChanges
  <2> QED BY <2>2, <2>3
<1>6. CASE LeaveStage1
  <2>1. /\ stack' \in Seq(Frame)
        /\ Len(stack) \in Nat \ {0} /\ Len(stack') = Len(stack) - 1
        /\ \A j \in 1..(Len(stack) - 1) : stack'[j] = stack[j]
    BY <1>6, PopStep DEF IInv
  <2>2. CASE k # Len(stack)
    <3>1. k \in 1..(Len(stack) - 1)
      <4>1. \A m \in Nat : \A j \in 1..m : j # m => j \in 1..(m - 1)
        OBVIOUS
      <4> QED BY <1>3, <2>2, <4>1
    <3> QED BY <1>4, <2>1, <3>1
  <2>3. CASE k = Len(stack)
    <3>1. stack[k].phase = "precheck" /\ stack[k].i > Len(stack[k].packages)
      BY <1>6, <2>3 DEF LeaveStage1, Top
    <3>2. i >= stack[k].i
      BY <1>2, <3>1
    <3> QED BY <1>3, <3>1, <3>2
  <2> QED BY <2>2, <2>3
<1>7. CASE Rest
  BY <1>4, <1>7, TypedRest DEF IInv
<1>8. CASE UNCHANGED vars
  BY <1>4, <1>8 DEF vars, progress
<1> QED BY <1>5, <1>6, <1>7, <1>8 DEF Next, TopChanges, Rest

(* Every context holds its own files, and those of its imports in time.    *)
LEMMA VisibleStep ==
  ASSUME IInv, Tidy(tree), TidyInv, [Next]_vars
  PROVE  Visible(tree', heap', stack', contexts')
<1>1. \A o \in DOMAIN heap : /\ o \in DOMAIN heap' /\ heap'[o] = heap[o]
                             /\ Held(contexts, o) \subseteq Held(contexts', o)
  BY HeldGrows
<1>2. tree' = tree
  BY Shrinks, EnterNames
<1>3. ASSUME NEW o \in DOMAIN heap
      PROVE  /\ FilesOf(tree, heap'[o].name) \subseteq Held(contexts', o)
             /\ HasImports(tree, heap, contexts, o) => HasImports(tree, heap', contexts', o)
             /\ HasImports(tree, heap, contexts', o) => HasImports(tree, heap', contexts', o)
             /\ HasImports(tree, heap, contexts, o) \/ Ahead(stack, o)
  BY <1>1 DEF TidyInv, Visible, HasImports
<1>4. CASE EnterStage1
  <2>1. \A o \in DOMAIN heap' : o \in DOMAIN heap \/
          /\ Held(contexts', o) = heap'[o].files
          /\ \E i \in DOMAIN stack'[Len(stack) + 1].packages :
               stack'[Len(stack) + 1].packages[i] = o
    BY <1>4, EnterHeld
  <2>2. /\ Len(stack) \in Nat /\ DOMAIN stack = 1..Len(stack)
        /\ DOMAIN stack' = 1..(Len(stack) + 1)
        /\ \A k \in 1..Len(stack) : stack'[k] = stack[k]
        /\ stack'[Len(stack) + 1].phase = "scan"
    BY <1>4, EnterNames
  <2>3. ASSUME NEW o \in DOMAIN heap
        PROVE  Ahead(stack, o) => Ahead(stack', o)
    BY <2>2 DEF Ahead
  <2>4. ASSUME NEW o \in DOMAIN heap', o \notin DOMAIN heap
        PROVE  /\ FilesOf(tree, heap'[o].name) \subseteq Held(contexts', o)
               /\ Ahead(stack', o)
    <3>1. heap'[o].files = FilesOf(tree, heap'[o].name)
      BY <1>2, WholeStep DEF Whole
    <3>2. Len(stack) + 1 \in DOMAIN stack'
      BY <2>2
    <3> QED BY <2>1, <2>2, <2>4, <3>1, <3>2 DEF Ahead
  <2> QED BY <1>2, <1>3, <2>3, <2>4 DEF Visible
<1>5. CASE ~EnterStage1
  <2>1. heap' = heap
    BY <1>5, Shrinks
  <2>2. ASSUME NEW o \in DOMAIN heap
        PROVE  /\ FilesOf(tree, heap'[o].name) \subseteq Held(contexts', o)
               /\ HasImports(tree, heap', contexts', o) \/ Ahead(stack', o)
    BY <1>3, <1>5, AheadStep
  <2> QED BY <1>2, <2>1, <2>2 DEF Visible
<1> QED BY <1>4, <1>5

(* The imports a precheck is over are held.                                *)
LEMMA CopiedStep ==
  ASSUME IInv, Tidy(tree), TidyInv, [Next]_vars
  PROVE  Copied(tree', stack', contexts')
<1>1. \A o \in DOMAIN heap : Held(contexts, o) \subseteq Held(contexts', o)
  BY HeldGrows
<1>2. tree' = tree
  BY Shrinks, EnterNames
<1>3. stack \in Seq(Frame) /\ DOMAIN stack = 1..Len(stack) /\ Len(stack) \in Nat
  BY DEF IInv, Typed, TypeOK
<1>4. ASSUME NEW k \in DOMAIN stack, stack[k].i \in DOMAIN stack[k].packages
      PROVE  stack[k].packages[stack[k].i] \in DOMAIN heap
  <2>1. stack[k].packages \in Seq(DOMAIN heap)
    BY DEF IInv, Typed, FramesPoint
  <2> QED BY <1>4, <2>1
<1> SUFFICES ASSUME NEW k \in DOMAIN stack', stack'[k].phase = "precheck",
                    stack'[k].i \in DOMAIN stack'[k].packages,
                    NEW n \in stack'[k].names
             PROVE  FilesOf(tree, n) \subseteq
                      Held(contexts', stack'[k].packages[stack'[k].i])
  BY <1>2 DEF Copied
<1>5. CASE k \in DOMAIN stack /\ stack'[k] = stack[k]
  BY <1>1, <1>4, <1>5 DEF TidyInv, Copied
<1>6. CASE EnterStage1
  <2>1. /\ DOMAIN stack' = 1..(Len(stack) + 1)
        /\ \A j \in 1..Len(stack) : stack'[j] = stack[j]
        /\ stack'[Len(stack) + 1].phase = "scan"
    BY <1>6, EnterNames
  <2>2. k \in 1..Len(stack)
    <3>1. k # Len(stack) + 1
      BY <2>1
    <3> QED BY <1>3, <2>1, <3>1
  <2> QED BY <1>3, <1>5, <2>1, <2>2
<1>7. CASE TopChanges
  <2>1. /\ DOMAIN stack' = DOMAIN stack
        /\ Top = stack[Len(stack)] /\ Top' = stack'[Len(stack)]
        /\ \A j \in 1..(Len(stack) - 1) : stack'[j] = stack[j]
        /\ stack'[Len(stack)].packages = Top.packages
        /\ ScanCalls \/ ScanLeaf => Top'.phase = Top.phase
        /\ FinishScan \/ FinishPrecheck => Top'.phase = Top.phase /\ Top'.names = {}
        /\ BeginPrecheck => Top'.names = Top.names
        /\ \A m \in Name : PrecheckImport(m) =>
             /\ Top'.phase = Top.phase /\ Top'.i = Top.i
             /\ Top'.names = Top.names \cup {m}
    BY <1>7, TopFields
  <2>2. CASE k # Len(stack)
    <3>1. k \in 1..(Len(stack) - 1)
      <4>1. \A m \in Nat : \A j \in 1..m : j # m => j \in 1..(m - 1)
        OBVIOUS
      <4> QED BY <1>3, <2>1, <2>2, <4>1
    <3> QED BY <1>5, <2>1, <3>1
  <2>3. CASE k = Len(stack)
    <3>1. Top' = stack'[k] /\ Top = stack[k] /\ k \in DOMAIN stack
      BY <2>1, <2>3
    <3>2. Top'.phase = "precheck" /\ n \in Top'.names
      BY <3>1
    <3>3. CASE ScanCalls \/ ScanLeaf
      <4>1. Top.phase = "scan"
        BY <3>3 DEF ScanCalls, ScanLeaf, Scanning
      <4> QED BY <2>1, <3>2, <3>3, <4>1
    <3>4. CASE FinishScan \/ FinishPrecheck
      BY <2>1, <3>2, <3>4
    <3>5. CASE BeginPrecheck
      <4>1. Top.names = {}
        BY <3>5 DEF BeginPrecheck, TidyInv, Calls
      <4> QED BY <2>1, <3>2, <3>5, <4>1
    <3>6. CASE \E m \in Name : PrecheckImport(m)
      <4>1. PICK m \in Name : PrecheckImport(m)
        BY <3>6
      <4>2. Top'.i = Top.i /\ Top'.names = Top.names \cup {m} /\ Top.phase = "precheck"
        BY <2>1, <4>1 DEF PrecheckImport, Prechecking
      <4>3. PICK o \in DOMAIN heap : o = stack[k].packages[stack[k].i]
        BY <1>4, <2>1, <2>3, <3>1, <4>2
      <4>4. stack'[k].packages[stack'[k].i] = o /\ Top.packages[Top.i] = o
        BY <2>1, <2>3, <3>1, <4>2, <4>3
      <4>5. CASE n = m
        BY <4>1, <4>4, <4>5, ImportHeld
      <4>6. CASE n # m
        <5>1. n \in stack[k].names
          BY <3>1, <3>2, <4>2, <4>6
        <5>2. stack[k].i \in DOMAIN stack[k].packages /\ stack[k].phase = "precheck"
          BY <2>1, <2>3, <3>1, <4>2
        <5>3. FilesOf(tree, n) \subseteq Held(contexts, o)
          BY <3>1, <4>3, <5>1, <5>2 DEF TidyInv, Copied
        <5> QED BY <1>1, <4>4, <5>3
      <4> QED BY <4>5, <4>6
    <3> QED BY <1>7, <3>3, <3>4, <3>5, <3>6 DEF TopChanges
  <2> QED BY <2>2, <2>3
<1>8. CASE LeaveStage1
  <2>1. /\ stack' \in Seq(Frame)
        /\ Len(stack) \in Nat \ {0} /\ Len(stack') = Len(stack) - 1
        /\ \A j \in 1..(Len(stack) - 1) : stack'[j] = stack[j]
    BY <1>8, PopStep DEF IInv
  <2>2. k \in 1..(Len(stack) - 1) /\ k \in DOMAIN stack
    BY <1>3, <2>1
  <2> QED BY <1>5, <2>1, <2>2
<1>9. CASE Rest
  BY <1>5, <1>9, TypedRest DEF IInv
<1>10. CASE UNCHANGED vars
  BY <1>5, <1>10 DEF vars, progress
<1> QED BY <1>6, <1>7, <1>8, <1>9, <1>10 DEF Next, TopChanges, Rest

-----------------------------------------------------------------------------
(* Once the first activation is entered, a name gets another object only   *)
(* if a package in use imports it.                                         *)
LEMMA RegistryMoves ==
  ASSUME IInv, Tidy(tree), TidyInv, [Next]_vars, ~(pc = "enter" /\ stack = <<>>),
         NEW n \in Name, packages'[n] # packages[n]
  PROVE  \E m \in InUse(tree) : n \in PackageImports(tree, m)
<1>1. Len(stack) \in Nat /\ DOMAIN stack = 1..Len(stack)
  BY DEF IInv, Typed, TypeOK
<1>2. ASSUME Len(stack) \in Waiting, stack # <<>>
      PROVE  FollowedIn(heap, stack, Len(stack)) \in InUse(tree)
  <2>1. /\ stack[Len(stack)].i \in DOMAIN stack[Len(stack)].packages
        /\ Len(stack) \in DOMAIN stack
    BY <1>1, <1>2 DEF IInv, Typed, Poised
  <2> QED BY <2>1 DEF TidyInv, Reached, FollowedIn
<1>3. CASE EnterStage1
  <2>1. pc = "enter" /\ stack # <<>> /\ Len(stack) \in Waiting
    BY <1>1, <1>3 DEF EnterStage1, Waiting
  <2>2. n \in Organized
    <3>1. PICK order \in Orders(Kept) : packages' = Register(order)
      BY <1>3, EnterStep DEF IInv
    <3>2. n \in Kept
      BY <3>1 DEF Register
    <3> QED BY <3>2 DEF Kept
  <2>3. n \in PackageImports(tree, FollowedIn(heap, stack, Len(stack)))
    BY <2>1, <2>2, AskedFacts DEF TidyInv
  <2> QED BY <1>2, <2>1, <2>3
<1>4. CASE FinishScan
  <2>1. pc = "return" /\ stack # <<>> /\ Len(stack) \in Waiting /\ Len(stack) \in Followers
    BY <1>1, <1>4 DEF FinishScan, Waiting, Followers
  <2>2. n \in Top.names
    BY <1>4 DEF FinishScan
  <2>3. Top.names \subseteq PackageImports(tree, FollowedIn(heap, stack, Len(stack)))
    BY <2>1 DEF TidyInv, Calls, Follow, Top
  <2> QED BY <1>2, <2>1, <2>2, <2>3
<1> QED
  BY <1>3, <1>4 DEF Next, DetectCycle, ScanUnresolved, ScanCalls, ScanLeaf, BeginPrecheck,
                    PrecheckImport, PrecheckMissing, FinishPrecheck, LeaveStage1,
                    TypeCheckPackage, BeginCodegen, Codegen, vars, progress

(* So the objects to be compiled stay registered, or imported.             *)
LEMMA FreshStays ==
  ASSUME IInv, Tidy(tree), TidyInv, [Next]_vars, ~(pc = "enter" /\ stack = <<>>),
         NEW o \in DOMAIN heap, Fresh(tree, heap, packages, o)
  PROVE  Fresh(tree', heap', packages', o)
<1>1. tree' = tree /\ heap'[o] = heap[o]
  BY Shrinks, EnterNames
<1>2. heap[o].name \in Name
  BY HeapFacts DEF IInv, Typed
<1>3. CASE packages'[heap[o].name] = packages[heap[o].name]
  BY <1>1, <1>3 DEF Fresh
<1>4. CASE packages'[heap[o].name] # packages[heap[o].name]
  BY <1>1, <1>2, <1>4, RegistryMoves DEF Fresh
<1> QED BY <1>3, <1>4

(* The objects of the first activation are registered when it is entered.  *)
LEMMA FirstRegistered ==
  ASSUME IInv, EnterStage1, stack = <<>>, NEW k \in DOMAIN stack'[1].packages
  PROVE  packages'[heap'[stack'[1].packages[k]].name] = stack'[1].packages[k]
<1>1. PICK order \in Orders(Kept) :
        /\ packages' = Register(order)
        /\ stack'[Len(stack) + 1] = NewFrame(order)
        /\ Ids(order) \in [1..Cardinality(Kept) -> DOMAIN heap']
        /\ \A j \in DOMAIN order : heap'[Ids(order)[j]].name = order[j]
        /\ \A j \in DOMAIN order : Ids(order)[j] = Len(heap) + j
  BY EnterStep DEF IInv
<1>2. /\ Kept \subseteq Name
      /\ order \in [1..Cardinality(Kept) -> Kept]
      /\ \A i, j \in DOMAIN order : order[i] = order[j] => i = j
  BY OrderFacts DEF IInv
<1>3. stack'[1].packages = Ids(order)
  BY <1>1 DEF NewFrame
<1>4. k \in DOMAIN order
  BY <1>1, <1>2, <1>3
<1>5. PICK n \in Kept : n = order[k]
  BY <1>2, <1>4
<1>6. (CHOOSE j \in DOMAIN order : order[j] = n) = k
  BY <1>2, <1>4, <1>5
<1>7. packages'[n] = Len(heap) + CHOOSE j \in DOMAIN order : order[j] = n
  BY <1>1, <1>2, <1>5 DEF Register
<1>8. Ids(order)[k] = Len(heap) + k /\ heap'[Ids(order)[k]].name = n
  BY <1>1, <1>4, <1>5
<1> QED BY <1>3, <1>6, <1>7, <1>8

(* The packages given stay registered as the objects to be compiled.       *)
LEMMA CompiledStep ==
  ASSUME IInv, Tidy(tree), TidyInv, [Next]_vars
  PROVE  Compiled'
<1>1. Len(stack) \in Nat /\ DOMAIN stack = 1..Len(stack)
  BY DEF IInv, Typed, TypeOK
<1>2. ASSUME stack # <<>>, NEW k \in DOMAIN stack[1].packages
      PROVE  Fresh(tree', heap', packages', stack[1].packages[k])
  <2>1. stack[1].packages[k] \in DOMAIN heap
    <3>1. stack[1].packages \in Seq(DOMAIN heap)
      BY <1>1, <1>2 DEF IInv, Typed, FramesPoint
    <3> QED BY <3>1
  <2> QED BY <1>2, <2>1, FreshStays DEF TidyInv, Compiled
<1>3. ASSUME stack' # <<>>, NEW k \in DOMAIN stack'[1].packages
      PROVE  Fresh(tree', heap', packages', stack'[1].packages[k])
  <2>1. CASE stack = <<>>
    <3>1. EnterStage1
      <4>1. ASSUME ~EnterStage1
            PROVE  FALSE
        <5>1. DOMAIN stack' \subseteq DOMAIN stack
          BY <4>1, Shrinks DEF Shrunk
        <5>2. 1 \in DOMAIN stack'
          <6>1. stack' \in Seq(Frame)
            BY NextIInv DEF IInv, Typed, TypeOK
          <6> QED BY <1>3, <6>1
        <5> QED BY <1>1, <2>1, <5>1, <5>2
      <4> QED BY <4>1
    <3> QED BY <1>3, <2>1, <3>1, FirstRegistered DEF Fresh
  <2>2. CASE stack # <<>>
    <3>1. stack'[1].packages = stack[1].packages
      <4>1. CASE EnterStage1
        BY <1>1, <2>2, <4>1, EnterNames
      <4>2. CASE ~EnterStage1
        <5>1. stack' \in Seq(Frame)
          BY NextIInv DEF IInv, Typed, TypeOK
        <5>2. 1 \in DOMAIN stack'
          BY <1>3, <5>1
        <5> QED BY <4>2, <5>2, Shrinks DEF Shrunk
      <4> QED BY <4>1, <4>2
    <3> QED BY <1>2, <1>3, <2>2, <3>1
  <2> QED BY <2>1, <2>2
<1>4. ASSUME pc' \in Analysed
      PROVE  /\ \A k \in DOMAIN returned' : Fresh(tree', heap', packages', returned'[k])
             /\ pc' \in {"codegen", "done"} => Registered' \subseteq checked'
  <2>1. CASE LeaveStage1
    <3>1. /\ pc' = IF Len(stack) = 1 THEN "typecheck" ELSE "return"
          /\ returned' = Top.packages /\ stack # <<>>
      BY <2>1 DEF LeaveStage1, IInv, Typed, Poised
    <3>2. pc' = "typecheck" /\ Len(stack) = 1
      BY <1>4, <3>1 DEF Analysed
    <3> QED BY <1>2, <3>1, <3>2 DEF Top
  <2>2. ASSUME pc \in Analysed, packages' = packages, returned' = returned
        PROVE  \A k \in DOMAIN returned' : Fresh(tree', heap', packages', returned'[k])
    <3>1. pc # "enter"
      BY <2>2 DEF Analysed
    <3>2. \A k \in DOMAIN returned : returned[k] \in DOMAIN heap
      BY DEF IInv, Typed, TypeOK
    <3> QED BY <2>2, <3>1, <3>2, FreshStays DEF TidyInv, Compiled
  <2>3. CASE \E o \in Registered : TypeCheckPackage(o)
    <3>1. /\ pc = "typecheck" /\ pc' = "typecheck"
          /\ packages' = packages /\ returned' = returned
      BY <2>3 DEF TypeCheckPackage, progress
    <3> QED BY <2>2, <3>1 DEF Analysed
  <2>4. CASE BeginCodegen \/ Codegen \/ UNCHANGED vars
    <3>1. /\ packages' = packages /\ returned' = returned /\ checked' = checked
          /\ Registered' = Registered
      BY <2>4 DEF BeginCodegen, Codegen, vars, progress, backend, Registered
    <3>2. pc \in Analysed
      BY <1>4, <2>4 DEF BeginCodegen, Codegen, vars, Analysed
    <3>3. pc' \in {"codegen", "done"} => Registered \subseteq checked
      BY <2>4 DEF BeginCodegen, Codegen, vars, TidyInv, Compiled
    <3> QED BY <2>2, <3>1, <3>2, <3>3
  <2>5. CASE \/ EnterStage1 \/ DetectCycle \/ ScanUnresolved \/ TopChanges
             \/ \E n \in Name : PrecheckMissing(n)
    <3>1. pc' \in {"enter", "loop", "cyclic", "unresolved", "missing"}
      BY <2>5 DEF EnterStage1, DetectCycle, ScanUnresolved, PrecheckMissing, TopChanges,
                  ScanCalls, ScanLeaf, Scanning, FinishScan, BeginPrecheck,
                  PrecheckImport, FinishPrecheck, Prechecking
    <3> QED BY <1>4, <3>1 DEF Analysed
  <2> QED BY <2>1, <2>3, <2>4, <2>5 DEF Next, TopChanges
<1>5. pc' \in {"codegen", "done"} => pc' \in Analysed
  BY DEF Analysed
<1> QED BY <1>3, <1>4, <1>5 DEF Compiled

-----------------------------------------------------------------------------
(* The invariant of tidy trees holds throughout.                           *)
LEMMA TidyInit == Init => TidyInv
<1> SUFFICES ASSUME Init PROVE TidyInv
  OBVIOUS
<1>1. /\ pc = "enter" /\ stack = <<>> /\ heap = <<>>
      /\ packages = [n \in Name |-> 0] /\ status = [n \in Name |-> "None"]
  BY DEF Init
<1>2. DOMAIN stack = {} /\ DOMAIN heap = {} /\ Followers = {}
  BY <1>1 DEF Followers
<1>3. Whole(tree, heap) /\ Entitled(heap, packages)
  BY <1>1, <1>2 DEF Whole, Entitled
<1>4. Calls
  BY <1>1, <1>2 DEF Calls, Follow
<1>5. /\ Reached(tree, heap, stack) /\ Scanned(tree, heap, stack, packages)
      /\ Behind(tree, heap, stack, packages) /\ Copied(tree, stack, contexts)
      /\ Visible(tree, heap, stack, contexts)
  BY <1>2 DEF Reached, Scanned, Behind, Copied, Visible
<1>6. Backed /\ Verdict /\ Compiled
  BY <1>1, <1>5 DEF Backed, Verdict, Compiled, Analysed
<1>7. Marks(tree, packages, status)
  BY <1>1 DEF Marks
<1> QED BY <1>3, <1>4, <1>5, <1>6, <1>7 DEF TidyInv

(* No step breaks it.                                                      *)
LEMMA TidyNext ==
  ASSUME IInv, Tidy(tree) => TidyInv, [Next]_vars
  PROVE  (Tidy(tree) => TidyInv)'
<1>1. tree' = tree
  BY Shrinks, EnterNames
<1> SUFFICES ASSUME Tidy(tree) PROVE TidyInv'
  BY <1>1
<1>2. Entitled(heap', packages')
  BY RegistryStep DEF TidyInv
<1>3. /\ Whole(tree', heap') /\ Calls' /\ Reached(tree', heap', stack')
      /\ Scanned(tree', heap', stack', packages') /\ Backed'
      /\ Marks(tree', packages', status') /\ Verdict'
      /\ Visible(tree', heap', stack', contexts')
      /\ Copied(tree', stack', contexts') /\ Compiled'
  BY WholeStep, CallsStep, ReachedStep, ScannedStep, BackedStep, MarksStep, VerdictStep,
     VisibleStep, CopiedStep, CompiledStep
<1> QED BY <1>2, <1>3 DEF TidyInv

(* What the theorems about tidy trees rest on.                             *)
THEOREM TidyInductive == Spec => [](IInv /\ (Tidy(tree) => TidyInv))
<1>1. Init => IInv /\ (Tidy(tree) => TidyInv)
  BY InitIInv, TidyInit
<1>2. (IInv /\ (Tidy(tree) => TidyInv)) /\ [Next]_vars
        => (IInv /\ (Tidy(tree) => TidyInv))'
  BY NextIInv, TidyNext
<1> QED BY <1>1, <1>2, PTL DEF Spec

(* When the analysis is through, all that is in use is grounded.           *)
LEMMA AnalysedIsGrounded ==
  ASSUME IInv, TidyInv, pc = "done"
  PROVE  ~HasImportCycle(tree) /\ ~HasUnresolvedImport(tree)
<1>1. tree \in Trees /\ AreGiven(tree, heap, returned)
  BY DEF IInv, Typed, TypeOK, FirstOnGiven
<1>2. \A k \in DOMAIN returned : heap[returned[k]].name \in Grounded(tree)
  BY DEF TidyInv, Verdict, Analysed
<1>3. {tree.package[f] : f \in tree.given} \subseteq Grounded(tree)
  BY <1>1, <1>2 DEF AreGiven
<1> QED BY <1>1, <1>3, GivenGrounded

(* In a tidy tree the cyclic imports are found, and no others reported.    *)
THEOREM CyclesAreFound == Spec => [](Tidy(tree) => CyclicIffImportCycle)
<1>1. IInv /\ (Tidy(tree) => TidyInv) => (Tidy(tree) => CyclicIffImportCycle)
  BY AnalysedIsGrounded DEF CyclicIffImportCycle, TidyInv, Verdict
<1> QED BY <1>1, TidyInductive, PTL

(* In a tidy tree each failure is the tree's, and none is passed over.     *)
THEOREM FailuresAreJustified == Spec => [](Tidy(tree) => FailureIsJustified)
<1>1. IInv /\ (Tidy(tree) => TidyInv) => (Tidy(tree) => FailureIsJustified)
  BY AnalysedIsGrounded DEF FailureIsJustified, TidyInv, Verdict
<1> QED BY <1>1, TidyInductive, PTL

(* In a tidy tree every object that is compiled or type checked has the    *)
(* declarations of the packages it imports.                                *)
THEOREM ImportsAreVisible == Spec => [](Tidy(tree) => ImportsVisible)
<1>1. ASSUME IInv, Tidy(tree), TidyInv, pc = "done",
             NEW o \in checked \cup Range(returned), NEW n \in ImportsOf(heap[o])
      PROVE  FilesOf(tree, n) \subseteq {d[1] : d \in contexts[o]}
  <2>1. o \in DOMAIN heap
    BY <1>1 DEF IInv, Typed, TypeOK, Range
  <2>2. ~Ahead(stack, o)
    BY <1>1 DEF IInv, Typed, Poised, Ahead
  <2>3. HasImports(tree, heap, contexts, o)
    BY <1>1, <2>1, <2>2 DEF TidyInv, Visible
  <2>4. n \in PackageImports(tree, heap[o].name)
    BY <1>1, <2>1, HeapFacts, ObjectFacts DEF IInv, Typed, TypeOK, TidyInv
  <2> QED BY <2>3, <2>4 DEF HasImports, Held
<1>2. IInv /\ (Tidy(tree) => TidyInv) => (Tidy(tree) => ImportsVisible)
  BY <1>1 DEF ImportsVisible
<1> QED BY <1>2, TidyInductive, PTL

(* In a tidy tree what is compiled was type checked as that very object,   *)
(* unless a package in use imports it.                                     *)
THEOREM CompiledWereChecked == Spec => [](Tidy(tree) => CompiledAreChecked)
<1>1. ASSUME IInv, Tidy(tree), TidyInv, pc = "done", NEW o \in Range(returned) \ checked
      PROVE  \E n \in InUse(tree) : heap[o].name \in PackageImports(tree, n)
  <2>1. PICK k \in DOMAIN returned : o = returned[k]
    BY <1>1 DEF Range
  <2>2. o \in DOMAIN heap
    BY <1>1 DEF IInv, Typed, TypeOK, Range
  <2>3. heap[o].name \in Name /\ DOMAIN heap = 1..Len(heap) /\ Len(heap) \in Nat
    BY <1>1, <2>2, HeapFacts DEF IInv, Typed
  <2>4. Fresh(tree, heap, packages, o) /\ Registered \subseteq checked
    BY <1>1, <2>1 DEF TidyInv, Compiled, Analysed
  <2>5. packages[heap[o].name] # o
    <3>1. o # 0
      BY <2>2, <2>3
    <3> QED BY <1>1, <2>3, <2>4, <3>1 DEF Registered
  <2> QED BY <2>4, <2>5 DEF Fresh
<1>2. IInv /\ (Tidy(tree) => TidyInv) => (Tidy(tree) => CompiledAreChecked)
  BY <1>1 DEF CompiledAreChecked
<1> QED BY <1>2, TidyInductive, PTL

=============================================================================
