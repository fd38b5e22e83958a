----------------------- MODULE DependencyGraph_proofs -----------------------
(***************************************************************************)
(* Proofs about DependencyGraph, for every set of nodes and every number   *)
(* of dependencies.                                                        *)
(***************************************************************************)
EXTENDS DependencyGraph, FiniteSetTheorems, WellFoundedInduction, TLAPS

(* The positions of x in the sequence s. *)
Occurrences(s, x) == {i \in DOMAIN s : s[i] = x}

(* _forward and _backward hold the same edges, equally often, and _all     *)
(* holds their ends.                                                       *)
GraphInv ==
  /\ \A m, n \in Node :
       Cardinality(Occurrences(forward[n], m)) =
         Cardinality(Occurrences(backward[m], n))
  /\ \A n \in Node : Range(forward[n]) \subseteq all
  /\ \A n \in Node : Range(backward[n]) \subseteq all
  /\ \A n \in Node : forward[n] # <<>> => n \in all

(* The parts of the sort's invariant: what the counters count, who is at   *)
(* zero, and that the result so far is sorted.                             *)
CountInv ==
  \A n \in Node :
    num_depend[n] = Cardinality(Unsorted(n)) + Cardinality(Owed(n))

ZeroInv == \A n \in all : num_depend[n] = 0 <=> n \in Range(ret) \cup Range(q)

OnceInv ==
  /\ Range(ret) \cup Range(q) \cup Range(depended) \subseteq all
  /\ Range(ret) \cap Range(q) = {}
  /\ \A i, j \in DOMAIN q : q[i] = q[j] => i = j
  /\ \A i, j \in DOMAIN ret : ret[i] = ret[j] => i = j

OrderInv ==
  \A j \in DOMAIN ret : \A m \in DependsOn(ret[j]) :
    \E i \in 1..(j - 1) : ret[i] = m

AnswerInv ==
  /\ pc \in {"sorted", "cyclic"} => Drained
  /\ pc = "sorted" => Pending = {}
  /\ pc = "cyclic" => Pending # {}

SortInv ==
  /\ pc # "idle" => CountInv /\ ZeroInv /\ OnceInv /\ OrderInv
  /\ AnswerInv
  /\ pc = "idle" => ret = <<>>

IInv == TypeOK /\ GraphInv /\ SortInv

-----------------------------------------------------------------------------
(* Sequences and their positions.                                          *)

(* A set of positions of a sequence can be counted, and its count is zero  *)
(* only when it is empty.                                                  *)
LEMMA PositionsFinite ==
  ASSUME NEW s \in Seq(Node), NEW T \in SUBSET DOMAIN s
  PROVE  /\ IsFiniteSet(T)
         /\ Cardinality(T) \in Nat
         /\ Cardinality(T) = 0 <=> T = {}
<1>1. IsFiniteSet(DOMAIN s)
  BY FS_Interval
<1>2. IsFiniteSet(T)
  BY <1>1, FS_Subset
<1>3. QED
  BY <1>2, FS_CardinalityType, FS_EmptySet

(* The empty sequence has no elements, at no positions.                    *)
LEMMA EmptyFacts ==
  Range(<<>>) = {} /\ \A m : Occurrences(<<>>, m) = {}
<1>1. DOMAIN <<>> = {}
  OBVIOUS
<1>2. QED
  BY <1>1, Zenon DEF Range, Occurrences

(* What Append adds to a sequence.                                         *)
LEMMA AppendFacts ==
  ASSUME NEW s \in Seq(Node), NEW x \in Node
  PROVE  /\ Append(s, x) \in Seq(Node)
         /\ DOMAIN Append(s, x) = DOMAIN s \cup {Len(s) + 1}
         /\ Len(s) + 1 \notin DOMAIN s
         /\ \A i \in DOMAIN s : Append(s, x)[i] = s[i]
         /\ Append(s, x)[Len(s) + 1] = x
         /\ Range(Append(s, x)) = Range(s) \cup {x}
<1>1. /\ Append(s, x) \in Seq(Node)
      /\ DOMAIN Append(s, x) = DOMAIN s \cup {Len(s) + 1}
      /\ Len(s) + 1 \notin DOMAIN s
      /\ \A i \in DOMAIN s : Append(s, x)[i] = s[i]
      /\ Append(s, x)[Len(s) + 1] = x
  OBVIOUS
<1>2. QED
  BY <1>1, ZenonT(40) DEF Range

(* Appending x adds one occurrence of x and none of anything else.         *)
LEMMA AppendOccurrences ==
  ASSUME NEW s \in Seq(Node), NEW x \in Node, NEW y
  PROVE  Cardinality(Occurrences(Append(s, x), y)) =
           Cardinality(Occurrences(s, y)) + (IF x = y THEN 1 ELSE 0)
<1>1. IsFiniteSet(Occurrences(s, y)) /\ Cardinality(Occurrences(s, y)) \in Nat
  BY PositionsFinite DEF Occurrences
<1>2. CASE x = y
  <2>1. Occurrences(Append(s, x), y) = Occurrences(s, y) \cup {Len(s) + 1}
    BY <1>2, AppendFacts DEF Occurrences
  <2>2. Len(s) + 1 \notin Occurrences(s, y)
    BY AppendFacts DEF Occurrences
  <2>3. QED
    BY <1>1, <1>2, <2>1, <2>2, FS_AddElement
<1>3. CASE x # y
  <2>1. Occurrences(Append(s, x), y) = Occurrences(s, y)
    BY <1>3, AppendFacts DEF Occurrences
  <2>2. QED
    BY <1>1, <1>3, <2>1
<1>4. QED
  BY <1>2, <1>3

(* Taking the front off a sequence without repetitions.                    *)
LEMMA TailFacts ==
  ASSUME NEW s \in Seq(Node), s # <<>>,
         \A i, j \in DOMAIN s : s[i] = s[j] => i = j
  PROVE  /\ Head(s) \in Node
         /\ Head(s) \in Range(s)
         /\ Tail(s) \in Seq(Node)
         /\ Range(Tail(s)) = Range(s) \ {Head(s)}
         /\ \A i, j \in DOMAIN Tail(s) : Tail(s)[i] = Tail(s)[j] => i = j
<1>1. /\ Head(s) \in Node /\ Tail(s) \in Seq(Node)
      /\ Head(s) = s[1] /\ 1 \in DOMAIN s
  OBVIOUS
<1>2. \A i \in DOMAIN Tail(s) : /\ i + 1 \in DOMAIN s
                                /\ i + 1 # 1
                                /\ Tail(s)[i] = s[i + 1]
  OBVIOUS
<1>3. \A i \in DOMAIN s : i # 1 => i - 1 \in DOMAIN Tail(s) /\ (i - 1) + 1 = i
  OBVIOUS
<1>4. Range(Tail(s)) \subseteq Range(s) \ {Head(s)}
  BY <1>1, <1>2 DEF Range
<1>5. Range(s) \ {Head(s)} \subseteq Range(Tail(s))
  <2>1. SUFFICES ASSUME NEW i \in DOMAIN s, s[i] # s[1]
                 PROVE  s[i] \in Range(Tail(s))
    BY <1>1 DEF Range
  <2>2. i - 1 \in DOMAIN Tail(s) /\ Tail(s)[i - 1] = s[i]
    BY <2>1, <1>2, <1>3
  <2>3. QED
    BY <2>2 DEF Range
<1>6. \A i, j \in DOMAIN Tail(s) : Tail(s)[i] = Tail(s)[j] => i = j
  OBVIOUS
<1>7. QED
  BY <1>1, <1>4, <1>5, <1>6 DEF Range

(* An order of a finite set of nodes lists each of its members once.       *)
LEMMA OrdersFacts ==
  ASSUME NEW S \in SUBSET Node, NEW o \in Orders(S)
  PROVE  /\ o \in Seq(Node)
         /\ Range(o) = S
         /\ \A i, j \in DOMAIN o : o[i] = o[j] => i = j
<1>1. Cardinality(S) \in Nat
  BY NodeAssumption, FS_Subset, FS_CardinalityType
<1>2. /\ o \in [1..Cardinality(S) -> S]
      /\ \A t \in S : \E i \in 1..Cardinality(S) : o[i] = t
      /\ \A i, j \in DOMAIN o : o[i] = o[j] => i = j
  BY DEF Orders, Bijection, Injection, Surjection, IsInjective
<1>3. o \in Seq(Node)
  BY <1>1, <1>2
<1>4. Range(o) = S
  BY <1>2 DEF Range
<1>5. QED
  BY <1>2, <1>3, <1>4

-----------------------------------------------------------------------------
(* Type correctness: the graph and the locals of the sort keep their       *)
(* types; in particular every queue element and every result is a node.    *)
LEMMA TypeInit == Init => TypeOK
BY DEF Init, TypeOK

(* Every step keeps the types.                                             *)
LEMMA TypeStep == TypeOK /\ [Next]_vars => TypeOK'
<1> SUFFICES ASSUME TypeOK, [Next]_vars
             PROVE  TypeOK'
  OBVIOUS
<1> USE DEF TypeOK
<1>1. ASSUME NEW m \in Node, NEW n \in Node, AddDependency(m, n)
      PROVE  TypeOK'
  BY <1>1 DEF AddDependency, sort
<1>2. CASE Clear
  BY <1>2 DEF Clear, sort
<1>3. CASE CountDependencies
  <2>1. q' \in Seq(Node)
    <3>1. {n \in all : NumDepended(n) = 0} \in SUBSET Node
      OBVIOUS
    <3>2. QED
      BY <1>3, <3>1, OrdersFacts DEF CountDependencies
  <2>2. num_depend' \in [Node -> Int]
    BY <1>3 DEF CountDependencies, NumDepended
  <2>3. QED
    BY <1>3, <2>1, <2>2 DEF CountDependencies, graph
<1>4. CASE PopFront
  BY SMTT(30), <1>4 DEF PopFront, graph
<1>5. CASE Decrement
  <2>1. depended[next] \in Node
    BY <1>5 DEF Decrement
  <2>2. num_depend' \in [Node -> Int] /\ q' \in Seq(Node)
    BY <1>5, <2>1 DEF Decrement
  <2>3. next' \in Nat \ {0}
    BY <1>5 DEF Decrement
  <2>4. UNCHANGED <<forward, backward, all, adds, pc, ret, depended, error_node>>
    BY <1>5 DEF Decrement, graph
  <2>5. QED
    BY <2>2, <2>3, <2>4
<1>6. CASE ReturnCyclic
  BY <1>6 DEF ReturnCyclic, Pending, graph
<1>7. CASE ReturnSorted
  BY <1>7 DEF ReturnSorted, graph, sort
<1>8. CASE TakeAnswer
  BY <1>8 DEF TakeAnswer, graph
<1>9. CASE UNCHANGED vars
  BY <1>9 DEF vars, graph, sort
<1>10. QED
  BY <1>1, <1>2, <1>3, <1>4, <1>5, <1>6, <1>7, <1>8, <1>9 DEF Next, SortStep

(* Every state of the graph and of the sort has its type (DependencyGraph, *)
(* TopologicalSort).                                                       *)
THEOREM TypeCorrect == Spec => []TypeOK
BY TypeInit, TypeStep, PTL DEF Spec

-----------------------------------------------------------------------------
(* The graph: recording a dependency changes both directions alike.        *)
LEMMA GraphInit == Init => GraphInv
BY EmptyFacts DEF Init, GraphInv

(* No later step breaks that.                                              *)
LEMMA GraphStep == TypeOK /\ GraphInv /\ [Next]_vars => GraphInv'
<1> SUFFICES ASSUME TypeOK, GraphInv, [Next]_vars
             PROVE  GraphInv'
  OBVIOUS
<1>1. ASSUME NEW m \in Node, NEW n \in Node, AddDependency(m, n)
      PROVE  GraphInv'
  <2>1. /\ \A k \in Node : forward[k] \in Seq(Node) /\ backward[k] \in Seq(Node)
        /\ \A k \in Node : forward'[k] = IF k = n THEN Append(forward[n], m)
                                                   ELSE forward[k]
        /\ \A k \in Node : backward'[k] = IF k = m THEN Append(backward[m], n)
                                                    ELSE backward[k]
        /\ all' = all \cup {m, n}
    BY <1>1 DEF AddDependency, TypeOK
  <2>2. ASSUME NEW a \in Node, NEW b \in Node
        PROVE  Cardinality(Occurrences(forward'[b], a)) =
                 Cardinality(Occurrences(backward'[a], b))
    <3>1. Cardinality(Occurrences(forward'[b], a)) =
            Cardinality(Occurrences(forward[b], a))
              + (IF b = n /\ a = m THEN 1 ELSE 0)
      <4>1. Cardinality(Occurrences(forward[b], a)) \in Nat
        BY <2>1, PositionsFinite DEF Occurrences
      <4>2. QED
        BY <2>1, <4>1, AppendOccurrences
    <3>2. Cardinality(Occurrences(backward'[a], b)) =
            Cardinality(Occurrences(backward[a], b))
              + (IF b = n /\ a = m THEN 1 ELSE 0)
      <4>1. Cardinality(Occurrences(backward[a], b)) \in Nat
        BY <2>1, PositionsFinite DEF Occurrences
      <4>2. QED
        BY <2>1, <4>1, AppendOccurrences
    <3>3. QED
      BY <3>1, <3>2 DEF GraphInv
  <2>3. \A k \in Node : /\ Range(forward'[k]) \subseteq all'
                        /\ Range(backward'[k]) \subseteq all'
    BY <2>1, AppendFacts DEF GraphInv
  <2>4. \A k \in Node : forward'[k] # <<>> => k \in all'
    BY <2>1 DEF GraphInv
  <2>5. QED
    BY <2>2, <2>3, <2>4 DEF GraphInv
<1>2. CASE Clear
  BY <1>2, EmptyFacts DEF Clear, GraphInv
<1>3. ASSUME UNCHANGED graph
      PROVE  GraphInv'
  BY <1>3 DEF graph, GraphInv
<1>4. QED
  BY <1>1, <1>2, <1>3 DEF Next, SortStep, CountDependencies, PopFront,
     Decrement, ReturnCyclic, ReturnSorted, TakeAnswer, vars

(* Disjoint finite sets are counted apart.                                 *)
LEMMA DisjointUnionCount ==
  ASSUME NEW S, NEW T, IsFiniteSet(S), IsFiniteSet(T), S \cap T = {}
  PROVE  Cardinality(S \cup T) = Cardinality(S) + Cardinality(T)
<1>1. Cardinality(S \cup T) =
        Cardinality(S) + Cardinality(T) - Cardinality(S \cap T)
  BY FS_Union
<1>2. Cardinality(S \cap T) = 0
  BY FS_EmptySet
<1>3. Cardinality(S) \in Nat /\ Cardinality(T) \in Nat
  BY FS_CardinalityType
<1>4. QED
  BY <1>1, <1>2, <1>3

-----------------------------------------------------------------------------
(* The sort.                                                               *)

(* The two sets a counter counts can be counted.                           *)
LEMMA CountFacts ==
  ASSUME TypeOK, NEW n \in Node
  PROVE  /\ IsFiniteSet(Unsorted(n))
         /\ Cardinality(Unsorted(n)) \in Nat
         /\ Cardinality(Unsorted(n)) = 0 <=> Unsorted(n) = {}
         /\ IsFiniteSet(Owed(n))
         /\ Cardinality(Owed(n)) \in Nat
         /\ Cardinality(Owed(n)) = 0 <=> Owed(n) = {}
<1>1. Unsorted(n) \in SUBSET DOMAIN forward[n] /\ forward[n] \in Seq(Node)
  BY DEF TypeOK, Unsorted
<1>2. Owed(n) \in SUBSET DOMAIN depended /\ depended \in Seq(Node)
  BY DEF TypeOK, Owed
<1>3. QED
  BY <1>1, <1>2, PositionsFinite

(* The first loop establishes the invariant.                               *)
LEMMA SortStart ==
  TypeOK /\ TypeOK' /\ GraphInv /\ CountDependencies => SortInv'
<1> SUFFICES ASSUME TypeOK, TypeOK', GraphInv, CountDependencies
             PROVE  SortInv'
  OBVIOUS
<1> DEFINE Free == {n \in all : NumDepended(n) = 0}
<1>1. /\ pc' = "sorting" /\ ret' = <<>> /\ depended' = <<>> /\ next' = 1
      /\ q' \in Orders(Free)
      /\ forward' = forward /\ all' = all
      /\ \A n \in Node :
           num_depend'[n] = IF n \in all THEN Len(forward[n]) ELSE 0
  BY DEF CountDependencies, graph, NumDepended
<1>2. Range(q') = Free /\ \A i, j \in DOMAIN q' : q'[i] = q'[j] => i = j
  <2>1. Free \in SUBSET Node
    BY DEF TypeOK
  <2>2. QED
    BY <1>1, <2>1, OrdersFacts
<1>3. CountInv'
  <2>1. SUFFICES ASSUME NEW n \in Node
                 PROVE  num_depend'[n] = Cardinality(Unsorted(n)')
                                           + Cardinality(Owed(n)')
    BY DEF CountInv
  <2>2. Cardinality(Unsorted(n)') = Len(forward[n])
    <3>1. Unsorted(n)' = DOMAIN forward[n]
      BY <1>1, EmptyFacts DEF Unsorted
    <3>2. DOMAIN forward[n] = 1..Len(forward[n]) /\ Len(forward[n]) \in Nat
      BY DEF TypeOK
    <3>3. QED
      BY <3>1, <3>2, FS_Interval
  <2>3. Owed(n)' = {}
    BY <1>1 DEF Owed
  <2>4. n \notin all => Len(forward[n]) = 0
    BY DEF GraphInv
  <2>5. Len(forward[n]) \in Nat
    BY DEF TypeOK
  <2>6. QED
    BY <1>1, <2>2, <2>3, <2>4, <2>5, FS_EmptySet
<1>4. ZeroInv'
  BY <1>1, <1>2, EmptyFacts DEF ZeroInv, NumDepended, TypeOK
<1>5. OnceInv'
  BY <1>1, <1>2, EmptyFacts DEF OnceInv
<1>6. OrderInv'
  BY <1>1 DEF OrderInv
<1>7. QED
  BY <1>1, <1>3, <1>4, <1>5, <1>6 DEF SortInv, AnswerInv

(* Popping a node: every edge to it moves from the unsorted dependencies   *)
(* of its dependents to the decrements owed to them.                       *)
LEMMA SortPop ==
  TypeOK /\ TypeOK' /\ GraphInv /\ SortInv /\ PopFront => SortInv'
<1> SUFFICES ASSUME TypeOK, TypeOK', GraphInv, SortInv, PopFront
             PROVE  SortInv'
  OBVIOUS
<1> DEFINE c == Head(q)
<1>1. /\ pc = "sorting" /\ pc' = "sorting" /\ q # <<>>
      /\ next > Len(depended)
      /\ q' = Tail(q) /\ ret' = Append(ret, c)
      /\ depended' = backward[c] /\ next' = 1
      /\ num_depend' = num_depend
      /\ forward' = forward /\ backward' = backward /\ all' = all
  BY DEF PopFront, graph
<1>2. CountInv /\ ZeroInv /\ OnceInv /\ OrderInv
  BY <1>1 DEF SortInv
<1>3. /\ c \in Node /\ c \in Range(q) /\ Range(q') = Range(q) \ {c}
      /\ \A i, j \in DOMAIN q' : q'[i] = q'[j] => i = j
  BY <1>1, <1>2, TailFacts DEF TypeOK, OnceInv
<1>4. /\ DOMAIN ret' = DOMAIN ret \cup {Len(ret) + 1}
      /\ DOMAIN ret = 1..Len(ret) /\ Len(ret) \in Nat
      /\ \A i \in DOMAIN ret : ret'[i] = ret[i]
      /\ ret'[Len(ret) + 1] = c
      /\ Range(ret') = Range(ret) \cup {c}
  <2>1. ret \in Seq(Node)
    BY DEF TypeOK
  <2>2. DOMAIN ret = 1..Len(ret) /\ Len(ret) \in Nat
    BY <2>1
  <2>3. QED
    BY <1>1, <1>3, <2>1, <2>2, AppendFacts
<1>5. c \in all /\ c \notin Range(ret) /\ num_depend[c] = 0
  BY <1>2, <1>3 DEF OnceInv, ZeroInv
<1>6. \A n \in Node : Owed(n) = {}
  BY <1>1 DEF Owed, TypeOK
<1>7. CountInv'
  <2>1. SUFFICES ASSUME NEW n \in Node
                 PROVE  num_depend[n] = Cardinality(Unsorted(n)')
                                          + Cardinality(Owed(n)')
    BY <1>1 DEF CountInv
  <2>2. /\ Unsorted(n) = Unsorted(n)' \cup Occurrences(forward[n], c)
        /\ Unsorted(n)' \cap Occurrences(forward[n], c) = {}
    BY <1>1, <1>4, <1>5 DEF Unsorted, Occurrences
  <2>3. Owed(n)' = Occurrences(backward[c], n)
    <3>1. DOMAIN backward[c] = 1..Len(backward[c])
      BY <1>3 DEF TypeOK
    <3>2. QED
      BY <1>1, <3>1 DEF Owed, Occurrences
  <2>4. IsFiniteSet(Occurrences(forward[n], c))
    BY PositionsFinite DEF Occurrences, TypeOK
  <2>5. IsFiniteSet(Unsorted(n)') /\ Cardinality(Unsorted(n)') \in Nat
    <3>1. /\ Unsorted(n)' \in SUBSET DOMAIN forward[n]
          /\ forward[n] \in Seq(Node)
      BY <1>1 DEF Unsorted, TypeOK
    <3>2. QED
      BY <3>1, PositionsFinite
  <2>6. Cardinality(Unsorted(n)) = Cardinality(Unsorted(n)')
                                     + Cardinality(Occurrences(forward[n], c))
    BY <2>2, <2>4, <2>5, DisjointUnionCount
  <2>7. Cardinality(Occurrences(forward[n], c)) =
          Cardinality(Occurrences(backward[c], n))
    BY <1>3 DEF GraphInv
  <2>8. num_depend[n] = Cardinality(Unsorted(n))
    <3>1. num_depend[n] = Cardinality(Unsorted(n)) + Cardinality({})
      BY <1>2, <1>6 DEF CountInv
    <3>2. QED
      BY <3>1, CountFacts, FS_EmptySet
  <2>9. QED
    BY <2>3, <2>6, <2>7, <2>8
<1>8. ZeroInv'
  BY <1>1, <1>2, <1>3, <1>4 DEF ZeroInv
<1>9. OnceInv'
  <2>1. Range(depended') \subseteq all
    BY <1>1, <1>3 DEF GraphInv
  <2>2. \A i, j \in DOMAIN ret' : ret'[i] = ret'[j] => i = j
    <3>1. \A i \in DOMAIN ret : ret[i] # c
      BY <1>5 DEF Range
    <3>2. QED
      BY <1>2, <1>4, <3>1 DEF OnceInv
  <2>3. QED
    BY <1>1, <1>2, <1>3, <1>4, <1>5, <2>1, <2>2 DEF OnceInv
<1>10. OrderInv'
  <2>1. SUFFICES ASSUME NEW j \in DOMAIN ret', NEW m \in DependsOn(ret'[j])
                 PROVE  \E i \in 1..(j - 1) : ret'[i] = m
    BY <1>1 DEF OrderInv, DependsOn
  <2>2. CASE j \in DOMAIN ret
    <3>1. PICK i \in 1..(j - 1) : ret[i] = m
      BY <1>2, <1>4, <2>1, <2>2 DEF OrderInv
    <3>2. i \in DOMAIN ret
      BY <1>4, <2>2
    <3>3. QED
      BY <1>4, <3>1, <3>2
  <2>3. CASE j = Len(ret) + 1
    <3>1. Unsorted(c) = {}
      <4>1. 0 = Cardinality(Unsorted(c)) + Cardinality(Owed(c))
        BY <1>2, <1>3, <1>5 DEF CountInv
      <4>2. QED
        BY <1>3, <4>1, CountFacts
    <3>2. m \in Range(forward[c])
      BY <1>4, <2>1, <2>3 DEF DependsOn
    <3>3. m \in Range(ret)
      BY <3>1, <3>2 DEF Unsorted, Range
    <3>4. PICK i \in DOMAIN ret : ret[i] = m
      BY <3>3 DEF Range
    <3>5. QED
      BY <1>4, <2>3, <3>4
  <2>4. QED
    BY <1>4, <2>2, <2>3
<1>11. QED
  BY <1>1, <1>7, <1>8, <1>9, <1>10 DEF SortInv, AnswerInv

(* Decrementing one dependent pays one of the decrements owed to it; it is *)
(* queued when, and only when, that was its last dependency.               *)
LEMMA SortDecrement ==
  TypeOK /\ TypeOK' /\ SortInv /\ Decrement => SortInv'
<1> SUFFICES ASSUME TypeOK, TypeOK', SortInv, Decrement
             PROVE  SortInv'
  OBVIOUS
<1>0. next \in DOMAIN depended /\ depended[next] \in Node
  BY DEF Decrement, TypeOK
<1> PICK d \in Node : d = depended[next]
  BY <1>0
<1>1. /\ pc = "sorting" /\ pc' = "sorting"
      /\ next \in DOMAIN depended /\ next' = next + 1
      /\ num_depend' = [num_depend EXCEPT ![d] = @ - 1]
      /\ q' = IF num_depend[d] - 1 = 0 THEN Append(q, d) ELSE q
      /\ ret' = ret /\ depended' = depended
      /\ forward' = forward /\ backward' = backward /\ all' = all
  BY <1>0 DEF Decrement, graph
<1>2. CountInv /\ ZeroInv /\ OnceInv /\ OrderInv
  BY <1>1 DEF SortInv
<1>3. d \in Node /\ d \in all
  BY <1>1, <1>2 DEF TypeOK, OnceInv, Range
<1>4. /\ num_depend'[d] = num_depend[d] - 1
      /\ \A n \in Node \ {d} : num_depend'[n] = num_depend[n]
  BY <1>1, <1>3 DEF TypeOK
<1>5. \A n \in Node : Unsorted(n)' = Unsorted(n)
  BY <1>1 DEF Unsorted
<1>6. /\ Owed(d)' = Owed(d) \ {next}
      /\ next \in Owed(d)
      /\ \A n \in Node \ {d} : Owed(n)' = Owed(n)
  <2>1. Len(depended) \in Nat /\ next \in 1..Len(depended)
    BY SMTT(30), <1>1 DEF TypeOK
  <2>2. next..Len(depended) = (next + 1)..Len(depended) \cup {next}
    BY <2>1
  <2>3. next \notin (next + 1)..Len(depended)
    BY <2>1
  <2>4. QED
    BY <1>1, <2>2, <2>3 DEF Owed
<1>7. Cardinality(Owed(d)') = Cardinality(Owed(d)) - 1
  BY <1>3, <1>6, CountFacts, FS_RemoveElement
<1>8. CountInv'
  <2>1. SUFFICES ASSUME NEW n \in Node
                 PROVE  num_depend'[n] = Cardinality(Unsorted(n)')
                                           + Cardinality(Owed(n)')
    BY DEF CountInv
  <2>2. CASE n = d
    <3>1. num_depend[d] = Cardinality(Unsorted(d)) + Cardinality(Owed(d))
      BY <1>2, <1>3 DEF CountInv
    <3>2. /\ Cardinality(Unsorted(d)) \in Nat
          /\ Cardinality(Owed(d)) \in Nat
      BY <1>3, CountFacts
    <3>3. Cardinality(Unsorted(d)') = Cardinality(Unsorted(d))
      BY <1>3, <1>5
    <3>4. QED
      BY <1>4, <1>7, <2>2, <3>1, <3>2, <3>3
  <2>3. CASE n # d
    BY <1>2, <1>4, <1>5, <1>6, <2>3 DEF CountInv
  <2>4. QED
    BY <2>2, <2>3
<1>9. num_depend[d] # 0
  <2>1. Cardinality(Owed(d)) # 0
    BY <1>3, <1>6, CountFacts
  <2>2. QED
    BY <1>2, <1>3, <2>1, CountFacts DEF CountInv
<1>10. d \notin Range(ret) \cup Range(q)
  BY <1>2, <1>3, <1>9 DEF ZeroInv
<1>11. Range(q') = IF num_depend'[d] = 0 THEN Range(q) \cup {d} ELSE Range(q)
  <2>1. q \in Seq(Node)
    BY DEF TypeOK
  <2>2. CASE num_depend[d] - 1 = 0
    BY <1>1, <1>3, <1>4, <2>1, <2>2, AppendFacts
  <2>3. CASE num_depend[d] - 1 # 0
    BY <1>1, <1>4, <2>3
  <2>4. QED
    BY <2>2, <2>3
<1>12. ZeroInv'
  BY <1>1, <1>2, <1>3, <1>4, <1>10, <1>11 DEF ZeroInv, TypeOK
<1>13. OnceInv'
  <2>1. \A i, j \in DOMAIN q' : q'[i] = q'[j] => i = j
    <3>1. CASE q' = q
      BY <1>2, <3>1 DEF OnceInv
    <3>2. CASE q' = Append(q, d)
      <4>1. \A i \in DOMAIN q : q[i] # d
        BY <1>10 DEF Range
      <4>2. /\ DOMAIN q' = DOMAIN q \cup {Len(q) + 1}
            /\ \A i \in DOMAIN q : q'[i] = q[i]
            /\ q'[Len(q) + 1] = d
        <5>1. q \in Seq(Node)
          BY DEF TypeOK
        <5>2. QED
          BY <1>3, <3>2, <5>1, AppendFacts
      <4>3. QED
        BY <1>2, <4>1, <4>2 DEF OnceInv
    <3>3. QED
      BY <1>1, <3>1, <3>2
  <2>2. Range(q') \subseteq Range(q) \cup {d}
    BY <1>11
  <2>3. QED
    BY <1>1, <1>2, <1>3, <1>10, <2>1, <2>2 DEF OnceInv
<1>14. OrderInv'
  <2>1. ret' = ret /\ forward' = forward
    BY <1>1
  <2>2. QED
    BY <1>2, <2>1 DEF OrderInv, DependsOn
<1>15. QED
  BY <1>1, <1>8, <1>12, <1>13, <1>14 DEF SortInv, AnswerInv

(* Returning keeps what the sort found.                                    *)
LEMMA SortReturn ==
  SortInv /\ (ReturnCyclic \/ ReturnSorted) => SortInv'
<1> SUFFICES ASSUME SortInv, ReturnCyclic \/ ReturnSorted
             PROVE  SortInv'
  OBVIOUS
<1>1. /\ UNCHANGED <<forward, backward, all, num_depend, q, ret, depended, next>>
      /\ pc = "sorting" /\ Drained
      /\ \/ pc' = "cyclic" /\ Pending # {}
         \/ pc' = "sorted" /\ Pending = {}
  BY DEF ReturnCyclic, ReturnSorted, graph, sort
<1>2. CountInv /\ ZeroInv /\ OnceInv /\ OrderInv
  BY <1>1 DEF SortInv
<1>3. CountInv' /\ ZeroInv' /\ OnceInv' /\ OrderInv'
  BY <1>1, <1>2 DEF CountInv, ZeroInv, OnceInv, OrderInv, Unsorted, Owed,
     DependsOn
<1>4. AnswerInv'
  BY <1>1 DEF AnswerInv, Drained, Pending
<1>5. QED
  BY <1>1, <1>3, <1>4 DEF SortInv

(* The invariant holds before anything is recorded.                        *)
LEMMA InvInit == Init => IInv
<1>1. Init => SortInv
  BY DEF Init, SortInv, AnswerInv
<1>2. QED
  BY <1>1, TypeInit, GraphInit DEF IInv

(* Every step keeps it.                                                    *)
LEMMA InvStep == IInv /\ [Next]_vars => IInv'
<1> SUFFICES ASSUME IInv, [Next]_vars
             PROVE  IInv'
  OBVIOUS
<1>1. TypeOK' /\ GraphInv'
  BY TypeStep, GraphStep DEF IInv
<1> SUFFICES SortInv'
  BY <1>1 DEF IInv
<1>2. ASSUME NEW m \in Node, NEW n \in Node, AddDependency(m, n)
      PROVE  SortInv'
  BY <1>2 DEF AddDependency, sort, IInv, SortInv, AnswerInv
<1>3. CASE Clear
  BY <1>3 DEF Clear, sort, IInv, SortInv, AnswerInv
<1>4. CASE CountDependencies
  BY <1>1, <1>4, SortStart DEF IInv
<1>5. CASE PopFront
  BY <1>1, <1>5, SortPop DEF IInv
<1>6. CASE Decrement
  BY <1>1, <1>6, SortDecrement DEF IInv
<1>7. CASE ReturnCyclic \/ ReturnSorted
  BY <1>7, SortReturn DEF IInv
<1>8. CASE TakeAnswer
  BY <1>8 DEF TakeAnswer, SortInv, AnswerInv
<1>9. CASE UNCHANGED vars
  <2>1. /\ UNCHANGED <<forward, backward, all, pc, num_depend, q, ret>>
        /\ UNCHANGED <<depended, next>>
    BY <1>9 DEF vars, graph, sort
  <2>2. /\ CountInv' = CountInv
        /\ ZeroInv' = ZeroInv
        /\ OnceInv' = OnceInv
        /\ OrderInv' = OrderInv
    BY <2>1 DEF CountInv, ZeroInv, OnceInv, OrderInv, Unsorted, Owed, DependsOn
  <2>3. AnswerInv' = AnswerInv
    BY <2>1 DEF AnswerInv, Drained, Pending
  <2>4. QED
    BY <2>1, <2>2, <2>3 DEF IInv, SortInv
<1>10. QED
  BY <1>2, <1>3, <1>4, <1>5, <1>6, <1>7, <1>8, <1>9 DEF Next, SortStep

(* The inductive invariant of the graph and the sort: the counts of        *)
(* unsorted dependencies the queue is filled from are exact.               *)
THEOREM Invariance == Spec => []IInv
BY InvInit, InvStep, PTL DEF Spec

-----------------------------------------------------------------------------
(* What the invariant says of the answers.                                 *)

(* While the counters run they are exact.                                  *)
THEOREM CountersCorrect == Spec => []CountersExact
<1>1. IInv => CountersExact
  BY DEF IInv, SortInv, CountInv, ZeroInv, OnceInv, CountersExact
<1>2. QED
  BY <1>1, Invariance, PTL

(* When the sort has drained its queue, a node is listed or pending.       *)
LEMMA DrainedFacts ==
  ASSUME IInv, pc # "idle", Drained
  PROVE  /\ \A n \in all : n \in Range(ret) <=> n \notin Pending
         /\ Pending \subseteq all
         /\ \A n \in Pending : \E m \in DependsOn(n) : m \in Pending
<1>1. /\ TypeOK /\ GraphInv
      /\ CountInv /\ ZeroInv /\ OnceInv /\ OrderInv
  BY DEF IInv, SortInv
<1>2. Range(q) = {}
  BY EmptyFacts DEF Drained
<1>3. \A n \in Node : Owed(n) = {}
  BY <1>1 DEF Drained, Owed, TypeOK
<1>4. \A n \in Node : n \in Pending <=> Unsorted(n) # {}
  BY <1>1, <1>3, CountFacts, FS_EmptySet DEF CountInv, Pending
<1>5. \A n \in all : n \in Range(ret) <=> n \notin Pending
  BY <1>1, <1>2 DEF ZeroInv, Pending, TypeOK
<1>6. Pending \subseteq all
  <2>1. SUFFICES ASSUME NEW n \in Pending
                 PROVE  n \in all
    OBVIOUS
  <2>2. n \in Node /\ Unsorted(n) # {}
    BY <1>4 DEF Pending
  <2>3. forward[n] # <<>>
    BY <2>2 DEF Unsorted
  <2>4. QED
    BY <1>1, <2>2, <2>3 DEF GraphInv
<1>7. ASSUME NEW n \in Pending
      PROVE  \E m \in DependsOn(n) : m \in Pending
  <2>1. n \in Node
    BY DEF Pending
  <2>2. PICK i \in DOMAIN forward[n] : forward[n][i] \notin Range(ret)
    BY <1>4, <2>1 DEF Unsorted
  <2>3. forward[n][i] \in DependsOn(n) /\ forward[n][i] \in all
    BY <1>1, <2>1 DEF DependsOn, Range, GraphInv
  <2>4. QED
    BY <1>5, <2>2, <2>3
<1>8. QED
  BY <1>5, <1>6, <1>7

(* A sorted answer is a topological order of the whole graph.              *)
LEMMA SortedOrder == IInv => SortedIsTopological
<1> SUFFICES ASSUME IInv, pc = "sorted"
             PROVE  /\ Range(ret) = all
                    /\ \A i, j \in DOMAIN ret : ret[i] = ret[j] => i = j
                    /\ OrderInv
  BY DEF SortedIsTopological, OrderInv
<1>1. OnceInv /\ OrderInv /\ Drained /\ Pending = {}
  BY DEF IInv, SortInv, AnswerInv
<1>2. Range(ret) = all
  BY <1>1, DrainedFacts DEF OnceInv
<1>3. QED
  BY <1>1, <1>2 DEF OnceInv

(* What TopologicalSort returns has every node once, behind all its        *)
(* dependencies.                                                           *)
THEOREM SortedCorrect == Spec => []SortedIsTopological
BY SortedOrder, Invariance, PTL

(* A set of positions has a least member.                                  *)
LEMMA LeastPosition ==
  ASSUME NEW P \in SUBSET Nat, P # {}
  PROVE  \E i \in P : \A j \in P : i <= j
<1>1. PICK i \in P : \A j \in P : <<j, i>> \notin OpToRel(<, Nat)
  BY NatLessThanWellFounded, WFMin
<1>2. \A j \in P : ~(j < i)
  BY <1>1 DEF OpToRel
<1>3. QED
  BY <1>2

(* An order in which nothing precedes what it depends on leaves no room    *)
(* for a cycle: the first of its members in the order would come after one.*)
LEMMA OrderedIsAcyclic ==
  ASSUME IInv, pc = "sorted"
  PROVE  ~HasCycle
<1> SUFFICES ASSUME NEW S \in SUBSET all, S # {},
                    \A n \in S : DependsOn(n) \cap S # {}
             PROVE  FALSE
  BY DEF HasCycle
<1> DEFINE P == {i \in DOMAIN ret : ret[i] \in S}
<1>1. Range(ret) = all /\ OrderInv
  BY SortedOrder DEF SortedIsTopological, OrderInv
<1>2. DOMAIN ret = 1..Len(ret) /\ Len(ret) \in Nat /\ P \in SUBSET Nat
  <2>1. ret \in Seq(Node)
    BY DEF IInv, TypeOK
  <2>2. DOMAIN ret = 1..Len(ret) /\ Len(ret) \in Nat
    BY <2>1
  <2>3. QED
    BY <2>2
<1>3. P # {}
  BY <1>1 DEF Range
<1>4. PICK i \in P : \A j \in P : i <= j
  BY <1>2, <1>3, LeastPosition
<1>5. PICK m \in DependsOn(ret[i]) : m \in S
  BY <1>4
<1>6. PICK j \in 1..(i - 1) : ret[j] = m
  BY <1>1, <1>4, <1>5 DEF OrderInv
<1>7. j \in P /\ j < i
  BY <1>2, <1>4, <1>5, <1>6
<1>8. QED
  BY <1>2, <1>4, <1>7

(* The answer is "cyclic" exactly for the graphs that have a cycle.        *)
THEOREM CyclicCorrect == Spec => []CyclicIffCycle
<1>1. ASSUME IInv, pc = "cyclic"
      PROVE  HasCycle
  <2>1. Drained /\ Pending # {}
    BY <1>1 DEF IInv, SortInv, AnswerInv
  <2>2. /\ Pending \in SUBSET all
        /\ \A n \in Pending : DependsOn(n) \cap Pending # {}
    BY <1>1, <2>1, DrainedFacts
  <2>3. QED
    BY <2>1, <2>2 DEF HasCycle
<1>2. IInv => CyclicIffCycle
  BY <1>1, OrderedIsAcyclic DEF CyclicIffCycle
<1>3. QED
  BY <1>2, Invariance, PTL

-----------------------------------------------------------------------------
(* The sort implements TopologicalSort: a run begins as the abstract sort  *)
(* does.                                                                   *)
LEMMA RefineInit == Init => TS!AbsInit
<1>1. ASSUME Init
      PROVE  {e \in Node \X Node : e[2] \in DependsOn(e[1])} = {}
  BY <1>1, EmptyFacts DEF Init, DependsOn
<1>2. QED
  BY <1>1 DEF Init, TS!AbsInit

(* Recording a dependency adds one pair to the relation.                   *)
LEMMA RefineAdd ==
  ASSUME TypeOK, NEW m \in Node, NEW n \in Node, AddDependency(m, n)
  PROVE  TS!Record(m, n)
<1>1. /\ pc = "idle" /\ pc' = pc /\ ret' = ret /\ all' = all \cup {m, n}
      /\ forward[n] \in Seq(Node)
      /\ \A k \in Node : forward'[k] = IF k = n THEN Append(forward[n], m)
                                                 ELSE forward[k]
  BY DEF AddDependency, sort, TypeOK
<1>2. \A k \in Node : DependsOn(k)' = IF k = n THEN DependsOn(n) \cup {m}
                                               ELSE DependsOn(k)
  <2>1. Range(Append(forward[n], m)) = Range(forward[n]) \cup {m}
    BY <1>1, AppendFacts
  <2>2. \A k \in Node : DependsOn(k)' = Range(forward'[k])
    BY DEF DependsOn
  <2>3. \A k \in Node : Range(forward'[k]) = IF k = n
                                             THEN Range(forward[n]) \cup {m}
                                             ELSE Range(forward[k])
    BY <1>1, <2>1
  <2>4. QED
    BY <2>2, <2>3 DEF DependsOn
<1>3. {e \in Node \X Node : e[2] \in DependsOn(e[1])'} =
        {e \in Node \X Node : e[2] \in DependsOn(e[1])} \cup {<<n, m>>}
  BY <1>2
<1>4. QED
  BY <1>1, <1>3 DEF TS!Record

(* A popped node is ready: its counter is zero.                            *)
LEMMA RefinePop ==
  ASSUME IInv, PopFront
  PROVE  TS!List(Head(q))
<1>1. /\ TypeOK
      /\ CountInv /\ ZeroInv /\ OnceInv
  BY DEF IInv, SortInv, PopFront
<1>2. /\ pc = "sorting" /\ UNCHANGED <<forward, all, pc>>
      /\ ret' = Append(ret, Head(q)) /\ q # <<>>
  BY DEF PopFront, graph
<1>3. Head(q) \in Node /\ Head(q) \in Range(q)
  BY <1>1, <1>2, TailFacts DEF TypeOK, OnceInv
<1>4. Head(q) \in all /\ Head(q) \notin Range(ret) /\ num_depend[Head(q)] = 0
  BY <1>1, <1>3 DEF ZeroInv, OnceInv
<1>5. Unsorted(Head(q)) = {}
  BY <1>1, <1>3, <1>4, CountFacts DEF CountInv
<1>6. DependsOn(Head(q)) \subseteq Range(ret)
  BY <1>5 DEF DependsOn, Unsorted, Range
<1>7. TS!Listed = Range(ret)
  BY DEF TS!Listed, Range
<1>8. \A m \in Node :
        <<Head(q), m>> \in {e \in Node \X Node : e[2] \in DependsOn(e[1])}
          => m \in Range(ret)
  BY <1>6
<1>9. TS!Ready(Head(q))
  BY <1>7, <1>8 DEF TS!Ready
<1>10. UNCHANGED {e \in Node \X Node : e[2] \in DependsOn(e[1])}
  BY <1>2 DEF DependsOn
<1>11. QED
  BY <1>2, <1>4, <1>7, <1>9, <1>10 DEF TS!List

(* The sort gives an answer when, and only when, nothing more can be       *)
(* listed.                                                                 *)
LEMMA RefineReturn ==
  ASSUME IInv, ReturnCyclic \/ ReturnSorted
  PROVE  TS!Fail \/ TS!Succeed
<1>1. /\ pc = "sorting" /\ Drained
      /\ UNCHANGED <<forward, all, ret>>
      /\ \/ pc' = "cyclic" /\ Pending # {}
         \/ pc' = "sorted" /\ Pending = {}
  BY DEF ReturnCyclic, ReturnSorted, graph, sort
<1>2. TS!Listed = Range(ret)
  BY DEF TS!Listed, Range
<1>3. UNCHANGED {e \in Node \X Node : e[2] \in DependsOn(e[1])}
  BY <1>1 DEF DependsOn
<1>4. CASE pc' = "sorted" /\ Pending = {}
  <2>1. all \subseteq Range(ret)
    BY <1>1, <1>4, DrainedFacts
  <2>2. QED
    BY <1>1, <1>2, <1>3, <1>4, <2>1 DEF TS!Succeed
<1>5. CASE pc' = "cyclic" /\ Pending # {}
  <2>1. all \ Range(ret) # {}
    BY <1>1, <1>5, DrainedFacts
  <2>2. ASSUME NEW n \in all \ Range(ret)
        PROVE  ~TS!Ready(n)
    <3>1. n \in Pending /\ n \in Node
      BY <1>1, <2>2, DrainedFacts DEF Pending
    <3>2. PICK m \in DependsOn(n) : m \in Pending
      BY <1>1, <3>1, DrainedFacts
    <3>3. m \in Node /\ m \notin Range(ret)
      BY <1>1, <3>2, DrainedFacts DEF Pending
    <3>4. <<n, m>> \in {e \in Node \X Node : e[2] \in DependsOn(e[1])}
      BY <3>1, <3>2, <3>3
    <3>5. QED
      BY <1>2, <3>3, <3>4 DEF TS!Ready
  <2>3. QED
    BY <1>1, <1>2, <1>3, <1>5, <2>1, <2>2 DEF TS!Fail
<1>6. QED
  BY <1>1, <1>4, <1>5

(* Every step is one of the abstract sort or changes nothing it sees.      *)
LEMMA RefineStep == IInv /\ [Next]_vars => [TS!AbsNext]_TS!absVars
<1> SUFFICES ASSUME IInv, [Next]_vars
             PROVE  TS!AbsNext \/ UNCHANGED TS!absVars
  OBVIOUS
<1>1. TypeOK
  BY DEF IInv
<1>2. ASSUME NEW m \in Node, NEW n \in Node, AddDependency(m, n)
      PROVE  TS!AbsNext
  BY <1>1, <1>2, RefineAdd DEF TS!AbsNext
<1>3. CASE Clear
  <2>1. {e \in Node \X Node : e[2] \in DependsOn(e[1])}' = {}
    BY <1>3, EmptyFacts DEF Clear, DependsOn
  <2>2. TS!Forget
    BY <1>3, <2>1 DEF Clear, sort, TS!Forget
  <2>3. QED
    BY <2>2 DEF TS!AbsNext
<1>4. CASE CountDependencies
  <2>1. TS!Request
    BY <1>4 DEF CountDependencies, graph, DependsOn, TS!Request
  <2>2. QED
    BY <2>1 DEF TS!AbsNext
<1>5. CASE PopFront
  <2>1. Head(q) \in Node
    BY <1>1, <1>5 DEF PopFront, TypeOK
  <2>2. QED
    BY <1>5, <2>1, RefinePop DEF TS!AbsNext
<1>6. CASE Decrement
  BY <1>6 DEF Decrement, graph, DependsOn, TS!absVars
<1>7. CASE ReturnCyclic \/ ReturnSorted
  BY <1>7, RefineReturn DEF TS!AbsNext
<1>8. CASE TakeAnswer
  <2>1. TS!Answered
    BY <1>8 DEF TakeAnswer, graph, DependsOn, TS!Answered
  <2>2. QED
    BY <2>1 DEF TS!AbsNext
<1>9. CASE UNCHANGED vars
  BY <1>9 DEF vars, graph, sort, DependsOn, TS!absVars
<1>10. QED
  BY <1>2, <1>3, <1>4, <1>5, <1>6, <1>7, <1>8, <1>9 DEF Next, SortStep

(* Whatever the dependencies and however the hash tables are walked, the   *)
(* graph and its sort behave as TopologicalSort allows.                    *)
THEOREM Refinement == Spec => ImplementsTopologicalSort
<1>1. Init /\ [][Next]_vars /\ []IInv => TS!AbsInit /\ [][TS!AbsNext]_TS!absVars
  BY RefineInit, RefineStep, PTL
<1>2. QED
  BY <1>1, Invariance, PTL DEF Spec, ImplementsTopologicalSort, TS!AbsSpec

=============================================================================
