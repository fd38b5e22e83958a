-------------------------- MODULE DependencyGraph --------------------------
(***************************************************************************)
(* DependencyGraph<T> (include/common/dependency_graph.h): the graph that  *)
(* orders the top-level symbols of a package for the type checker.         *)
(*                                                                         *)
(* The graph keeps every dependency twice, as _forward[dependent] and      *)
(* _backward[depended], both vectors, so an edge recorded twice is kept    *)
(* twice.  topological_sort is Kahn's algorithm with one step per turn of  *)
(* its loops.  The three loops that run over a hash container (_all,       *)
(* num_depend) take their elements in any order.                           *)
(***************************************************************************)
EXTENDS Integers, Sequences, FiniteSets, Functions

CONSTANTS
  Node,      \* the T's: AST nodes
  NoNode,    \* std::nullopt
  MaxAdds    \* bound of the model: how many dependencies are ever recorded

ASSUME NodeAssumption == IsFiniteSet(Node) /\ NoNode \notin Node
ASSUME MaxAddsAssumption == MaxAdds \in Nat

VARIABLES
  forward,     \* _forward: dependent -> vector of depended
  backward,    \* _backward: depended -> vector of dependent
  all,         \* _all
  adds,        \* number of add_dependency calls so far
  pc,          \* "idle": no sort is running; "sorting"; or its answer
  num_depend,  \* local of topological_sort
  q,           \* local: the queue
  ret,         \* local: the result
  depended,    \* local: the copy of _backward[curr] being walked
  next,        \* the position in depended of the loop over it
  error_node   \* second component of the answer

graph == <<forward, backward, all>>
sort == <<num_depend, q, ret, depended, next, error_node>>
vars == <<graph, adds, pc, sort>>

NumDepended(n) == Len(forward[n])

(* The orders in which a hash container may yield the elements of S. *)
Orders(S) == Bijection(1..Cardinality(S), S)

Init ==
  /\ forward = [n \in Node |-> <<>>]
  /\ backward = [n \in Node |-> <<>>]
  /\ all = {}
  /\ adds = 0
  /\ pc = "idle"
  /\ num_depend = [n \in Node |-> 0]
  /\ q = <<>>
  /\ ret = <<>>
  /\ depended = <<>>
  /\ next = 1
  /\ error_node = NoNode

(* A slip: a repeated dependency is kept once in _backward, as in a set,   *)
(* but every time in _forward.                                             *)
AddDependencyOneSidedSet(m, n) ==
  /\ pc = "idle"
  /\ adds < MaxAdds
  /\ adds' = adds + 1
  /\ forward' = [forward EXCEPT ![n] = Append(@, m)]
  /\ backward' = [backward EXCEPT
                    ![m] = IF n \in Range(@) THEN @ ELSE Append(@, n)]
  /\ all' = all \cup {m, n}
  /\ UNCHANGED <<pc, sort>>

(* m is depended on by n. *)
AddDependency(m, n) ==
  /\ pc = "idle"
  /\ adds < MaxAdds
  /\ adds' = adds + 1
  /\ forward' = [forward EXCEPT ![n] = Append(@, m)]
  /\ backward' = [backward EXCEPT ![m] = Append(@, n)]
  /\ all' = all \cup {m, n}
  /\ UNCHANGED <<pc, sort>>

Clear ==
  /\ pc = "idle"
  /\ forward' = [n \in Node |-> <<>>]
  /\ backward' = [n \in Node |-> <<>>]
  /\ all' = {}
  /\ UNCHANGED <<adds, pc, sort>>

(* A slip: the counters start from num_dependent, the other direction.     *)
CountDependents ==
  /\ pc = "idle"
  /\ pc' = "sorting"
  /\ num_depend' = [n \in Node |-> IF n \in all THEN Len(backward[n]) ELSE 0]
  /\ q' \in Orders({n \in all : Len(backward[n]) = 0})
  /\ ret' = <<>>
  /\ depended' = <<>>
  /\ next' = 1
  /\ error_node' = NoNode
  /\ UNCHANGED <<graph, adds>>

(* The first loop: count, and queue the nodes that depend on nothing. *)
CountDependencies ==
  /\ pc = "idle"
  /\ pc' = "sorting"
  /\ num_depend' = [n \in Node |-> IF n \in all THEN NumDepended(n) ELSE 0]
  /\ q' \in Orders({n \in all : NumDepended(n) = 0})
  /\ ret' = <<>>
  /\ depended' = <<>>
  /\ next' = 1
  /\ error_node' = NoNode
  /\ UNCHANGED <<graph, adds>>

(* One turn of the outer loop: the front of the queue is sorted. *)
PopFront ==
  /\ pc = "sorting"
  /\ next > Len(depended)
  /\ q # <<>>
  /\ q' = Tail(q)
  /\ ret' = Append(ret, Head(q))
  /\ depended' = backward[Head(q)]
  /\ next' = 1
  /\ UNCHANGED <<graph, adds, pc, num_depend, error_node>>

(* Slips in the inner loop: the counter is tested before it is decremented; *)
(* every dependent is queued at once; the loop does not advance.            *)
DecrementAfterTest ==
  /\ pc = "sorting"
  /\ next <= Len(depended)
  /\ LET d == depended[next] IN
       /\ num_depend' = [num_depend EXCEPT ![d] = @ - 1]
       /\ q' = IF num_depend[d] = 0 THEN Append(q, d) ELSE q
  /\ next' = next + 1
  /\ UNCHANGED <<graph, adds, pc, ret, depended, error_node>>

DecrementAndQueue ==
  /\ pc = "sorting"
  /\ next <= Len(depended)
  /\ LET d == depended[next] IN
       /\ num_depend' = [num_depend EXCEPT ![d] = @ - 1]
       /\ q' = IF d \in Range(q) \cup Range(ret) THEN q ELSE Append(q, d)
  /\ next' = next + 1
  /\ UNCHANGED <<graph, adds, pc, ret, depended, error_node>>

DecrementInPlace ==
  /\ pc = "sorting"
  /\ next <= Len(depended)
  /\ LET d == depended[next] IN
       /\ num_depend' = [num_depend EXCEPT ![d] = IF @ = 0 THEN 0 ELSE @ - 1]
       /\ q' = IF num_depend[d] = 1 THEN Append(q, d) ELSE q
  /\ UNCHANGED <<graph, adds, pc, ret, depended, next, error_node>>

(* One turn of the inner loop: a dependent has one dependency less. *)
Decrement ==
  /\ pc = "sorting"
  /\ next <= Len(depended)
  /\ LET d == depended[next] IN
       /\ num_depend' = [num_depend EXCEPT ![d] = @ - 1]
       /\ q' = IF num_depend[d] - 1 = 0 THEN Append(q, d) ELSE q
  /\ next' = next + 1
  /\ UNCHANGED <<graph, adds, pc, ret, depended, error_node>>

Drained == next > Len(depended) /\ q = <<>>

Pending == {n \in Node : num_depend[n] # 0}

(* The last loop found a node that still has dependencies. *)
ReturnCyclic ==
  /\ pc = "sorting"
  /\ Drained
  /\ \E n \in Pending : error_node' = n
  /\ pc' = "cyclic"
  /\ UNCHANGED <<graph, adds, num_depend, q, ret, depended, next>>

ReturnSorted ==
  /\ pc = "sorting"
  /\ Drained
  /\ Pending = {}
  /\ pc' = "sorted"
  /\ UNCHANGED <<graph, adds, sort>>

(* The caller has the answer; the locals are gone. *)
TakeAnswer ==
  /\ pc \in {"sorted", "cyclic"}
  /\ pc' = "idle"
  /\ num_depend' = [n \in Node |-> 0]
  /\ q' = <<>>
  /\ ret' = <<>>
  /\ depended' = <<>>
  /\ next' = 1
  /\ error_node' = NoNode
  /\ UNCHANGED <<graph, adds>>

SortStep ==
  \/ PopFront
  \/ Decrement
  \/ ReturnCyclic
  \/ ReturnSorted

Next ==
  \/ \E m, n \in Node : AddDependency(m, n)
  \/ Clear
  \/ CountDependencies
  \/ SortStep
  \/ TakeAnswer

Spec == Init /\ [][Next]_vars

(* A function that was called runs to its end. *)
FairSpec == Spec /\ WF_vars(SortStep)

-----------------------------------------------------------------------------
(* The relation the caller recorded: what n depends on. *)
DependsOn(n) == Range(forward[n])

(* Some nodes depend on each other in a circle: a nonempty set of nodes    *)
(* each of which depends on a member of the set.                           *)
HasCycle ==
  \E S \in SUBSET all : S # {} /\ \A n \in S : DependsOn(n) \cap S # {}

TypeOK ==
  /\ forward \in [Node -> Seq(Node)]
  /\ backward \in [Node -> Seq(Node)]
  /\ all \subseteq Node
  /\ adds \in Nat
  /\ pc \in {"idle", "sorting", "sorted", "cyclic"}
  /\ num_depend \in [Node -> Int]
  /\ q \in Seq(Node)
  /\ ret \in Seq(Node)
  /\ depended \in Seq(Node)
  /\ next \in Nat \ {0}
  /\ error_node \in Node \cup {NoNode}

(* topological_sort's "so for no element is dependent on its succeeding    *)
(* element(s)": a sorted answer lists every node of the graph exactly      *)
(* once, each after all it depends on, however often a dependency was      *)
(* recorded and in whatever order the hash tables were walked.             *)
SortedIsTopological ==
  pc = "sorted" =>
    /\ Range(ret) = all
    /\ \A i, j \in DOMAIN ret : ret[i] = ret[j] => i = j
    /\ \A j \in DOMAIN ret : \A m \in DependsOn(ret[j]) :
         \E i \in 1..(j - 1) : ret[i] = m

(* The type checker's "Cyclic dependency detected" is raised for graphs    *)
(* that have a cycle and for no other: repeated edges never leave a        *)
(* counter above zero, and a cycle never goes unnoticed.                   *)
CyclicIffCycle ==
  /\ pc = "cyclic" => HasCycle
  /\ pc = "sorted" => ~HasCycle

(* What the counters and the queue mean while the sort runs: an entry of   *)
(* num_depend is what is left of the node's dependencies, counting the     *)
(* decrements that the loop under way still owes it; the nodes at zero are *)
(* the ones sorted or queued; no node is queued twice.                     *)
Unsorted(n) == {i \in DOMAIN forward[n] : forward[n][i] \notin Range(ret)}
Owed(n) == {j \in next..Len(depended) : depended[j] = n}

CountersExact ==
  pc = "sorting" =>
    /\ \A n \in Node :
         num_depend[n] = Cardinality(Unsorted(n)) + Cardinality(Owed(n))
    /\ \A n \in all : num_depend[n] = 0 <=> n \in Range(ret) \cup Range(q)
    /\ Range(ret) \cap Range(q) = {}
    /\ \A i, j \in DOMAIN q : q[i] = q[j] => i = j

(* A sort that was asked for is answered. *)
SortAnswers == pc = "sorting" ~> pc \in {"sorted", "cyclic"}

(* The graph and its sort are an implementation of TopologicalSort. *)
TS == INSTANCE TopologicalSort WITH
        depends <- {e \in Node \X Node : e[2] \in DependsOn(e[1])},
        known <- all,
        phase <- pc,
        output <- ret

(* Every step of the counters and the queue is a step TopologicalSort      *)
(* allows: a node is listed only when all it depends on are, and the sort  *)
(* gives up only when nothing can be listed.                               *)
ImplementsTopologicalSort == TS!AbsSpec

=============================================================================
