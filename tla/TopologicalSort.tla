-------------------------- MODULE TopologicalSort --------------------------
(***************************************************************************)
(* What a topological sort promises its caller, without the counters and   *)
(* the queue that DependencyGraph uses to keep the promise.                *)
(*                                                                         *)
(* A caller records dependencies, asks for a sort, and gets one answer:    *)
(* either every known node, listed so that no node comes before one it     *)
(* depends on, or "cyclic" when no further node can be listed.             *)
(***************************************************************************)
EXTENDS Integers, Sequences

CONSTANT Node

VARIABLES
  depends,   \* the dependencies: <<m, n>> when m depends on n
  known,     \* the nodes some dependency mentions
  phase,     \* "idle", "sorting", or the answer: "sorted", "cyclic"
  output     \* the nodes listed so far

absVars == <<depends, known, phase, output>>

Listed == {output[i] : i \in DOMAIN output}

(* A node can be listed once everything it depends on is. *)
Ready(n) == \A m \in Node : <<n, m>> \in depends => m \in Listed

AbsInit ==
  /\ depends = {}
  /\ known = {}
  /\ phase = "idle"
  /\ output = <<>>

(* dependent is recorded to depend on depended. *)
Record(depended, dependent) ==
  /\ phase = "idle"
  /\ depends' = depends \cup {<<dependent, depended>>}
  /\ known' = known \cup {depended, dependent}
  /\ UNCHANGED <<phase, output>>

Forget ==
  /\ phase = "idle"
  /\ depends' = {}
  /\ known' = {}
  /\ UNCHANGED <<phase, output>>

Request ==
  /\ phase = "idle"
  /\ phase' = "sorting"
  /\ output' = <<>>
  /\ UNCHANGED <<depends, known>>

(* List one more node, each at most once. *)
List(n) ==
  /\ phase = "sorting"
  /\ n \in known \ Listed
  /\ Ready(n)
  /\ output' = Append(output, n)
  /\ UNCHANGED <<depends, known, phase>>

Succeed ==
  /\ phase = "sorting"
  /\ known \subseteq Listed
  /\ phase' = "sorted"
  /\ UNCHANGED <<depends, known, output>>

Fail ==
  /\ phase = "sorting"
  /\ known \ Listed # {}
  /\ \A n \in known \ Listed : ~Ready(n)
  /\ phase' = "cyclic"
  /\ UNCHANGED <<depends, known, output>>

(* The caller has taken the answer. *)
Answered ==
  /\ phase \in {"sorted", "cyclic"}
  /\ phase' = "idle"
  /\ output' = <<>>
  /\ UNCHANGED <<depends, known>>

AbsNext ==
  \/ \E m, n \in Node : Record(m, n)
  \/ Forget
  \/ Request
  \/ \E n \in Node : List(n)
  \/ Succeed
  \/ Fail
  \/ Answered

AbsSpec == AbsInit /\ [][AbsNext]_absVars

=============================================================================
