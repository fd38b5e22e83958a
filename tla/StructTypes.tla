---------------------------- MODULE StructTypes ----------------------------
(***************************************************************************)
(* How the types of struct members and function arguments are resolved:    *)
(* the types made by RegisterDeclarations, the visitors of TypePrecheck    *)
(* that replace references by the types they name and record what is left  *)
(* in the dependency graph of the package, and TypeCheck, which sorts that *)
(* graph and visits its nodes before everything else (analysis/,           *)
(* Type::IsCanonical in ast/type.cpp).                                     *)
(*                                                                         *)
(* A program is a sequence of items, a struct or a function each, and is   *)
(* given.  An item has members (a function: its argument), which name a    *)
(* struct by value or through a pointer, or nothing: a primitive type.     *)
(* Struct i is the item at i.  The sort is that of TopologicalSort, any    *)
(* of its answers.                                                         *)
(***************************************************************************)
EXTENDS Integers, Sequences, FiniteSets, SequencesExt

CONSTANTS
  Programs    \* the programs of an instance

VARIABLES
  program,    \* the items: their kind, their result and their members
  pc,         \* "prechecking", "sorting", "checking", "accepted"; or the error:
              \* "unknown", "recursive", "cyclic"
  at,         \* the node TypePrecheck visits next
  type,       \* the types of the declarations, by node
  slot,       \* the member types of the struct types, by node
  depends,    \* edges <<d, n>> of the dependency graph: n depends on d
  checked     \* the nodes TypeCheck has visited

vars == <<program, pc, at, type, slot, depends, checked>>

Items == DOMAIN program
Members(i) == DOMAIN program[i].members
IsStruct(i) == i \in Items /\ program[i].kind = "struct"

(* The declaration of item i is the node <<i, 0>>, its member k <<i, k>>.  *)
Decl(i) == <<i, 0>>
MemberNodes == UNION {{<<i, k>> : k \in Members(i)} : i \in Items}
Nodes == {Decl(i) : i \in Items} \cup MemberNodes

(* Types: primitive, a reference by name, a struct, and pointers to them.  *)
Prim == <<"prim", 0>>
Ref(i) == <<"ref", i>>
Struct(i) == <<"struct", i>>
PointerToRef(i) == <<"pointer_to_ref", i>>
Pointer(i) == <<"pointer", i>>
IsPointer(t) == t[1] \in {"pointer_to_ref", "pointer"}

(* The programs the parser makes: a type is primitive or named.            *)
DeclaredTypes == {Prim} \cup ({"ref"} \X Nat) \cup ({"pointer_to_ref"} \X Nat)
PossibleItem ==
  [kind : {"struct", "function"}, result : DeclaredTypes,
   members : Seq(DeclaredTypes)]
ASSUME ProgramsAssumption == Programs \subseteq Seq(PossibleItem)

(* The type the parser gives a declaration.  The type of the declaration   *)
(* of a function stands for what it returns.                               *)
Declared(n) ==
  IF n[2] # 0 THEN program[n[1]].members[n[2]]
  ELSE IF IsStruct(n[1]) THEN Struct(n[1]) ELSE program[n[1]].result

Children(t, slots) ==
  CASE t[1] = "struct" -> [k \in Members(t[2]) |-> slots[<<t[2], k>>]]
    [] t[1] = "pointer" -> <<Struct(t[2])>>
    [] t[1] = "pointer_to_ref" -> <<Ref(t[2])>>
    [] OTHER -> <<>>

(* The types there are: those named, the structs, and pointers to both.    *)
Names == {Declared(n)[2] : n \in Nodes}
StructTypes == {"struct", "pointer"} \X {i \in Items : IsStruct(i)}
Types == {Prim} \cup ({"ref", "pointer_to_ref"} \X Names) \cup StructTypes

(* Type::IsCanonical: whether no type reached from t is a reference.  The  *)
(* types are searched breadth first; a struct that comes up again below a  *)
(* struct not itself met through a pointer is an error.  Whether a type    *)
(* was met through a pointer is forgotten when it comes up once more.      *)
Configuration == [queue : Seq(Types), seen : SUBSET Types, met : SUBSET Types]
Seen(c) == c.seen \cup {Head(c.queue)}
Met(c) == IF IsPointer(Head(c.queue)) THEN c.met \cup {Head(c.queue)} ELSE c.met

ComesUpAgain(c, slots) ==
  LET t == Head(c.queue)
  IN  /\ t[1] = "struct" /\ t \notin Met(c)
      /\ \E child \in Range(Children(t, slots)) \cap Seen(c) : child[1] = "struct"

(* The queue behind which those children stand that were not seen before. *)
Pushed(queue, children, seen) ==
  LET After[k \in 0..Len(children)] ==
        IF k = 0 THEN queue
        ELSE IF children[k] \in seen THEN After[k - 1]
        ELSE Append(After[k - 1], children[k])
  IN  After[Len(children)]

Turn(c, slots) ==
  LET t == Head(c.queue)
      children == Children(t, slots)
  IN  [queue |-> Pushed(Tail(c.queue), children, Seen(c)),
       seen |-> Seen(c),
       met |-> IF t \in Met(c) THEN Met(c) \cup Range(children)
               ELSE Met(c) \ Range(children)]

Answers == {"canonical", "incomplete", "recursive"}
IsCanonical(t, slots) ==
  LET Search[c \in Configuration] ==
        IF c.queue = <<>> THEN "canonical"
        ELSE IF Head(c.queue)[1] = "ref" THEN "incomplete"
        ELSE IF ComesUpAgain(c, slots) THEN "recursive"
        ELSE Search[Turn(c, slots)]
  IN  Search[[queue |-> <<t>>, seen |-> {}, met |-> {}]]

Init ==
  /\ program \in Programs
  /\ pc = "prechecking"
  /\ at = <<1, 0>>
  /\ type = [n \in Nodes |-> Declared(n)]
  /\ slot = [n \in MemberNodes |-> Declared(n)]
  /\ depends = {}
  /\ checked = {}

-----------------------------------------------------------------------------
(* TypePrecheck. *)

(* check_type of the type of the node: what becomes of the type, what the  *)
(* dependency graph gains, or the error.                                   *)
Named(t) == t[2]
NeedsName(t) == t[1] \in {"ref", "pointer_to_ref"}
Canonical(t) == IsCanonical(t, slot)

TypeChecked(t) ==
  CASE t[1] = "ref" -> Struct(Named(t))
    [] t[1] = "pointer_to_ref" /\ Canonical(Struct(Named(t))) = "canonical" -> Pointer(Named(t))
    [] OTHER -> t

NewDependency(t, n) ==
  IF NeedsName(t) /\ Canonical(Struct(Named(t))) = "incomplete"
  THEN {<<Decl(Named(t)), n>>} ELSE {}

CheckFails(t) ==
  IF NeedsName(t) /\ ~IsStruct(Named(t)) THEN "unknown"
  ELSE IF NeedsName(t) /\ Canonical(Struct(Named(t))) = "recursive" THEN "recursive"
  ELSE "no"

Fails(error) ==
  /\ pc' = error
  /\ UNCHANGED <<program, at, type, slot, depends, checked>>

NextNode(n) ==
  IF n[2] < Len(program[n[1]].members) THEN <<n[1], n[2] + 1>>
  ELSE <<n[1] + 1, 0>>

(* A struct depends on a member whose type, here t, is not complete and    *)
(* not a pointer.  Slips: no such dependency, pointers included, swapped.  *)
NoMemberDependency(t, n) == {}
AnyMemberDependency(t, n) ==
  IF Canonical(t) = "incomplete" THEN {<<n, Decl(n[1])>>} ELSE {}
SwappedDependency(t, n) ==
  IF Canonical(t) = "incomplete" /\ ~IsPointer(t) THEN {<<Decl(n[1]), n>>} ELSE {}

MemberDependency(t, n) ==
  IF Canonical(t) = "incomplete" /\ ~IsPointer(t) THEN {<<n, Decl(n[1])>>} ELSE {}

(* The visitor of StructDecl: to its members, and for one of them. *)
EnterStruct(n) ==
  /\ pc = "prechecking" /\ at = n /\ n \in Nodes \ MemberNodes /\ IsStruct(n[1])
  /\ at' = NextNode(n)
  /\ UNCHANGED <<program, pc, type, slot, depends, checked>>

PrecheckMember(n) ==
  LET t == TypeChecked(type[n])
  IN  /\ pc = "prechecking" /\ at = n /\ n \in MemberNodes /\ IsStruct(n[1])
      /\ IF CheckFails(type[n]) # "no" THEN Fails(CheckFails(type[n]))
         ELSE IF Canonical(t) = "recursive" THEN Fails("recursive")
         ELSE /\ type' = [type EXCEPT ![n] = t]
              /\ slot' = [slot EXCEPT ![n] = t]
              /\ depends' = depends \cup NewDependency(type[n], n) \cup MemberDependency(t, n)
              /\ at' = NextNode(n)
              /\ UNCHANGED <<program, pc, checked>>

(* The visitor of FunctionDecl, for the result or one argument.            *)
PrecheckFunction(n) ==
  /\ pc = "prechecking" /\ at = n /\ n \in Nodes /\ ~IsStruct(n[1])
  /\ IF CheckFails(type[n]) # "no" THEN Fails(CheckFails(type[n]))
     ELSE /\ type' = [type EXCEPT ![n] = TypeChecked(type[n])]
          /\ depends' = depends \cup NewDependency(type[n], n)
          /\ at' = NextNode(n)
          /\ UNCHANGED <<program, pc, slot, checked>>

EndPrecheck ==
  /\ pc = "prechecking" /\ at[1] \notin Items
  /\ pc' = "sorting"
  /\ UNCHANGED <<program, at, type, slot, depends, checked>>

-----------------------------------------------------------------------------
(* TypeCheck. *)
GraphNodes == {e[1] : e \in depends} \cup {e[2] : e \in depends}
HasCycle(edges) ==
  \E cycle \in SUBSET {e[1] : e \in edges} :
    cycle # {} /\ \A n \in cycle : \E d \in cycle : <<d, n>> \in edges

Sort ==
  /\ pc = "sorting"
  /\ pc' = IF HasCycle(depends) THEN "cyclic" ELSE "checking"
  /\ UNCHANGED <<program, at, type, slot, depends, checked>>

(* resolve_type: references are to structs by now, known ones.  The slip   *)
(* leaves the pointers to them.                                            *)
ResolvedByValue(t) == IF t[1] = "ref" THEN Struct(t[2]) ELSE t
Resolved(t) ==
  CASE t[1] = "ref" -> Struct(t[2])
    [] t[1] = "pointer_to_ref" -> Pointer(t[2])
    [] OTHER -> t

NodesOf(n) == {m \in Nodes : m = n \/ (n[2] = 0 /\ m[1] = n[1])}

(* The visitor of a struct resolves its slots, that of a function what it  *)
(* returns and its arguments, that of a member or argument its own type.   *)
Visit(n) ==
  /\ IF n[2] = 0 /\ IsStruct(n[1])
     THEN /\ slot' = [m \in MemberNodes |->
                        IF m \in NodesOf(n) THEN Resolved(slot[m]) ELSE slot[m]]
          /\ UNCHANGED type
     ELSE /\ type' = [m \in Nodes |->
                        IF m \in NodesOf(n) THEN Resolved(type[m]) ELSE type[m]]
          /\ UNCHANGED slot
  /\ checked' = checked \cup {n}
  /\ UNCHANGED <<program, at, depends>>

CheckSorted(n) ==
  /\ pc = "checking"
  /\ n \in GraphNodes \ checked
  /\ \A e \in depends : e[2] = n => e[1] \in checked
  /\ Visit(n)
  /\ UNCHANGED pc

(* The items that are not in the graph, in their order. *)
CheckRemaining(i) ==
  /\ pc = "checking"
  /\ GraphNodes \subseteq checked
  /\ i \in Items /\ Decl(i) \notin checked
  /\ \A j \in 1..(i - 1) : Decl(j) \in checked
  /\ Visit(Decl(i))
  /\ UNCHANGED pc

Accept ==
  /\ pc = "checking"
  /\ \A i \in Items : Decl(i) \in checked
  /\ GraphNodes \subseteq checked
  /\ pc' = "accepted"
  /\ UNCHANGED <<program, at, type, slot, depends, checked>>

Next ==
  \/ EnterStruct(at)
  \/ PrecheckMember(at)
  \/ PrecheckFunction(at)
  \/ EndPrecheck
  \/ Sort
  \/ \E n \in Nodes : CheckSorted(n)
  \/ \E i \in Items : CheckRemaining(i)
  \/ Accept

Spec == Init /\ [][Next]_vars

-----------------------------------------------------------------------------
TypeOK ==
  /\ pc \in {"prechecking", "sorting", "checking", "accepted",
             "unknown", "recursive", "cyclic"}
  /\ at \in Nodes \cup {<<Len(program) + 1, 0>>}
  /\ DOMAIN type = Nodes /\ DOMAIN slot = MemberNodes
  /\ depends \subseteq Nodes \X Nodes
  /\ checked \subseteq Nodes

(* What a struct holds by value. *)
Holds == {e \in Items \X Items :
            IsStruct(e[1]) /\ \E k \in Members(e[1]) : program[e[1]].members[k] = Ref(e[2])}
HeldBy(i) ==
  LET Complete ==
        {held \in SUBSET Items : \A e \in Holds : e[1] \in held => e[2] \in held}
  IN  {j \in Items : \A held \in Complete : i \in held => j \in held}

(* A struct that holds itself, directly or through others, is reported:    *)
(* no such program is accepted.                                            *)
CyclesAreReported == pc = "accepted" => ~HasCycle(Holds)

(* Errors have their reasons: a cyclic dependency is one of values, never  *)
(* of pointers alone, and only a program in which a struct that is held is *)
(* named by one more member is rejected for recursion.                     *)
ComesUpTwice ==
  \E m, n \in {n \in MemberNodes : IsStruct(n[1])} :
    /\ m # n
    /\ NeedsName(Declared(m)) /\ Declared(n) = Ref(Named(Declared(m)))
CyclicOnlyByValue == pc = "cyclic" => HasCycle(Holds)
RecursiveOrShared == pc = "recursive" => HasCycle(Holds) \/ ComesUpTwice
UnknownIsUndeclared ==
  pc = "unknown" =>
    \E n \in Nodes : NeedsName(Declared(n)) /\ ~IsStruct(Named(Declared(n)))
ErrorsJustified == CyclicOnlyByValue /\ RecursiveOrShared /\ UnknownIsUndeclared

(* An accepted program has no reference left in the member types of its    *)
(* structs or in the types of its functions, and every type is the one     *)
(* that was declared.                                                      *)
AllResolved ==
  pc = "accepted" =>
    /\ \A n \in MemberNodes : IsStruct(n[1]) => slot[n] = Resolved(Declared(n))
    /\ \A n \in Nodes : ~IsStruct(n[1]) => type[n] = Resolved(Declared(n))

(* The order of the second pass is right: a struct from the dependency     *)
(* graph is visited when all it holds by value has its types resolved.     *)
HeldAreComplete ==
  \A i \in Items :
    Decl(i) \in checked /\ IsStruct(i) =>
      \A j \in HeldBy(i) : \A k \in Members(j) : ~NeedsName(slot[<<j, k>>])

(* "Recursive type reference without using a pointer" is what the error    *)
(* says: it is raised only if a struct holds itself.                       *)
RecursiveIsRecursive == pc = "recursive" => HasCycle(Holds)

=============================================================================
