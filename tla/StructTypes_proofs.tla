------------------------- MODULE StructTypes_proofs -------------------------
(***************************************************************************)
(* Proofs about StructTypes, for every set of programs: its variables keep *)
(* their types; a program that is accepted has every type resolved to the  *)
(* one declared; a struct is visited when what it holds by value is        *)
(* complete; structs that hold themselves are never accepted; and every    *)
(* error has its reason.                                                   *)
(***************************************************************************)
EXTENDS StructTypes, FiniteSetTheorems, WellFoundedInduction, TLAPS

ProgramOK == program \in Seq(PossibleItem)

(* A type is the one declared, or that with its reference resolved.        *)
StagesOf(t) == {t, Resolved(t)}
Staged ==
  /\ \A n \in Nodes : type[n] \in StagesOf(Declared(n))
  /\ \A n \in MemberNodes : slot[n] \in StagesOf(Declared(n))

(* The types that the second pass is done with.                            *)
DoneWith(i) ==
  IF IsStruct(i)
  THEN \A k \in Members(i) : slot[<<i, k>>] = Resolved(Declared(<<i, k>>))
  ELSE \A n \in Nodes : n[1] = i => type[n] = Resolved(Declared(n))
Finished ==
  /\ pc \in {"prechecking", "sorting"} => checked = {}
  /\ \A i \in Items : Decl(i) \in checked => DoneWith(i)
  /\ pc = "accepted" => \A i \in Items : Decl(i) \in checked

(* The edges of the dependency graph: from a struct to what names it, and  *)
(* from a member that is not a pointer to its struct.                      *)
NameEdge(e) ==
  /\ e[2] \in Nodes
  /\ \E j \in Items : /\ e[1] = Decl(j) /\ IsStruct(j)
                      /\ Declared(e[2]) \in {Ref(j), PointerToRef(j)}
MemberEdge(e) ==
  /\ e[1] \in MemberNodes
  /\ IsStruct(e[1][1]) /\ e[2] = Decl(e[1][1]) /\ ~IsPointer(Declared(e[1]))
EdgesExplained ==
  \A e \in depends : e = <<e[1], e[2]>> /\ (NameEdge(e) \/ MemberEdge(e))

CyclicHasCycle == pc = "cyclic" => HasCycle(depends)

IInv ==
  /\ ProgramOK /\ TypeOK /\ Staged /\ Finished
  /\ EdgesExplained /\ CyclicHasCycle /\ UnknownIsUndeclared

-----------------------------------------------------------------------------
(* What is known of an item.                                               *)
LEMMA ItemFacts ==
  ASSUME ProgramOK, NEW i \in Items
  PROVE  /\ program[i].result \in DeclaredTypes
         /\ program[i].members \in Seq(DeclaredTypes)
         /\ Members(i) = 1..Len(program[i].members)
         /\ Members(i) \subseteq Nat \ {0}
         /\ Len(program[i].members) \in Nat
<1>1. program[i] \in PossibleItem
  BY DEF ProgramOK, Items
<1>2. /\ program[i].result \in DeclaredTypes
      /\ program[i].members \in Seq(DeclaredTypes)
  BY <1>1 DEF PossibleItem
<1>3. /\ DOMAIN program[i].members = 1..Len(program[i].members)
      /\ Len(program[i].members) \in Nat
  BY <1>2
<1> QED BY <1>2, <1>3 DEF Members

(* A node is a pair of an item and the number of a member, 0 for the item. *)
LEMMA NodeFacts ==
  ASSUME ProgramOK, NEW n \in Nodes
  PROVE  /\ n = <<n[1], n[2]>> /\ n[1] \in Items /\ n[2] \in Nat
         /\ n[2] = 0 \/ n[2] \in Members(n[1])
         /\ n[2] = 0 <=> n \notin MemberNodes
<1>0. ASSUME NEW i \in Items
      PROVE  Members(i) \subseteq Nat \ {0}
  BY ItemFacts
<1>1. CASE n \in {Decl(i) : i \in Items}
  BY <1>0, <1>1 DEF Decl, MemberNodes
<1>2. CASE n \in MemberNodes
  BY <1>0, <1>2 DEF MemberNodes
<1> QED BY <1>1, <1>2 DEF Nodes

(* The type of a declaration is primitive, named, or the struct declared.  *)
LEMMA DeclaredFacts ==
  ASSUME ProgramOK, NEW n \in Nodes
  PROVE  \/ Declared(n) = Prim
         \/ \E j \in Nat : Declared(n) \in {Ref(j), PointerToRef(j)}
         \/ Declared(n) = Struct(n[1]) /\ n[2] = 0 /\ IsStruct(n[1])
<1>1. n[1] \in Items /\ (n[2] = 0 \/ n[2] \in Members(n[1]))
  BY NodeFacts
<1>3. program[n[1]].result \in DeclaredTypes
  BY <1>1, ItemFacts
<1>4. n[2] \in Members(n[1]) => program[n[1]].members[n[2]] \in DeclaredTypes
  BY <1>1, ItemFacts
<1>5. \A t \in DeclaredTypes :
        t = Prim \/ \E j \in Nat : t \in {Ref(j), PointerToRef(j)}
  <2>1. \A t \in {"ref"} \X Nat : \E j \in Nat : t = <<"ref", j>>
    OBVIOUS
  <2>2. \A t \in {"pointer_to_ref"} \X Nat :
          \E j \in Nat : t = <<"pointer_to_ref", j>>
    OBVIOUS
  <2> QED BY <2>1, <2>2 DEF DeclaredTypes, Ref, PointerToRef
<1>6. CASE n[2] # 0
  BY <1>1, <1>4, <1>5, <1>6 DEF Declared
<1>7. CASE n[2] = 0
  BY <1>3, <1>5, <1>7 DEF Declared
<1> QED BY <1>6, <1>7

(* What becomes of the types of each kind.                                 *)
LEMMA Kinds ==
  ASSUME NEW i
  PROVE  /\ ~NeedsName(Prim) /\ ~NeedsName(Struct(i)) /\ ~NeedsName(Pointer(i))
         /\ NeedsName(Ref(i)) /\ NeedsName(PointerToRef(i))
         /\ Named(Ref(i)) = i /\ Named(PointerToRef(i)) = i
         /\ ~IsPointer(Prim) /\ ~IsPointer(Ref(i)) /\ ~IsPointer(Struct(i))
         /\ IsPointer(PointerToRef(i)) /\ IsPointer(Pointer(i))
         /\ Resolved(Prim) = Prim /\ Resolved(Struct(i)) = Struct(i)
         /\ Resolved(Pointer(i)) = Pointer(i)
         /\ Resolved(Ref(i)) = Struct(i) /\ Resolved(PointerToRef(i)) = Pointer(i)
  BY DEF Prim, Ref, PointerToRef, Struct, Pointer,
         NeedsName, Named, IsPointer, Resolved

(* What the first pass makes of them.                                     *)
LEMMA Checking ==
  ASSUME NEW i
  PROVE  /\ TypeChecked(Prim) = Prim /\ TypeChecked(Struct(i)) = Struct(i)
         /\ TypeChecked(Pointer(i)) = Pointer(i)
         /\ TypeChecked(Ref(i)) = Struct(i)
         /\ TypeChecked(PointerToRef(i)) \in {PointerToRef(i), Pointer(i)}
  BY DEF Prim, Ref, PointerToRef, Struct, Pointer, Named, TypeChecked

(* A declared type is resolved once and for all, the first pass only goes  *)
(* the same way, and pointers stay pointers.                               *)
LEMMA Resolving ==
  ASSUME ProgramOK, NEW n \in Nodes, NEW t \in StagesOf(Declared(n))
  PROVE  /\ Resolved(t) = Resolved(Declared(n))
         /\ TypeChecked(t) \in StagesOf(Declared(n))
         /\ t = Resolved(Declared(n)) => TypeChecked(t) = t
         /\ IsPointer(TypeChecked(t)) <=> IsPointer(Declared(n))
         /\ NeedsName(t) =>
              t = Declared(n) /\ t \in {Ref(Named(t)), PointerToRef(Named(t))}
<1>1. CASE Declared(n) = Prim \/ Declared(n) = Struct(n[1])
  BY <1>1, Kinds, Checking DEF StagesOf
<1>2. CASE \E j \in Nat : Declared(n) = Ref(j)
  <2>1. PICK j \in Nat : Declared(n) = Ref(j)
    BY <1>2
  <2>2. t \in {Ref(j), Struct(j)}
    BY <2>1, Kinds DEF StagesOf
  <2> QED BY <2>1, <2>2, Kinds, Checking DEF StagesOf
<1>3. CASE \E j \in Nat : Declared(n) = PointerToRef(j)
  <2>1. PICK j \in Nat : Declared(n) = PointerToRef(j)
    BY <1>3
  <2>2. t \in {PointerToRef(j), Pointer(j)}
    BY <2>1, Kinds DEF StagesOf
  <2> QED BY <2>1, <2>2, Kinds, Checking DEF StagesOf
<1> QED BY <1>1, <1>2, <1>3, DeclaredFacts

-----------------------------------------------------------------------------
(* The initial states.                                                     *)
LEMMA InitInvariant == Init => IInv
<1> SUFFICES ASSUME Init PROVE IInv
  OBVIOUS
<1>1. ProgramOK
  BY ProgramsAssumption DEF Init, ProgramOK
<1>2. TypeOK
  <2>1. at \in Nodes \cup {<<Len(program) + 1, 0>>}
    <3>1. CASE Items = {}
      BY <1>1, <3>1 DEF Init, Items, IsStruct, ProgramOK
    <3>2. CASE Items # {}
      <4>1. 1 \in Items
        BY <1>1, <3>2 DEF Items, ProgramOK
      <4> QED BY <4>1 DEF Init, Nodes, Decl
    <3> QED BY <3>1, <3>2
  <2> QED BY <2>1 DEF Init, TypeOK
<1>3. Staged
  BY DEF Init, Staged, StagesOf, Nodes
<1>4. Finished /\ EdgesExplained /\ CyclicHasCycle /\ UnknownIsUndeclared
  BY DEF Init, Finished, EdgesExplained, CyclicHasCycle, UnknownIsUndeclared
<1> QED BY <1>1, <1>2, <1>3, <1>4 DEF IInv

(* The node after one of the program is another one, or the end.           *)
LEMMA NextNodeType ==
  ASSUME ProgramOK, NEW n \in Nodes
  PROVE  NextNode(n) \in Nodes \cup {<<Len(program) + 1, 0>>}
<1>1. n[1] \in Items /\ n[2] \in Nat
  BY NodeFacts
<1>2. CASE n[2] < Len(program[n[1]].members)
  <2>1. n[2] + 1 \in Members(n[1])
    BY <1>1, <1>2, ItemFacts
  <2> QED BY <1>1, <1>2, <2>1 DEF NextNode, Nodes, MemberNodes
<1>3. CASE ~(n[2] < Len(program[n[1]].members))
  <2>1. n[1] + 1 \in Items \/ (n[1] + 1 = Len(program) + 1 /\ n[1] + 1 \notin Items)
    BY <1>1 DEF ProgramOK, Items
  <2>2. CASE n[1] + 1 \in Items
    BY <1>3, <2>2 DEF NextNode, Nodes, Decl
  <2>3. CASE n[1] + 1 = Len(program) + 1 /\ n[1] + 1 \notin Items
    BY <1>3, <2>3 DEF NextNode
  <2> QED BY <2>1, <2>2, <2>3
<1> QED BY <1>2, <1>3

-----------------------------------------------------------------------------
(* The steps.                                                              *)

(* What is said of the program alone does not change.                      *)
LEMMA Frame ==
  ASSUME program' = program
  PROVE  /\ ProgramOK' <=> ProgramOK
         /\ Nodes' = Nodes /\ MemberNodes' = MemberNodes /\ Items' = Items
         /\ \A i : Members(i)' = Members(i) /\ (IsStruct(i)' <=> IsStruct(i))
         /\ \A n : Declared(n)' = Declared(n)
  BY DEF ProgramOK, Nodes, MemberNodes, Items, Members, IsStruct, Declared

(* Steps that only move on.                                                *)
LEMMA MovesOn ==
  ASSUME IInv, UNCHANGED <<program, type, slot, depends, checked>>,
         at' \in Nodes \cup {<<Len(program) + 1, 0>>},
         pc' \in {"prechecking", "sorting", "checking", "accepted",
                  "unknown", "recursive", "cyclic"},
         pc' \in {"prechecking", "sorting"} => checked = {},
         pc' = "accepted" => \A i \in Items : Decl(i) \in checked,
         pc' = "cyclic" => HasCycle(depends),
         pc' = "unknown" =>
           \E n \in Nodes : NeedsName(Declared(n)) /\ ~IsStruct(Named(Declared(n)))
  PROVE  IInv'
<1>1. ProgramOK' /\ TypeOK'
  BY Frame DEF IInv, TypeOK
<1>2. Staged'
  BY Frame DEF IInv, Staged
<1>3. Finished'
  <2>1. \A i : DoneWith(i)' <=> DoneWith(i)
    BY Frame DEF DoneWith
  <2> QED BY <2>1, Frame DEF IInv, Finished, Decl
<1>4. EdgesExplained'
  <2>1. \A e : (NameEdge(e)' <=> NameEdge(e)) /\ (MemberEdge(e)' <=> MemberEdge(e))
    BY Frame DEF NameEdge, MemberEdge
  <2> QED BY <2>1 DEF IInv, EdgesExplained
<1>5. CyclicHasCycle'
  BY DEF CyclicHasCycle, HasCycle
<1>6. UnknownIsUndeclared'
  BY Frame DEF UnknownIsUndeclared
<1> QED BY <1>1, <1>2, <1>3, <1>4, <1>5, <1>6 DEF IInv

(* An edge that the first pass adds has a reason.                          *)
LEMMA NewEdges ==
  ASSUME IInv, NEW n \in Nodes, CheckFails(type[n]) = "no",
         NEW e \in NewDependency(type[n], n)
  PROVE  e = <<e[1], e[2]>> /\ NameEdge(e) /\ e \in Nodes \X Nodes
<1> DEFINE j == Named(type[n])
<1>1. NeedsName(type[n]) /\ e = <<Decl(j), n>>
  BY DEF NewDependency
<1>2. IsStruct(j)
  BY <1>1 DEF CheckFails
<1>3. type[n] = Declared(n) /\ type[n] \in {Ref(j), PointerToRef(j)}
  BY <1>1, Resolving DEF IInv, Staged
<1> QED BY <1>1, <1>2, <1>3 DEF NameEdge, IsStruct, Nodes

(* So has the one from a member to its struct.                             *)
LEMMA NewMemberEdges ==
  ASSUME IInv, NEW n \in MemberNodes, IsStruct(n[1]),
         NEW e \in MemberDependency(TypeChecked(type[n]), n)
  PROVE  e = <<e[1], e[2]>> /\ MemberEdge(e) /\ e \in Nodes \X Nodes
<1>1. e = <<n, Decl(n[1])>> /\ ~IsPointer(TypeChecked(type[n]))
  BY DEF MemberDependency
<1>2. n \in Nodes
  BY DEF Nodes
<1>3. ~IsPointer(Declared(n))
  BY <1>1, <1>2, Resolving DEF IInv, Staged
<1>4. Decl(n[1]) \in Nodes
  BY DEF IsStruct, Nodes
<1> QED BY <1>1, <1>2, <1>3, <1>4 DEF MemberEdge

(* What is finished stays so when the first pass checks a type.            *)
LEMMA PrecheckPreserves ==
  ASSUME IInv, NEW n \in Nodes, CheckFails(type[n]) = "no",
         UNCHANGED <<program, pc, checked>>, at' = NextNode(n),
         type' = [type EXCEPT ![n] = TypeChecked(type[n])],
         \/ slot' = slot
         \/ n \in MemberNodes /\ slot' = [slot EXCEPT ![n] = TypeChecked(type[n])],
         \A e \in depends' \ depends :
           /\ e = <<e[1], e[2]>> /\ e \in Nodes \X Nodes
           /\ NameEdge(e) \/ MemberEdge(e),
         pc = "prechecking"
  PROVE  IInv'
<1>0. ProgramOK /\ TypeOK /\ Staged
  BY DEF IInv
<1>1. TypeOK'
  <2>1. at' \in Nodes \cup {<<Len(program) + 1, 0>>}
    BY <1>0, NextNodeType
  <2> QED BY <1>0, <2>1, Frame DEF TypeOK
<1>2. TypeChecked(type[n]) \in StagesOf(Declared(n))
  BY <1>0, Resolving DEF Staged
<1>3. Staged'
  <2>1. \A m \in Nodes : type'[m] \in StagesOf(Declared(m))
    BY <1>0, <1>2 DEF Staged, TypeOK
  <2>2. \A m \in MemberNodes : slot'[m] \in StagesOf(Declared(m))
    BY <1>0, <1>2 DEF Staged, TypeOK
  <2> QED BY <2>1, <2>2, Frame DEF Staged
<1>4. EdgesExplained'
  <2>1. \A e : (NameEdge(e)' <=> NameEdge(e)) /\ (MemberEdge(e)' <=> MemberEdge(e))
    BY Frame DEF NameEdge, MemberEdge
  <2> QED BY <2>1 DEF IInv, EdgesExplained
<1>5. CyclicHasCycle' /\ UnknownIsUndeclared'
  BY DEF CyclicHasCycle, UnknownIsUndeclared
<1>6. Finished'
  BY DEF IInv, Finished
<1> QED BY <1>0, <1>1, <1>3, <1>4, <1>5, <1>6, Frame DEF IInv

(* The errors check_type has.                                              *)
LEMMA CheckErrors ==
  ASSUME NEW t
  PROVE  CheckFails(t) \in {"no", "unknown", "recursive"}
  BY DEF CheckFails

(* The error is raised for the type the node was declared with.            *)
LEMMA FailsPreserves ==
  ASSUME IInv, NEW n \in Nodes,
         NEW error \in {"unknown", "recursive"}, Fails(error),
         error \in {CheckFails(type[n]), "recursive"}
  PROVE  IInv'
<1>1. ASSUME error = "unknown"
      PROVE  NeedsName(Declared(n)) /\ ~IsStruct(Named(Declared(n)))
  <2>1. NeedsName(type[n]) /\ ~IsStruct(Named(type[n]))
    BY <1>1 DEF CheckFails
  <2>2. type[n] = Declared(n)
    BY <2>1, Resolving DEF IInv, Staged
  <2> QED BY <2>1, <2>2
<1> QED BY <1>1, MovesOn DEF Fails, IInv, TypeOK

(* The visitors of TypePrecheck.                                           *)
LEMMA PrecheckMemberPreserves ==
  ASSUME IInv, NEW n, PrecheckMember(n)
  PROVE  IInv'
<1> DEFINE t == TypeChecked(type[n])
<1>1. /\ pc = "prechecking" /\ at = n
      /\ n \in MemberNodes /\ IsStruct(n[1]) /\ n \in Nodes
  BY DEF PrecheckMember, Nodes
<1>2. CASE CheckFails(type[n]) # "no"
  <2>1. Fails(CheckFails(type[n]))
    BY <1>2 DEF PrecheckMember
  <2> QED BY <1>1, <1>2, <2>1, CheckErrors, FailsPreserves
<1>3. CASE CheckFails(type[n]) = "no" /\ Canonical(t) = "recursive"
  <2>1. Fails("recursive")
    BY <1>3 DEF PrecheckMember
  <2> QED BY <1>1, <2>1, FailsPreserves
<1>4. CASE CheckFails(type[n]) = "no" /\ Canonical(t) # "recursive"
  <2>1. /\ type' = [type EXCEPT ![n] = t]
        /\ slot' = [slot EXCEPT ![n] = t]
        /\ depends' =
             depends \cup NewDependency(type[n], n) \cup MemberDependency(t, n)
        /\ at' = NextNode(n)
        /\ UNCHANGED <<program, pc, checked>>
    BY <1>4 DEF PrecheckMember
  <2>2. \A e \in depends' \ depends :
          /\ e = <<e[1], e[2]>> /\ e \in Nodes \X Nodes
          /\ NameEdge(e) \/ MemberEdge(e)
    BY <1>1, <1>4, <2>1, NewEdges, NewMemberEdges
  <2> QED BY <1>1, <1>4, <2>1, <2>2, PrecheckPreserves
<1> QED BY <1>2, <1>3, <1>4

(* The same for the result and the arguments of a function.               *)
LEMMA PrecheckFunctionPreserves ==
  ASSUME IInv, NEW n, PrecheckFunction(n)
  PROVE  IInv'
<1>1. pc = "prechecking" /\ at = n /\ n \in Nodes
  BY DEF PrecheckFunction
<1>2. CASE CheckFails(type[n]) # "no"
  <2>1. Fails(CheckFails(type[n]))
    BY <1>2 DEF PrecheckFunction
  <2> QED BY <1>1, <1>2, <2>1, CheckErrors, FailsPreserves
<1>3. CASE CheckFails(type[n]) = "no"
  <2>1. /\ type' = [type EXCEPT ![n] = TypeChecked(type[n])]
        /\ depends' = depends \cup NewDependency(type[n], n)
        /\ at' = NextNode(n)
        /\ UNCHANGED <<program, pc, slot, checked>>
    BY <1>3 DEF PrecheckFunction
  <2>2. \A e \in depends' \ depends :
          /\ e = <<e[1], e[2]>> /\ e \in Nodes \X Nodes
          /\ NameEdge(e) \/ MemberEdge(e)
    BY <1>1, <1>3, <2>1, NewEdges
  <2> QED BY <1>1, <1>3, <2>1, <2>2, PrecheckPreserves
<1> QED BY <1>2, <1>3

(* Entering a struct only moves on.                                        *)
LEMMA EnterStructPreserves ==
  ASSUME IInv, NEW n, EnterStruct(n)
  PROVE  IInv'
<1>1. NextNode(n) \in Nodes \cup {<<Len(program) + 1, 0>>}
  BY NextNodeType DEF EnterStruct, IInv
<1> QED BY <1>1, MovesOn
           DEF EnterStruct, IInv, Finished, CyclicHasCycle, UnknownIsUndeclared

(* The steps from one pass to the next.                                    *)
LEMMA MovingPreserves ==
  ASSUME IInv, EndPrecheck \/ Sort \/ Accept
  PROVE  IInv'
<1>1. CASE EndPrecheck
  BY <1>1, MovesOn DEF EndPrecheck, IInv, TypeOK, Finished
<1>2. CASE Sort
  BY <1>2, MovesOn DEF Sort, IInv, TypeOK, Finished
<1>3. CASE Accept
  BY <1>3, MovesOn DEF Accept, IInv, TypeOK
<1> QED BY <1>1, <1>2, <1>3

(* A visit resolves types that were declared, and finishes the node of an  *)
(* item; what was finished stays so.                                       *)
LEMMA VisitPreserves ==
  ASSUME IInv, NEW n \in Nodes, Visit(n), pc = "checking", pc' = pc
  PROVE  IInv'
<1>0. /\ ProgramOK /\ TypeOK /\ Staged /\ Finished
      /\ checked' = checked \cup {n} /\ UNCHANGED <<program, at, depends>>
  BY DEF IInv, Visit
<1> DEFINE Keeps ==
             /\ DOMAIN type' = Nodes /\ DOMAIN slot' = MemberNodes
             /\ \A m \in Nodes : type'[m] \in {type[m], Resolved(Declared(m))}
             /\ \A m \in MemberNodes :
                  slot'[m] \in {slot[m], Resolved(Declared(m))}
             /\ \A i \in Items : Decl(i) \in checked' => DoneWith(i)'
<1>1. ASSUME n[2] = 0 /\ IsStruct(n[1])
      PROVE  Keeps
  <2>1. /\ slot' = [m \in MemberNodes |->
                      IF m \in NodesOf(n) THEN Resolved(slot[m]) ELSE slot[m]]
        /\ type' = type
    BY <1>1 DEF Visit
  <2>2. \A m \in MemberNodes : slot[m] \in StagesOf(Declared(m)) /\ m \in Nodes
    BY <1>0 DEF Staged, Nodes
  <2>3. \A m \in MemberNodes : Resolved(slot[m]) = Resolved(Declared(m))
    BY <1>0, <2>2, Resolving
  <2>4. \A m \in MemberNodes :
          /\ slot'[m] \in {slot[m], Resolved(Declared(m))}
          /\ m[1] = n[1] => slot'[m] = Resolved(Declared(m))
    BY <1>1, <2>1, <2>2, <2>3 DEF NodesOf
  <2>5. \A i \in Items : \A k \in Members(i) : <<i, k>> \in MemberNodes
    BY DEF MemberNodes
  <2>6. DOMAIN slot' = MemberNodes
    BY <2>1
  <2>7. \A i \in Items : Decl(i) \in checked' => DoneWith(i)'
    <3> SUFFICES ASSUME NEW i \in Items, Decl(i) \in checked' PROVE DoneWith(i)'
      OBVIOUS
    <3>1. CASE IsStruct(i)
      <4>1. DoneWith(i) \/ i = n[1]
        BY <1>0 DEF Finished, Decl
      <4>2. \A k \in Members(i) : slot'[<<i, k>>] = Resolved(Declared(<<i, k>>))
        BY <2>4, <2>5, <3>1, <4>1 DEF DoneWith
      <4> QED BY <1>0, <3>1, <4>2, Frame DEF DoneWith
    <3>2. CASE ~IsStruct(i)
      <4>1. Decl(i) \in checked
        BY <1>0, <1>1, <3>2 DEF Decl
      <4> QED BY <1>0, <2>1, <3>2, <4>1, Frame DEF DoneWith, Finished
    <3> QED BY <3>1, <3>2
  <2> QED BY <1>0, <2>1, <2>4, <2>6, <2>7 DEF TypeOK
<1>2. ASSUME ~(n[2] = 0 /\ IsStruct(n[1]))
      PROVE  Keeps
  <2>1. /\ type' = [m \in Nodes |->
                      IF m \in NodesOf(n) THEN Resolved(type[m]) ELSE type[m]]
        /\ slot' = slot
    BY <1>2 DEF Visit
  <2>2. \A m \in Nodes : Resolved(type[m]) = Resolved(Declared(m))
    BY <1>0, Resolving DEF Staged
  <2>3. \A m \in Nodes :
          /\ type'[m] \in {type[m], Resolved(Declared(m))}
          /\ m[1] = n[1] /\ n[2] = 0 => type'[m] = Resolved(Declared(m))
    BY <2>1, <2>2 DEF NodesOf
  <2>4. \A i \in Items : Decl(i) \in checked' => DoneWith(i)'
    <3> SUFFICES ASSUME NEW i \in Items, Decl(i) \in checked' PROVE DoneWith(i)'
      OBVIOUS
    <3>1. CASE IsStruct(i)
      <4>1. Decl(i) \in checked
        BY <1>0, <1>2, <3>1 DEF Decl
      <4> QED BY <1>0, <2>1, <3>1, <4>1, Frame DEF DoneWith, Finished
    <3>2. CASE ~IsStruct(i)
      <4>1. DoneWith(i) \/ (i = n[1] /\ n[2] = 0)
        BY <1>0 DEF Finished, Decl
      <4>2. \A m \in Nodes : m[1] = i => type'[m] = Resolved(Declared(m))
        BY <2>3, <3>2, <4>1 DEF DoneWith
      <4> QED BY <1>0, <3>2, <4>2, Frame DEF DoneWith
    <3> QED BY <3>1, <3>2
  <2> QED BY <1>0, <2>1, <2>3, <2>4 DEF TypeOK
<1>3. Keeps
  BY <1>1, <1>2
<1>4. TypeOK'
  BY <1>0, <1>3, Frame DEF TypeOK
<1>5. Staged'
  BY <1>0, <1>3, Frame DEF Staged, StagesOf
<1>6. Finished'
  BY <1>0, <1>3, Frame DEF Finished
<1>7. EdgesExplained'
  <2>1. \A e : (NameEdge(e)' <=> NameEdge(e)) /\ (MemberEdge(e)' <=> MemberEdge(e))
    BY <1>0, Frame DEF NameEdge, MemberEdge
  <2> QED BY <1>0, <2>1 DEF IInv, EdgesExplained
<1>8. CyclicHasCycle' /\ UnknownIsUndeclared'
  BY DEF CyclicHasCycle, UnknownIsUndeclared
<1> QED BY <1>0, <1>4, <1>5, <1>6, <1>7, <1>8, Frame DEF IInv

(* Every step keeps the invariant.                                         *)
THEOREM Inductive == IInv /\ [Next]_vars => IInv'
<1> SUFFICES ASSUME IInv, [Next]_vars PROVE IInv'
  OBVIOUS
<1>1. CASE PrecheckMember(at)
  BY <1>1, PrecheckMemberPreserves
<1>2. CASE PrecheckFunction(at)
  BY <1>2, PrecheckFunctionPreserves
<1>3. CASE EndPrecheck \/ Sort \/ Accept
  BY <1>3, MovingPreserves
<1>4. CASE \E n \in Nodes : CheckSorted(n)
  <2>1. PICK n \in Nodes : CheckSorted(n)
    BY <1>4
  <2> QED BY <2>1, VisitPreserves DEF CheckSorted
<1>5. CASE \E i \in Items : CheckRemaining(i)
  <2>1. PICK i \in Items : CheckRemaining(i)
    BY <1>5
  <2> QED BY <2>1, VisitPreserves DEF CheckRemaining, Nodes
<1>6. CASE EnterStruct(at)
  BY <1>6, EnterStructPreserves
<1>7. CASE UNCHANGED vars
  BY <1>7, MovesOn
     DEF vars, IInv, TypeOK, Finished, CyclicHasCycle, UnknownIsUndeclared
<1> QED BY <1>1, <1>2, <1>3, <1>4, <1>5, <1>6, <1>7 DEF Next

(* The invariant holds in every state.                                     *)
THEOREM Invariance == Spec => []IInv
  BY InitInvariant, Inductive, PTL DEF Spec

(* The variables keep their types.                                         *)
THEOREM TypeCorrect == Spec => []TypeOK
<1>1. IInv => TypeOK
  BY DEF IInv
<1> QED BY <1>1, Invariance, PTL

(* An accepted program has every type of its struct members and of its     *)
(* functions resolved to the one that was declared, whatever IsCanonical   *)
(* answered and in whatever order the graph was sorted.                    *)
THEOREM AcceptedIsResolved == Spec => []AllResolved
<1>1. IInv => AllResolved
  <2> SUFFICES ASSUME IInv, pc = "accepted"
               PROVE  /\ \A n \in MemberNodes :
                           IsStruct(n[1]) => slot[n] = Resolved(Declared(n))
                      /\ \A n \in Nodes :
                           ~IsStruct(n[1]) => type[n] = Resolved(Declared(n))
    BY DEF AllResolved
  <2>1. \A i \in Items : DoneWith(i)
    BY DEF IInv, Finished
  <2>2. \A n \in Nodes : /\ n = <<n[1], n[2]>> /\ n[1] \in Items
                         /\ n \in MemberNodes => n[2] \in Members(n[1])
    BY NodeFacts DEF IInv
  <2>3. MemberNodes \subseteq Nodes
    BY DEF Nodes
  <2> QED BY <2>1, <2>2, <2>3 DEF DoneWith
<1> QED BY <1>1, Invariance, PTL

-----------------------------------------------------------------------------
(* Cycles.                                                                 *)

(* A finite set in which everything has a successor has a part in which    *)
(* everything has a predecessor as well: a smallest one of its kind.       *)
LEMMA BothWays ==
  ASSUME NEW E, NEW T, IsFiniteSet(T), T # {},
         \A i \in T : \E j \in T : <<i, j>> \in E
  PROVE  \E U \in SUBSET T :
           /\ U # {}
           /\ \A i \in U : \E j \in U : <<i, j>> \in E
           /\ \A j \in U : \E i \in U : <<i, j>> \in E
<1> DEFINE Kind ==
             {U \in SUBSET T : U # {} /\ \A i \in U : \E j \in U : <<i, j>> \in E}
<1>1. IsWellFoundedOn(StrictSubsetOrdering(T), SUBSET T)
  BY FS_StrictSubsetOrderingWellFounded, FS_FiniteSubsetsOfFinite
<1>2. Kind \subseteq SUBSET T /\ T \in Kind
  OBVIOUS
<1>3. PICK U \in Kind : \A W \in Kind : ~(<<W, U>> \in StrictSubsetOrdering(T))
  <2> HIDE DEF Kind
  <2> QED BY <1>1, <1>2, WFMin
<1>4. ASSUME NEW j \in U, \A i \in U : <<i, j>> \notin E
      PROVE  FALSE
  <2>1. U \ {j} \in Kind
    <3>1. \A i \in U : \E k \in U : <<i, k>> \in E /\ k # j
      <4> SUFFICES ASSUME NEW i \in U PROVE \E k \in U : <<i, k>> \in E /\ k # j
        OBVIOUS
      <4>1. PICK k \in U : <<i, k>> \in E
        OBVIOUS
      <4>2. k # j
        BY <1>4, <4>1
      <4> QED BY <4>1, <4>2
    <3>2. PICK k \in U : k # j
      BY <3>1
    <3>3. k \in U \ {j}
      BY <3>2
    <3> QED BY <3>1, <3>3
  <2>2. <<U \ {j}, U>> \in StrictSubsetOrdering(T)
    BY <1>3, <1>4 DEF StrictSubsetOrdering
  <2> QED BY <1>3, <2>1, <2>2
<1> QED BY <1>3, <1>4

(* Behind a node of a cycle that is a declaration of a struct there is one *)
(* of its members, and behind that the struct the member holds.            *)
LEMMA StructBehind ==
  ASSUME IInv, NEW cycle, \A n \in cycle : \E d \in cycle : <<d, n>> \in depends,
         NEW i \in Items, IsStruct(i), Decl(i) \in cycle
  PROVE  \E j \in Items : IsStruct(j) /\ Decl(j) \in cycle /\ <<i, j>> \in Holds
<1>0. ProgramOK /\ EdgesExplained
  BY DEF IInv
<1>1. PICK m \in cycle : <<m, Decl(i)>> \in depends
  OBVIOUS
<1>2. ~NameEdge(<<m, Decl(i)>>)
  <2>1. Declared(Decl(i)) = Struct(i)
    BY DEF Declared, Decl
  <2> QED BY <2>1 DEF NameEdge, Struct, Ref, PointerToRef
<1>3. m \in MemberNodes /\ m[1] = i /\ ~IsPointer(Declared(m))
  BY <1>0, <1>1, <1>2 DEF EdgesExplained, MemberEdge, Decl
<1>4. PICK d \in cycle : <<d, m>> \in depends
  OBVIOUS
<1>5. m \in Nodes /\ m[2] \in Members(i) /\ m[2] # 0
  BY <1>0, <1>3, NodeFacts DEF Nodes
<1>6. ~MemberEdge(<<d, m>>)
  BY <1>5 DEF MemberEdge, Decl
<1>7. PICK j \in Items : /\ d = Decl(j) /\ IsStruct(j)
                        /\ Declared(m) \in {Ref(j), PointerToRef(j)}
  BY <1>0, <1>4, <1>6 DEF EdgesExplained, NameEdge
<1>8. Declared(m) = Ref(j)
  BY <1>3, <1>7, Kinds
<1>9. program[i].members[m[2]] = Ref(j)
  BY <1>3, <1>5, <1>8 DEF Declared
<1> QED BY <1>5, <1>7, <1>9 DEF Holds

(* A cycle of dependencies goes through the declaration of a struct.       *)
LEMMA StructOnCycle ==
  ASSUME IInv, NEW cycle, \A n \in cycle : \E d \in cycle : <<d, n>> \in depends,
         cycle # {}
  PROVE  \E i \in Items : IsStruct(i) /\ Decl(i) \in cycle
<1>1. PICK n \in cycle, d \in cycle : <<d, n>> \in depends
  OBVIOUS
<1>2. CASE NameEdge(<<d, n>>)
  BY <1>2 DEF NameEdge
<1>3. CASE MemberEdge(<<d, n>>)
  <2>1. n = Decl(d[1]) /\ IsStruct(d[1])
    BY <1>3 DEF MemberEdge
  <2> QED BY <2>1 DEF IsStruct
<1> QED BY <1>1, <1>2, <1>3 DEF IInv, EdgesExplained

(* What names a struct through a pointer only never makes the graph        *)
(* cyclic: when the sort reports a cycle, a struct holds itself by value.  *)
THEOREM CyclicIsJustified == Spec => []CyclicOnlyByValue
<1>1. ASSUME IInv, pc = "cyclic"
      PROVE  HasCycle(Holds)
  <2>1. PICK cycle \in SUBSET {e[1] : e \in depends} :
          cycle # {} /\ \A n \in cycle : \E d \in cycle : <<d, n>> \in depends
    BY <1>1 DEF IInv, CyclicHasCycle, HasCycle
  <2> DEFINE T == {i \in Items : IsStruct(i) /\ Decl(i) \in cycle}
  <2>2. T # {}
    BY <1>1, <2>1, StructOnCycle
  <2>3. \A i \in T : \E j \in T : <<i, j>> \in Holds
    BY <1>1, <2>1, StructBehind
  <2>4. IsFiniteSet(T)
    <3>1. IsFiniteSet(Items)
      <4>1. Items = 1..Len(program) /\ Len(program) \in Nat
        BY <1>1 DEF IInv, ProgramOK, Items
      <4> QED BY <4>1, FS_Interval
    <3> QED BY <3>1, FS_Subset
  <2> HIDE DEF T
  <2>5. PICK U \in SUBSET T :
          /\ U # {}
          /\ \A i \in U : \E j \in U : <<i, j>> \in Holds
          /\ \A j \in U : \E i \in U : <<i, j>> \in Holds
    BY <2>2, <2>3, <2>4, BothWays
  <2>6. U \subseteq {e[1] : e \in Holds}
    <3> SUFFICES ASSUME NEW i \in U PROVE \E e \in Holds : i = e[1]
      OBVIOUS
    <3>1. PICK j \in U : <<i, j>> \in Holds
      BY <2>5
    <3> QED BY <3>1
  <2> QED BY <2>5, <2>6 DEF HasCycle
<1>2. IInv => CyclicOnlyByValue
  BY <1>1 DEF CyclicOnlyByValue
<1> QED BY <1>2, Invariance, PTL

(* A name that is reported as unknown is the name of no struct.            *)
THEOREM UnknownIsJustified == Spec => []UnknownIsUndeclared
<1>1. IInv => UnknownIsUndeclared
  BY DEF IInv
<1> QED BY <1>1, Invariance, PTL

(* A set of natural numbers that is not empty has a least one.             *)
LEMMA LeastNumber ==
  ASSUME NEW S \in SUBSET Nat, S # {}
  PROVE  \E m \in S : \A j \in S : m <= j
<1>1. PICK x \in S : \A y \in S : ~(<<y, x>> \in OpToRel(<, Nat))
  BY NatLessThanWellFounded, WFMin
<1>2. \A y \in S : ~(y < x)
  BY <1>1 DEF OpToRel
<1> QED BY <1>2

(* The queues after the first m children: those of Pushed are there.       *)
QueuesAfter(f, queue, children, seen, m) ==
  f = [k \in 0..m |->
         IF k = 0 THEN queue
         ELSE IF children[k] \in seen THEN f[k - 1]
         ELSE Append(f[k - 1], children[k])]

(* There are such queues, and the last of them is the answer of Pushed.    *)
LEMMA PushedExists ==
  ASSUME NEW queue, NEW children, NEW seen, Len(children) \in Nat
  PROVE  \E f : /\ QueuesAfter(f, queue, children, seen, Len(children))
                /\ Pushed(queue, children, seen) = f[Len(children)]
<1> DEFINE After(f, m) ==
             f = [k \in 0..m |->
                    IF k = 0 THEN queue
                    ELSE IF children[k] \in seen THEN f[k - 1]
                    ELSE Append(f[k - 1], children[k])]
           Bad == {m \in Nat : ~\E f : After(f, m)}
<1>1. Bad = {}
  <2> SUFFICES ASSUME Bad # {} PROVE FALSE
    OBVIOUS
  <2>1. PICK m \in Bad : \A j \in Bad : m <= j
    BY LeastNumber
  <2>2. CASE m = 0
    <3> DEFINE f == [k \in 0..0 |-> queue]
    <3>1. After(f, 0)
      OBVIOUS
    <3> QED BY <2>1, <2>2, <3>1
  <2>3. CASE m # 0
    <3>1. m \in Nat /\ m - 1 \in Nat /\ m - 1 \notin Bad
      <4>1. m \in Nat /\ m - 1 \in Nat
        BY <2>3
      <4> HIDE DEF Bad
      <4> QED BY <2>1, <4>1
    <3>2. PICK g : After(g, m - 1)
      BY <3>1
    <3> DEFINE f == [k \in 0..m |->
                       IF k < m THEN g[k]
                       ELSE IF children[m] \in seen THEN g[m - 1]
                       ELSE Append(g[m - 1], children[m])]
    <3>3. \A k \in 0..m : k < m => f[k] = g[k]
      OBVIOUS
    <3>4. ASSUME NEW k \in 0..m
          PROVE  f[k] = IF k = 0 THEN queue
                        ELSE IF children[k] \in seen THEN f[k - 1]
                        ELSE Append(f[k - 1], children[k])
      <4>1. CASE k = m
        <5>1. m - 1 \in 0..m /\ m - 1 < m
          BY <3>1
        <5>2. f[m - 1] = g[m - 1]
          BY <3>3, <5>1
        <5> HIDE DEF After
        <5>3. f[m] = IF children[m] \in seen THEN g[m - 1]
                     ELSE Append(g[m - 1], children[m])
          BY <3>1
        <5> HIDE DEF f
        <5> QED BY <2>3, <4>1, <5>2, <5>3
      <4>2. CASE k # m
        <5>1. k \in 0..(m - 1) /\ k < m
          BY <3>1, <4>2
        <5>2. g[k] = IF k = 0 THEN queue
                     ELSE IF children[k] \in seen THEN g[k - 1]
                     ELSE Append(g[k - 1], children[k])
          BY <3>2, <5>1
        <5>3. k # 0 => k - 1 \in 0..m /\ k - 1 < m
          BY <5>1
        <5>4. k # 0 => f[k - 1] = g[k - 1]
          BY <3>3, <5>3
        <5>5. f[k] = g[k]
          BY <3>3, <5>1
        <5> HIDE DEF f, After
        <5> QED BY <5>2, <5>4, <5>5
      <4> QED BY <4>1, <4>2
    <3>5. After(f, m)
      <4>1. f = [k \in 0..m |-> f[k]]
        OBVIOUS
      <4> HIDE DEF f
      <4>2. f = [k \in 0..m |->
                   IF k = 0 THEN queue
                   ELSE IF children[k] \in seen THEN f[k - 1]
                   ELSE Append(f[k - 1], children[k])]
        BY <3>4, <4>1
      <4> QED BY <4>2
    <3> HIDE DEF After, f
    <3> QED BY <2>1, <3>5
  <2> QED BY <2>2, <2>3
<1>2. \E f : After(f, Len(children))
  BY <1>1
<1>3. Pushed(queue, children, seen) =
        (CHOOSE f : After(f, Len(children)))[Len(children)]
  BY DEF Pushed
<1>4. After(CHOOSE f : After(f, Len(children)), Len(children))
  <2> HIDE DEF After
  <2> QED BY <1>2
<1> QED BY <1>3, <1>4 DEF QueuesAfter

(* The queue p after the first k children: the queue as it was, and behind *)
(* it those of them that have not been seen, each as often as they have it.*)
QueueAfter(p, T, queue, children, seen, k) ==
  /\ p \in Seq(T) /\ Len(queue) <= Len(p)
  /\ \A i \in 1..Len(queue) : p[i] = queue[i]
  /\ \A i \in Len(queue) + 1..Len(p) :
       \E j \in 1..k : p[i] = children[j] /\ children[j] \notin seen
  /\ \A j \in 1..k : children[j] \notin seen => \E i \in 1..Len(p) : p[i] = children[j]
  /\ \A h, i \in Len(queue) + 1..Len(p) :
       h # i => \E j, l \in 1..k : j # l /\ p[h] = children[j] /\ p[i] = children[l]

(* One more child keeps what is said of the queue.                         *)
LEMMA QueueAfterNext ==
  ASSUME NEW T, NEW queue \in Seq(T), NEW children \in Seq(T), NEW seen,
         NEW k \in 1..Len(children), NEW p,
         QueueAfter(p, T, queue, children, seen, k - 1)
  PROVE  QueueAfter(IF children[k] \in seen THEN p ELSE Append(p, children[k]),
                    T, queue, children, seen, k)
<1>0. /\ p \in Seq(T) /\ Len(queue) <= Len(p) /\ Len(p) \in Nat /\ Len(queue) \in Nat
      /\ children[k] \in T /\ k \in Nat /\ k >= 1 /\ k \in 1..k
      /\ 1..(k - 1) \subseteq 1..k
      /\ \A j \in 1..k : j = k \/ j \in 1..(k - 1)
  BY DEF QueueAfter
<1>1. CASE children[k] \in seen
  <2>1. \A j \in 1..k : children[j] \notin seen => j \in 1..(k - 1)
    BY <1>0, <1>1
  <2> QED BY <1>0, <1>1, <2>1 DEF QueueAfter
<1>2. CASE children[k] \notin seen
  <2> DEFINE q == Append(p, children[k])
             n == Len(queue)
  <2>1. /\ q \in Seq(T) /\ Len(q) = Len(p) + 1
        /\ \A i \in 1..Len(p) : q[i] = p[i]
        /\ q[Len(p) + 1] = children[k]
    BY <1>0
  <2>2. \A i \in 1..Len(q) : i = Len(p) + 1 \/ i \in 1..Len(p)
    BY <1>0, <2>1
  <2>3. \A i \in n + 1..Len(q) : i = Len(p) + 1 \/ (i \in n + 1..Len(p) /\ i \in 1..Len(p))
    BY <1>0, <2>1
  <2> HIDE DEF q
  <2>4. \A i \in 1..n : q[i] = queue[i]
    <3>1. \A i \in 1..n : i \in 1..Len(p)
      BY <1>0
    <3> QED BY <2>1, <3>1 DEF QueueAfter
  <2>5. \A i \in n + 1..Len(q) :
          \E j \in 1..k : q[i] = children[j] /\ children[j] \notin seen
    <3> SUFFICES ASSUME NEW i \in n + 1..Len(q)
                 PROVE  \E j \in 1..k : q[i] = children[j] /\ children[j] \notin seen
      OBVIOUS
    <3>1. CASE i = Len(p) + 1
      BY <1>0, <1>2, <2>1, <3>1
    <3>2. CASE i \in n + 1..Len(p) /\ i \in 1..Len(p)
      <4>1. PICK j \in 1..(k - 1) : p[i] = children[j] /\ children[j] \notin seen
        BY <3>2 DEF QueueAfter
      <4> QED BY <1>0, <2>1, <3>2, <4>1
    <3> QED BY <2>3, <3>1, <3>2
  <2>6. \A j \in 1..k : children[j] \notin seen => \E i \in 1..Len(q) : q[i] = children[j]
    <3> SUFFICES ASSUME NEW j \in 1..k, children[j] \notin seen
                 PROVE  \E i \in 1..Len(q) : q[i] = children[j]
      OBVIOUS
    <3>1. CASE j = k
      <4>1. Len(p) + 1 \in 1..Len(q)
        BY <1>0, <2>1
      <4> QED BY <2>1, <3>1, <4>1
    <3>2. CASE j \in 1..(k - 1)
      <4>1. PICK i \in 1..Len(p) : p[i] = children[j]
        BY <3>2 DEF QueueAfter
      <4>2. i \in 1..Len(q)
        BY <1>0, <2>1
      <4> QED BY <2>1, <4>1, <4>2
    <3> QED BY <1>0, <3>1, <3>2
  <2>7. \A h, i \in n + 1..Len(q) :
          h # i => \E j, l \in 1..k : j # l /\ q[h] = children[j] /\ q[i] = children[l]
    <3> SUFFICES ASSUME NEW h \in n + 1..Len(q), NEW i \in n + 1..Len(q), h # i
                 PROVE  \E j, l \in 1..k : j # l /\ q[h] = children[j] /\ q[i] = children[l]
      OBVIOUS
    <3>1. ASSUME NEW g \in n + 1..Len(p), g \in 1..Len(p)
          PROVE  \E j \in 1..k : j # k /\ q[g] = children[j]
      <4>1. PICK j \in 1..(k - 1) : p[g] = children[j]
        BY <3>1 DEF QueueAfter
      <4>2. j \in 1..k /\ j # k
        BY <1>0
      <4> QED BY <2>1, <3>1, <4>1, <4>2
    <3>2. CASE h = Len(p) + 1
      <4>1. i \in n + 1..Len(p) /\ i \in 1..Len(p)
        BY <2>3, <3>2
      <4> QED BY <1>0, <2>1, <3>1, <3>2, <4>1
    <3>3. CASE i = Len(p) + 1
      <4>1. h \in n + 1..Len(p) /\ h \in 1..Len(p)
        BY <2>3, <3>3
      <4> QED BY <1>0, <2>1, <3>1, <3>3, <4>1
    <3>4. CASE /\ h \in n + 1..Len(p) /\ h \in 1..Len(p)
               /\ i \in n + 1..Len(p) /\ i \in 1..Len(p)
      <4>1. PICK j \in 1..(k - 1), l \in 1..(k - 1) :
              j # l /\ p[h] = children[j] /\ p[i] = children[l]
        BY <3>4 DEF QueueAfter
      <4>2. j \in 1..k /\ l \in 1..k
        BY <1>0
      <4> QED BY <2>1, <3>4, <4>1, <4>2
    <3> QED BY <2>3, <3>2, <3>3, <3>4
  <2>8. Len(queue) <= Len(q)
    BY <1>0, <2>1
  <2>9. QueueAfter(q, T, queue, children, seen, k)
    BY <2>1, <2>4, <2>5, <2>6, <2>7, <2>8 DEF QueueAfter
  <2> QED BY <1>2, <2>9 DEF q
<1> QED BY <1>1, <1>2

(* What Pushed gives is the queue after all of the children.               *)
LEMMA PushedFacts ==
  ASSUME NEW T, NEW queue \in Seq(T), NEW children \in Seq(T), NEW seen
  PROVE  QueueAfter(Pushed(queue, children, seen), T, queue, children, seen,
                    Len(children))
<1>0. Len(children) \in Nat
  OBVIOUS
<1>1. PICK f :
        /\ QueuesAfter(f, queue, children, seen, Len(children))
        /\ Pushed(queue, children, seen) = f[Len(children)]
  BY <1>0, PushedExists
<1> DEFINE Bad == {k \in 0..Len(children) :
                     ~QueueAfter(f[k], T, queue, children, seen, k)}
<1>2. ASSUME Bad # {}
      PROVE  FALSE
  <2>1. Bad \in SUBSET Nat
    BY <1>0
  <2>2. \A k \in 0..Len(children) :
          k \notin Bad <=> QueueAfter(f[k], T, queue, children, seen, k)
    OBVIOUS
  <2>3. Bad \subseteq 0..Len(children)
    OBVIOUS
  <2> HIDE DEF Bad
  <2>4. PICK m \in Bad : \A j \in Bad : m <= j
    BY <1>2, <2>1, LeastNumber
  <2>5. m \in 0..Len(children) /\ ~QueueAfter(f[m], T, queue, children, seen, m)
    BY <2>2, <2>3, <2>4
  <2>6. CASE m = 0
    <3>1. f[0] = queue
      BY <1>0, <1>1 DEF QueuesAfter
    <3>2. QueueAfter(queue, T, queue, children, seen, 0)
      BY DEF QueueAfter
    <3> QED BY <2>5, <2>6, <3>1, <3>2
  <2>7. CASE m # 0
    <3>1. /\ m \in 1..Len(children) /\ m - 1 \in 0..Len(children)
          /\ ~(m <= m - 1)
      BY <1>0, <2>5, <2>7
    <3>2. QueueAfter(f[m - 1], T, queue, children, seen, m - 1)
      BY <2>2, <2>4, <3>1
    <3>3. f[m] = IF children[m] \in seen THEN f[m - 1]
                 ELSE Append(f[m - 1], children[m])
      BY <1>1, <2>5, <2>7 DEF QueuesAfter
    <3> QED BY <2>5, <3>1, <3>2, <3>3, QueueAfterNext
  <2> QED BY <2>6, <2>7
<1>3. Len(children) \in 0..Len(children)
  BY <1>0
<1> QED BY <1>1, <1>2, <1>3

-----------------------------------------------------------------------------
(* What IsCanonical answers.                                               *)

(* The answer in a configuration of the search, if it ends there.          *)
Decision(c, slots) ==
  IF c.queue = <<>> THEN "canonical"
  ELSE IF Head(c.queue)[1] = "ref" THEN "incomplete"
  ELSE IF ComesUpAgain(c, slots) THEN "recursive"
  ELSE "undecided"

SlotsTyped(slots) == \A n \in MemberNodes : IsStruct(n[1]) => slots[n] \in Types

(* Below a type are types again.                                           *)
LEMMA ChildrenTyped ==
  ASSUME ProgramOK, NEW slots, SlotsTyped(slots), NEW t \in Types
  PROVE  /\ Children(t, slots) \in Seq(Types)
         /\ DOMAIN Children(t, slots) = 1..Len(Children(t, slots))
         /\ Len(Children(t, slots)) \in Nat
         /\ t \notin {Struct(i) : i \in Items} => Len(Children(t, slots)) <= 1
<1>1. CASE t = Prim
  <2>1. Children(t, slots) = <<>>
    BY <1>1 DEF Children, Prim
  <2> QED BY <2>1
<1>2. CASE t \in {"ref", "pointer_to_ref"} \X Names
  <2>1. t[2] \in Names
    BY <1>2
  <2>2. Ref(t[2]) \in Types
    BY <2>1 DEF Types, Ref
  <2>3. Children(t, slots) \in {<<>>, <<Ref(t[2])>>}
    BY <1>2 DEF Children
  <2>4. <<Ref(t[2])>> \in Seq(Types) /\ Len(<<Ref(t[2])>>) = 1
    BY <2>2
  <2>5. <<>> \in Seq(Types) /\ Len(<<>>) = 0
    OBVIOUS
  <2>6. CASE Children(t, slots) = <<>>
    BY <2>5, <2>6
  <2>7. CASE Children(t, slots) = <<Ref(t[2])>>
    BY <2>4, <2>7
  <2> QED BY <2>3, <2>6, <2>7
<1>3. CASE t \in StructTypes
  <2>1. PICK i \in Items : IsStruct(i) /\ t \in {<<"struct", i>>, <<"pointer", i>>}
    BY <1>3 DEF StructTypes
  <2>2. CASE t = <<"pointer", i>>
    <3>1. Struct(i) \in Types
      BY <2>1 DEF Types, StructTypes, Struct
    <3>2. Children(t, slots) = <<Struct(i)>>
      BY <2>2 DEF Children
    <3>3. <<Struct(i)>> \in Seq(Types) /\ Len(<<Struct(i)>>) = 1
      BY <3>1
    <3> QED BY <3>2, <3>3
  <2>3. CASE t = <<"struct", i>>
    <3>1. /\ Members(i) = 1..Len(program[i].members)
          /\ Len(program[i].members) \in Nat
      BY ItemFacts
    <3>2. \A k \in Members(i) : slots[<<i, k>>] \in Types
      <4>1. \A k \in Members(i) : <<i, k>> \in MemberNodes
        BY DEF MemberNodes
      <4> QED BY <2>1, <4>1 DEF SlotsTyped
    <3>3. Children(t, slots) = [k \in Members(i) |-> slots[<<i, k>>]]
      BY <2>3 DEF Children
    <3>4. Children(t, slots) \in Seq(Types)
      BY <3>1, <3>2, <3>3
    <3>5. t = Struct(i)
      BY <2>3 DEF Struct
    <3> QED BY <3>4, <3>5
  <2> QED BY <2>1, <2>2, <2>3
<1> QED BY <1>1, <1>2, <1>3 DEF Types

(* A turn of the search: the head of the queue is seen, and those of its   *)
(* children that were not are queued.                                      *)
LEMMA TurnFacts ==
  ASSUME ProgramOK, NEW slots, SlotsTyped(slots), NEW c \in Configuration,
         c.queue # <<>>
  PROVE  /\ Head(c.queue) \in Types /\ Tail(c.queue) \in Seq(Types)
         /\ Turn(c, slots) \in Configuration
         /\ Turn(c, slots).seen = c.seen \cup {Head(c.queue)}
         /\ QueueAfter(Turn(c, slots).queue, Types, Tail(c.queue),
                       Children(Head(c.queue), slots), Seen(c),
                       Len(Children(Head(c.queue), slots)))
         /\ Turn(c, slots).met =
              IF Head(c.queue) \in Met(c)
              THEN Met(c) \cup Range(Children(Head(c.queue), slots))
              ELSE Met(c) \ Range(Children(Head(c.queue), slots))
<1> DEFINE t == Head(c.queue)
           children == Children(t, slots)
           queue == Pushed(Tail(c.queue), children, Seen(c))
           met == IF t \in Met(c) THEN Met(c) \cup Range(children)
                  ELSE Met(c) \ Range(children)
<1>1. c.queue \in Seq(Types) /\ c.seen \in SUBSET Types /\ c.met \in SUBSET Types
  BY DEF Configuration
<1>2. t \in Types /\ Tail(c.queue) \in Seq(Types)
  BY <1>1
<1>3. children \in Seq(Types) /\ DOMAIN children = 1..Len(children)
  BY <1>2, ChildrenTyped
<1>4. Range(children) \subseteq Types
  BY <1>3 DEF Range
<1>5. Met(c) \in SUBSET Types /\ Seen(c) \in SUBSET Types
  BY <1>1, <1>2 DEF Met, Seen
<1>6. QueueAfter(queue, Types, Tail(c.queue), children, Seen(c), Len(children))
  BY <1>2, <1>3, PushedFacts
<1>7. queue \in Seq(Types)
  BY <1>6 DEF QueueAfter
<1>8. met \in SUBSET Types
  BY <1>4, <1>5
<1>9. Turn(c, slots) = [queue |-> queue, seen |-> Seen(c), met |-> met]
  BY DEF Turn
<1> HIDE DEF queue, met
<1>10. Turn(c, slots) \in Configuration
  BY <1>5, <1>7, <1>8, <1>9 DEF Configuration
<1>11. /\ Turn(c, slots).queue = queue /\ Turn(c, slots).seen = Seen(c)
       /\ Turn(c, slots).met = met
  BY <1>9
<1>12. Turn(c, slots).seen = c.seen \cup {Head(c.queue)}
  BY <1>11 DEF Seen
<1>13. Turn(c, slots).met =
         IF Head(c.queue) \in Met(c)
         THEN Met(c) \cup Range(Children(Head(c.queue), slots))
         ELSE Met(c) \ Range(Children(Head(c.queue), slots))
  BY <1>11 DEF met
<1> QED BY <1>2, <1>6, <1>10, <1>11, <1>12, <1>13

(* The configurations from which the search comes to an answer.            *)
LeadsBack(G, answer, slots) ==
  \A c \in Configuration :
    /\ Decision(c, slots) = answer => c \in G
    /\ Decision(c, slots) = "undecided" /\ Turn(c, slots) \in G => c \in G
Reaching(answer, slots) ==
  {c \in Configuration :
     \A G \in SUBSET Configuration : LeadsBack(G, answer, slots) => c \in G}

(* A configuration comes to an answer where it is decided so, and          *)
(* otherwise if the next one does.                                         *)
LEMMA ReachingFacts ==
  ASSUME NEW slots, NEW answer, answer # "undecided", NEW c \in Configuration
  PROVE  /\ Decision(c, slots) = answer => c \in Reaching(answer, slots)
         /\ Decision(c, slots) \notin {answer, "undecided"} =>
              c \notin Reaching(answer, slots)
         /\ Decision(c, slots) = "undecided" /\ Turn(c, slots) \in Configuration =>
              (c \in Reaching(answer, slots) <=> Turn(c, slots) \in Reaching(answer, slots))
<1> DEFINE R == Reaching(answer, slots)
<1>1. R \in SUBSET Configuration
  BY DEF Reaching
<1>2. \A d \in Configuration :
        d \in R <=> \A G \in SUBSET Configuration : LeadsBack(G, answer, slots) => d \in G
  BY DEF Reaching
<1> HIDE DEF R
<1>3. LeadsBack(R, answer, slots)
  <2> SUFFICES ASSUME NEW d \in Configuration,
                      \/ Decision(d, slots) = answer
                      \/ Decision(d, slots) = "undecided" /\ Turn(d, slots) \in R,
                      NEW G \in SUBSET Configuration, LeadsBack(G, answer, slots)
               PROVE  d \in G
    BY <1>2 DEF LeadsBack
  <2>1. Turn(d, slots) \in R => Turn(d, slots) \in G
    BY <1>1, <1>2
  <2> QED BY <2>1 DEF LeadsBack
<1>4. ASSUME c \in R PROVE ~LeadsBack(R \ {c}, answer, slots)
  <2>1. R \ {c} \in SUBSET Configuration
    BY <1>1
  <2> QED BY <1>2, <1>4, <2>1
<1>5. Decision(c, slots) = answer => c \in R
  BY <1>3 DEF LeadsBack
<1>6. ASSUME Decision(c, slots) \notin {answer, "undecided"}, c \in R
      PROVE  FALSE
  <2>1. LeadsBack(R \ {c}, answer, slots)
    BY <1>3, <1>6 DEF LeadsBack
  <2> QED BY <1>4, <1>6, <2>1
<1>7. ASSUME Decision(c, slots) = "undecided", c \in R, Turn(c, slots) \notin R
      PROVE  FALSE
  <2>1. LeadsBack(R \ {c}, answer, slots)
    BY <1>3, <1>7 DEF LeadsBack
  <2> QED BY <1>4, <1>7, <2>1
<1>8. Decision(c, slots) = "undecided" /\ Turn(c, slots) \in R => c \in R
  BY <1>3 DEF LeadsBack
<1> QED BY <1>5, <1>6, <1>7, <1>8 DEF R

(* The search is a function: one that takes each configuration to what is  *)
(* answered from there on exists, and is what IsCanonical asks.            *)
Searches(f, slots) ==
  f = [c \in Configuration |->
         IF c.queue = <<>> THEN "canonical"
         ELSE IF Head(c.queue)[1] = "ref" THEN "incomplete"
         ELSE IF ComesUpAgain(c, slots) THEN "recursive"
         ELSE f[Turn(c, slots)]]
Start(t) == [queue |-> <<t>>, seen |-> {}, met |-> {}]

(* The function exists: it tells the configurations that come to each      *)
(* answer.                                                                 *)
LEMMA SearchExists ==
  ASSUME ProgramOK, NEW slots, SlotsTyped(slots), NEW t
  PROVE  \E f : Searches(f, slots) /\ IsCanonical(t, slots) = f[Start(t)]
<1> DEFINE f == [c \in Configuration |->
                   IF c \in Reaching("canonical", slots) THEN "canonical"
                   ELSE IF c \in Reaching("incomplete", slots) THEN "incomplete"
                   ELSE "recursive"]
<1>1. ASSUME NEW c \in Configuration
      PROVE  f[c] = IF c.queue = <<>> THEN "canonical"
                    ELSE IF Head(c.queue)[1] = "ref" THEN "incomplete"
                    ELSE IF ComesUpAgain(c, slots) THEN "recursive"
                    ELSE f[Turn(c, slots)]
  <2>1. f[c] = IF c \in Reaching("canonical", slots) THEN "canonical"
               ELSE IF c \in Reaching("incomplete", slots) THEN "incomplete"
               ELSE "recursive"
    OBVIOUS
  <2>2. Turn(c, slots) \in Configuration =>
          f[Turn(c, slots)] =
            IF Turn(c, slots) \in Reaching("canonical", slots) THEN "canonical"
            ELSE IF Turn(c, slots) \in Reaching("incomplete", slots) THEN "incomplete"
            ELSE "recursive"
    OBVIOUS
  <2> HIDE DEF f
  <2>3. CASE Decision(c, slots) = "canonical"
    <3>1. c \in Reaching("canonical", slots) /\ c.queue = <<>>
      BY <2>3, ReachingFacts DEF Decision
    <3> QED BY <2>1, <3>1
  <2>4. CASE Decision(c, slots) = "incomplete"
    <3>1. c \in Reaching("incomplete", slots) /\ c \notin Reaching("canonical", slots)
      BY <2>4, ReachingFacts
    <3>2. c.queue # <<>> /\ Head(c.queue)[1] = "ref"
      BY <2>4 DEF Decision
    <3> QED BY <2>1, <3>1, <3>2
  <2>5. CASE Decision(c, slots) = "recursive"
    <3>1. c \notin Reaching("incomplete", slots) /\ c \notin Reaching("canonical", slots)
      BY <2>5, ReachingFacts
    <3>2. /\ c.queue # <<>> /\ ~(Head(c.queue)[1] = "ref")
          /\ ComesUpAgain(c, slots)
      BY <2>5 DEF Decision
    <3> QED BY <2>1, <3>1, <3>2
  <2>6. CASE Decision(c, slots) = "undecided"
    <3>1. /\ c.queue # <<>> /\ ~(Head(c.queue)[1] = "ref")
          /\ ~ComesUpAgain(c, slots)
      BY <2>6 DEF Decision
    <3>2. Turn(c, slots) \in Configuration
      BY <3>1, TurnFacts
    <3>3. c \in Reaching("canonical", slots) <=>
            Turn(c, slots) \in Reaching("canonical", slots)
      BY <2>6, <3>2, ReachingFacts
    <3>4. c \in Reaching("incomplete", slots) <=>
            Turn(c, slots) \in Reaching("incomplete", slots)
      BY <2>6, <3>2, ReachingFacts
    <3> QED BY <2>1, <2>2, <3>1, <3>2, <3>3, <3>4
  <2> QED BY <2>3, <2>4, <2>5, <2>6 DEF Decision
<1>2. Searches(f, slots)
  <2>1. f = [c \in Configuration |-> f[c]]
    OBVIOUS
  <2> HIDE DEF f
  <2> QED BY <1>1, <2>1 DEF Searches
<1> HIDE DEF f
<1> DEFINE search == CHOOSE g : Searches(g, slots)
<1>3. Searches(search, slots)
  BY <1>2
<1>4. IsCanonical(t, slots) = search[Start(t)]
  BY DEF IsCanonical, Searches, Start
<1> QED BY <1>3, <1>4

(* The search ends: a turn sees a type for the first time, or it removes   *)
(* one of the types at the head of the queue that have been seen.          *)
FirstUnseen(c, n) ==
  /\ n \in 1..Len(c.queue) + 1
  /\ \A i \in 1..Len(c.queue) : i < n => c.queue[i] \in c.seen
  /\ n \in 1..Len(c.queue) => c.queue[n] \notin c.seen

(* Such a place is in every queue, or right behind it.                     *)
LEMMA FirstUnseenExists ==
  ASSUME NEW c \in Configuration
  PROVE  \E n \in Nat : FirstUnseen(c, n)
<1> DEFINE S == {n \in 1..Len(c.queue) + 1 :
                   n \in 1..Len(c.queue) => c.queue[n] \notin c.seen}
<1>1. Len(c.queue) \in Nat
  BY DEF Configuration
<1>2. S \in SUBSET Nat
  BY <1>1
<1>3. Len(c.queue) + 1 \in S
  BY <1>1
<1>4. \A i \in 1..Len(c.queue) : i \notin S => c.queue[i] \in c.seen
  BY <1>1
<1>5. \A n \in S : /\ n \in 1..Len(c.queue) + 1
                   /\ n \in 1..Len(c.queue) => c.queue[n] \notin c.seen
  OBVIOUS
<1> HIDE DEF S
<1>6. PICK n \in S : \A j \in S : n <= j
  BY <1>2, <1>3, LeastNumber
<1>7. \A i \in 1..Len(c.queue) : i < n => i \notin S
  BY <1>1, <1>2, <1>6
<1> QED BY <1>2, <1>4, <1>5, <1>6, <1>7 DEF FirstUnseen

(* A turn sees a new type, or that place comes one nearer to the head.     *)
LEMMA TurnAdvances ==
  ASSUME ProgramOK, NEW slots, SlotsTyped(slots), NEW c \in Configuration,
         c.queue # <<>>, NEW n \in Nat, FirstUnseen(c, n)
  PROVE  \/ Head(c.queue) \notin c.seen
         \/ /\ n > 1
            /\ Turn(c, slots).seen = c.seen
            /\ FirstUnseen(Turn(c, slots), n - 1)
<1> DEFINE t == Head(c.queue)
           d == Turn(c, slots)
           rest == Tail(c.queue)
<1>1. SUFFICES ASSUME t \in c.seen
               PROVE  n > 1 /\ d.seen = c.seen /\ FirstUnseen(d, n - 1)
  OBVIOUS
<1>2. /\ c.queue \in Seq(Types) /\ Len(c.queue) \in Nat /\ Len(c.queue) >= 1
      /\ t = c.queue[1] /\ 1 \in 1..Len(c.queue)
      /\ rest \in Seq(Types) /\ Len(rest) = Len(c.queue) - 1
      /\ \A i \in 1..Len(rest) : rest[i] = c.queue[i + 1]
  BY DEF Configuration
<1>3. n > 1
  <2>1. n # 1
    BY <1>1, <1>2 DEF FirstUnseen
  <2> QED BY <1>2, <2>1 DEF FirstUnseen
<1>4. d.seen = c.seen /\ Seen(c) = c.seen
  BY <1>1, TurnFacts DEF Seen
<1>5. QueueAfter(d.queue, Types, rest, Children(t, slots), c.seen,
                 Len(Children(t, slots)))
  BY <1>4, TurnFacts
<1>6. /\ d.queue \in Seq(Types) /\ Len(d.queue) \in Nat /\ Len(rest) <= Len(d.queue)
      /\ \A i \in 1..Len(rest) : d.queue[i] = rest[i]
      /\ \A i \in Len(rest) + 1..Len(d.queue) : d.queue[i] \notin c.seen
  BY <1>5 DEF QueueAfter
<1> HIDE DEF d, rest, t
<1>7. n - 1 \in 1..Len(d.queue) + 1 /\ n - 1 \in 1..Len(rest) + 1
  BY <1>2, <1>3, <1>6 DEF FirstUnseen
<1>8. \A i \in 1..Len(d.queue) : i < n - 1 => d.queue[i] \in c.seen
  <2> SUFFICES ASSUME NEW i \in 1..Len(d.queue), i < n - 1 PROVE d.queue[i] \in c.seen
    OBVIOUS
  <2>1. i \in 1..Len(rest) /\ i + 1 \in 1..Len(c.queue) /\ i + 1 < n
    BY <1>2, <1>7
  <2> QED BY <1>2, <1>6, <2>1 DEF FirstUnseen
<1>9. n - 1 \in 1..Len(d.queue) => d.queue[n - 1] \notin c.seen
  <2> SUFFICES ASSUME n - 1 \in 1..Len(d.queue) PROVE d.queue[n - 1] \notin c.seen
    OBVIOUS
  <2>1. CASE n - 1 \in 1..Len(rest)
    <3>1. n \in 1..Len(c.queue) /\ (n - 1) + 1 = n
      BY <1>2, <2>1
    <3>2. d.queue[n - 1] = c.queue[n]
      BY <1>2, <1>6, <2>1, <3>1
    <3> QED BY <3>1, <3>2 DEF FirstUnseen
  <2>2. CASE n - 1 \notin 1..Len(rest)
    <3>1. n - 1 \in Len(rest) + 1..Len(d.queue)
      BY <1>2, <1>7, <2>2
    <3> QED BY <1>6, <3>1
  <2> QED BY <2>1, <2>2
<1> QED BY <1>3, <1>4, <1>7, <1>8, <1>9 DEF FirstUnseen

(* What a finite set is mapped to is finite.                               *)
LEMMA ImageFinite ==
  ASSUME NEW S, IsFiniteSet(S), NEW f, DOMAIN f = S
  PROVE  IsFiniteSet({f[x] : x \in S})
<1> DEFINE T == {f[x] : x \in S}
           g == [x \in S |-> f[x]]
<1>1. g \in Surjection(S, T)
  BY DEF Surjection
<1> QED BY <1>1, FS_Surjection

(* A program has finitely many items, nodes and types.                     *)
LEMMA TypesFinite ==
  ASSUME ProgramOK
  PROVE  /\ IsFiniteSet(Items) /\ IsFiniteSet(MemberNodes)
         /\ IsFiniteSet(Nodes) /\ IsFiniteSet(Types)
<1>1. IsFiniteSet(Items)
  <2>1. Items = 1..Len(program) /\ Len(program) \in Nat
    BY DEF ProgramOK, Items
  <2> QED BY <2>1, FS_Interval
<1>2. IsFiniteSet(MemberNodes)
  <2> DEFINE Of(i) == {<<i, k>> : k \in Members(i)}
             All == {Of(i) : i \in Items}
  <2>1. ASSUME NEW i \in Items PROVE IsFiniteSet(Of(i))
    <3>1. Members(i) = 1..Len(program[i].members) /\ Len(program[i].members) \in Nat
      BY ItemFacts
    <3>2. IsFiniteSet(Members(i))
      BY <3>1, FS_Interval
    <3> DEFINE f == [k \in Members(i) |-> <<i, k>>]
    <3>3. IsFiniteSet({f[k] : k \in Members(i)})
      <4>1. DOMAIN f = Members(i)
        OBVIOUS
      <4> HIDE DEF f
      <4> QED BY <3>2, <4>1, ImageFinite
    <3>4. {f[k] : k \in Members(i)} = Of(i)
      OBVIOUS
    <3> QED BY <3>3, <3>4
  <2>2. IsFiniteSet(All)
    <3> DEFINE f == [i \in Items |-> Of(i)]
    <3>3. IsFiniteSet({f[i] : i \in Items})
      <4>1. DOMAIN f = Items
        OBVIOUS
      <4> HIDE DEF f
      <4> QED BY <1>1, <4>1, ImageFinite
    <3>4. {f[i] : i \in Items} = All
      OBVIOUS
    <3> QED BY <3>3, <3>4
  <2>3. \A S \in All : IsFiniteSet(S)
    BY <2>1
  <2>4. MemberNodes = UNION All
    BY DEF MemberNodes
  <2> HIDE DEF All
  <2> QED BY <2>2, <2>3, <2>4, FS_UNION
<1>3. IsFiniteSet(Nodes)
  <2>1. IsFiniteSet({Decl(i) : i \in Items})
    <3> DEFINE f == [i \in Items |-> Decl(i)]
    <3>1. IsFiniteSet({f[i] : i \in Items})
      <4>1. DOMAIN f = Items
        OBVIOUS
      <4> HIDE DEF f
      <4> QED BY <1>1, <4>1, ImageFinite
    <3>2. {f[i] : i \in Items} = {Decl(i) : i \in Items}
      OBVIOUS
    <3> QED BY <3>1, <3>2
  <2> QED BY <1>2, <2>1, FS_Union DEF Nodes
<1>4. IsFiniteSet(Types)
  <2>1. IsFiniteSet(Names)
    <3> DEFINE f == [n \in Nodes |-> Declared(n)[2]]
    <3>1. IsFiniteSet({f[n] : n \in Nodes})
      <4>1. DOMAIN f = Nodes
        OBVIOUS
      <4> HIDE DEF f
      <4> QED BY <1>3, <4>1, ImageFinite
    <3>2. {f[n] : n \in Nodes} = Names
      BY DEF Names
    <3> QED BY <3>1, <3>2
  <2>2. IsFiniteSet({i \in Items : IsStruct(i)})
    BY <1>1, FS_Subset
  <2>3. IsFiniteSet({"ref", "pointer_to_ref"}) /\ IsFiniteSet({"struct", "pointer"})
    <3>1. /\ {"ref", "pointer_to_ref"} = {"ref"} \cup {"pointer_to_ref"}
          /\ {"struct", "pointer"} = {"struct"} \cup {"pointer"}
      OBVIOUS
    <3>2. /\ IsFiniteSet({"ref"}) /\ IsFiniteSet({"pointer_to_ref"})
          /\ IsFiniteSet({"struct"}) /\ IsFiniteSet({"pointer"}) /\ IsFiniteSet({Prim})
      BY FS_Singleton
    <3>3. /\ IsFiniteSet({"ref"} \cup {"pointer_to_ref"})
          /\ IsFiniteSet({"struct"} \cup {"pointer"})
      BY <3>2, FS_Union
    <3> QED BY <3>1, <3>3
  <2>4. IsFiniteSet({"ref", "pointer_to_ref"} \X Names)
    BY <2>1, <2>3, FS_Product
  <2>5. IsFiniteSet(StructTypes)
    BY <2>2, <2>3, FS_Product DEF StructTypes
  <2>6. IsFiniteSet({Prim})
    BY FS_Singleton
  <2>7. IsFiniteSet({Prim} \cup ({"ref", "pointer_to_ref"} \X Names))
    BY <2>4, <2>6, FS_Union
  <2> QED BY <2>5, <2>7, FS_Union DEF Types
<1> QED BY <1>1, <1>2, <1>3, <1>4

(* What holds where the search is decided, and of a configuration if it    *)
(* holds of the next, holds of all.                                        *)
LEMMA SearchEnds ==
  ASSUME ProgramOK, NEW slots, SlotsTyped(slots), NEW G \in SUBSET Configuration,
         \A c \in Configuration :
           /\ Decision(c, slots) # "undecided" => c \in G
           /\ Decision(c, slots) = "undecided" /\ Turn(c, slots) \in G => c \in G
  PROVE  G = Configuration
<1> DEFINE Bad == Configuration \ G
           Unseen == {Types \ c.seen : c \in Bad}
<1>1. SUFFICES ASSUME Bad # {} PROVE FALSE
  OBVIOUS
<1>2. IsWellFoundedOn(StrictSubsetOrdering(Types), SUBSET Types)
  BY TypesFinite, FS_StrictSubsetOrderingWellFounded, FS_FiniteSubsetsOfFinite
<1>3. Unseen \subseteq SUBSET Types /\ Unseen # {}
  <2>1. PICK c \in Bad : TRUE
    BY <1>1
  <2>2. Types \ c.seen \in Unseen
    OBVIOUS
  <2>3. Unseen \subseteq SUBSET Types
    OBVIOUS
  <2> QED BY <2>2, <2>3
<1>4. PICK W \in Unseen : \A V \in Unseen : ~(<<V, W>> \in StrictSubsetOrdering(Types))
  <2> HIDE DEF Unseen
  <2> QED BY <1>2, <1>3, WFMin
<1> DEFINE Ranks == {n \in Nat : \E c \in Bad : Types \ c.seen = W /\ FirstUnseen(c, n)}
<1>5. Ranks # {}
  <2>1. PICK c \in Bad : Types \ c.seen = W
    BY <1>4
  <2>2. PICK n \in Nat : FirstUnseen(c, n)
    BY <2>1, FirstUnseenExists
  <2> QED BY <2>1, <2>2
<1>6. Ranks \in SUBSET Nat
  OBVIOUS
<1>7. \A n \in Nat : n \in Ranks <=>
                       \E c \in Bad : Types \ c.seen = W /\ FirstUnseen(c, n)
  OBVIOUS
<1> HIDE DEF Ranks
<1>8. PICK n \in Ranks : \A j \in Ranks : n <= j
  BY <1>5, <1>6, LeastNumber
<1>9. PICK c \in Bad : Types \ c.seen = W /\ FirstUnseen(c, n)
  BY <1>6, <1>7, <1>8
<1>10. c \in Configuration /\ Decision(c, slots) = "undecided"
  OBVIOUS
<1>11. c.queue # <<>>
  BY <1>10 DEF Decision
<1>12. /\ Turn(c, slots) \in Configuration /\ Head(c.queue) \in Types
       /\ Turn(c, slots).seen = c.seen \cup {Head(c.queue)}
  BY <1>10, <1>11, TurnFacts
<1>13. Turn(c, slots) \in Bad
  BY <1>10, <1>12
<1>14. n \in Nat
  BY <1>6
<1>15. CASE Head(c.queue) \notin c.seen
  <2>1. Types \ Turn(c, slots).seen \in Unseen
    BY <1>13
  <2>2. <<Types \ Turn(c, slots).seen, W>> \in StrictSubsetOrdering(Types)
    BY <1>9, <1>12, <1>15 DEF StrictSubsetOrdering
  <2> QED BY <1>4, <2>1, <2>2
<1>16. CASE /\ n > 1
            /\ Turn(c, slots).seen = c.seen
            /\ FirstUnseen(Turn(c, slots), n - 1)
  <2>1. n - 1 \in Nat /\ ~(n <= n - 1)
    BY <1>14, <1>16
  <2>2. n - 1 \in Ranks
    BY <1>7, <1>9, <1>13, <1>16, <2>1
  <2> QED BY <1>8, <2>1, <2>2
<1> QED BY <1>9, <1>10, <1>11, <1>14, <1>15, <1>16, TurnAdvances

(* What the turns of the search keep holds where it ends.                  *)
LEMMA SearchKeeps ==
  ASSUME ProgramOK, NEW slots, SlotsTyped(slots), NEW t, NEW J \in SUBSET Configuration,
         Start(t) \in J,
         \A c \in J : Decision(c, slots) = "undecided" => Turn(c, slots) \in J
  PROVE  \E c \in J : /\ Decision(c, slots) # "undecided"
                      /\ IsCanonical(t, slots) = Decision(c, slots)
<1>1. PICK f : Searches(f, slots) /\ IsCanonical(t, slots) = f[Start(t)]
  BY SearchExists
<1> DEFINE Ends(c) == \E d \in J : /\ Decision(d, slots) # "undecided"
                                  /\ f[c] = Decision(d, slots)
           G == {c \in Configuration : c \in J => Ends(c)}
<1>2. \A c \in Configuration :
        f[c] = IF c.queue = <<>> THEN "canonical"
               ELSE IF Head(c.queue)[1] = "ref" THEN "incomplete"
               ELSE IF ComesUpAgain(c, slots) THEN "recursive"
               ELSE f[Turn(c, slots)]
  BY <1>1 DEF Searches
<1>3. \A c \in Configuration :
        f[c] = IF Decision(c, slots) = "undecided" THEN f[Turn(c, slots)]
               ELSE Decision(c, slots)
  BY <1>2 DEF Decision
<1>4. ASSUME NEW c \in Configuration, Decision(c, slots) # "undecided"
      PROVE  c \in G
  BY <1>3, <1>4
<1>5. ASSUME NEW c \in Configuration, Decision(c, slots) = "undecided",
             Turn(c, slots) \in G
      PROVE  c \in G
  <2> SUFFICES ASSUME c \in J PROVE Ends(c)
    OBVIOUS
  <2>1. Turn(c, slots) \in J
    BY <1>5
  <2>2. Ends(Turn(c, slots))
    BY <1>5, <2>1
  <2>3. f[c] = f[Turn(c, slots)]
    BY <1>3, <1>5
  <2> QED BY <2>2, <2>3
<1>6. G \in SUBSET Configuration
  OBVIOUS
<1>7. G = Configuration
  <2> HIDE DEF G
  <2> QED BY <1>4, <1>5, <1>6, SearchEnds
<1>8. Ends(Start(t))
  BY <1>7
<1> QED BY <1>1, <1>8

(* What a turn does to the types in the queue, as sets.                    *)
LEMMA TurnSets ==
  ASSUME ProgramOK, NEW slots, SlotsTyped(slots), NEW c \in Configuration,
         c.queue # <<>>
  PROVE  /\ Range(c.queue) = {Head(c.queue)} \cup Range(Tail(c.queue))
         /\ Range(Turn(c, slots).queue) =
              Range(Tail(c.queue))
                \cup (Range(Children(Head(c.queue), slots)) \ Turn(c, slots).seen)
<1> DEFINE h == Head(c.queue)
           rest == Tail(c.queue)
           q == Turn(c, slots).queue
           children == Children(h, slots)
<1>1. /\ c.queue \in Seq(Types) /\ Len(c.queue) \in Nat /\ Len(c.queue) >= 1
      /\ h = c.queue[1] /\ 1 \in 1..Len(c.queue)
      /\ rest \in Seq(Types) /\ Len(rest) = Len(c.queue) - 1
      /\ \A i \in 1..Len(rest) : rest[i] = c.queue[i + 1]
  BY DEF Configuration
<1>2. DOMAIN c.queue = 1..Len(c.queue) /\ DOMAIN rest = 1..Len(rest)
  BY <1>1
<1>3. QueueAfter(q, Types, rest, children, Seen(c), Len(children))
  BY TurnFacts
<1>4. Seen(c) = Turn(c, slots).seen
  BY TurnFacts DEF Seen
<1>5. DOMAIN children = 1..Len(children)
  BY TurnFacts, ChildrenTyped
<1>6. q \in Seq(Types) /\ DOMAIN q = 1..Len(q) /\ Len(q) \in Nat /\ Len(rest) <= Len(q)
  BY <1>3 DEF QueueAfter
<1> HIDE DEF h, rest, q, children
<1>7. ASSUME NEW x \in Range(c.queue)
      PROVE  x \in {h} \cup Range(rest)
  <2>1. PICK i \in 1..Len(c.queue) : x = c.queue[i]
    BY <1>2 DEF Range
  <2>2. i = 1 \/ i - 1 \in 1..Len(rest)
    BY <1>1
  <2>3. i - 1 \in 1..Len(rest) => rest[i - 1] = c.queue[i]
    BY <1>1
  <2> QED BY <1>1, <1>2, <2>1, <2>2, <2>3 DEF Range
<1>8. ASSUME NEW x \in {h} \cup Range(rest)
      PROVE  x \in Range(c.queue)
  <2>1. CASE x = h
    BY <1>1, <1>2, <2>1 DEF Range
  <2>2. CASE x \in Range(rest)
    <3>1. PICK i \in 1..Len(rest) : x = rest[i]
      BY <1>2, <2>2 DEF Range
    <3>2. i + 1 \in 1..Len(c.queue)
      BY <1>1
    <3> QED BY <1>1, <1>2, <3>1, <3>2 DEF Range
  <2> QED BY <2>1, <2>2
<1>9. ASSUME NEW x \in Range(q)
      PROVE  x \in Range(rest) \cup (Range(children) \ Seen(c))
  <2>1. PICK i \in 1..Len(q) : x = q[i]
    BY <1>6 DEF Range
  <2>2. CASE i \in 1..Len(rest)
    BY <1>2, <1>3, <2>1, <2>2 DEF Range, QueueAfter
  <2>3. CASE i \notin 1..Len(rest)
    <3>1. i \in Len(rest) + 1..Len(q)
      BY <1>1, <1>6, <2>3
    <3>2. PICK j \in 1..Len(children) : q[i] = children[j] /\ children[j] \notin Seen(c)
      BY <1>3, <3>1 DEF QueueAfter
    <3> QED BY <1>5, <2>1, <3>2 DEF Range
  <2> QED BY <2>2, <2>3
<1>10. ASSUME NEW x \in Range(rest) \cup (Range(children) \ Seen(c))
       PROVE  x \in Range(q)
  <2>1. CASE x \in Range(rest)
    <3>1. PICK i \in 1..Len(rest) : x = rest[i]
      BY <1>2, <2>1 DEF Range
    <3>2. i \in 1..Len(q) /\ q[i] = rest[i]
      BY <1>1, <1>3, <1>6 DEF QueueAfter
    <3> QED BY <1>6, <3>1, <3>2 DEF Range
  <2>2. CASE x \in Range(children) /\ x \notin Seen(c)
    <3>1. PICK j \in 1..Len(children) : x = children[j]
      BY <1>5, <2>2 DEF Range
    <3>2. PICK i \in 1..Len(q) : q[i] = children[j]
      BY <1>3, <2>2, <3>1 DEF QueueAfter
    <3> QED BY <1>6, <3>1, <3>2 DEF Range
  <2> QED BY <2>1, <2>2
<1>11. Range(c.queue) = {h} \cup Range(rest)
  BY <1>7, <1>8
<1>12. Range(q) = Range(rest) \cup (Range(children) \ Turn(c, slots).seen)
  BY <1>4, <1>9, <1>10
<1> QED BY <1>11, <1>12 DEF h, rest, q, children

(* The search gives one of the three answers.                              *)
LEMMA AnswersOnly ==
  ASSUME ProgramOK, NEW slots, SlotsTyped(slots), NEW t \in Types
  PROVE  IsCanonical(t, slots) \in Answers
<1>1. Start(t) \in Configuration
  BY DEF Start, Configuration
<1>2. \A c \in Configuration :
        Decision(c, slots) = "undecided" => Turn(c, slots) \in Configuration
  BY TurnFacts DEF Decision
<1>3. PICK c \in Configuration : /\ Decision(c, slots) # "undecided"
                                 /\ IsCanonical(t, slots) = Decision(c, slots)
  BY <1>1, <1>2, SearchKeeps
<1> QED BY <1>3 DEF Decision, Answers

(* When a type is called canonical there is a set of types with it that is *)
(* complete: no reference is in it, nor below what is.                     *)
CompleteTypes(S, slots) ==
  /\ S \subseteq Types
  /\ \A u \in S : u[1] # "ref" /\ Range(Children(u, slots)) \subseteq S

(* Such a set is what the search has seen when its queue is empty.         *)
LEMMA CanonicalIsComplete ==
  ASSUME ProgramOK, NEW slots, SlotsTyped(slots), NEW t \in Types,
         IsCanonical(t, slots) = "canonical"
  PROVE  \E S : t \in S /\ CompleteTypes(S, slots)
<1> DEFINE Kept(c) ==
             /\ t \in c.seen \cup Range(c.queue)
             /\ \A u \in c.seen :
                  /\ u[1] # "ref"
                  /\ Range(Children(u, slots)) \subseteq c.seen \cup Range(c.queue)
           J == {c \in Configuration : Kept(c)}
<1>1. Start(t) \in J
  <2>1. Start(t) \in Configuration
    BY DEF Start, Configuration
  <2>2. Start(t).queue = <<t>> /\ Start(t).seen = {}
    BY DEF Start
  <2>3. t \in Range(<<t>>)
    BY DEF Range
  <2> QED BY <2>1, <2>2, <2>3
<1>2. ASSUME NEW c \in J, Decision(c, slots) = "undecided"
      PROVE  Turn(c, slots) \in J
  <2> DEFINE d == Turn(c, slots)
             h == Head(c.queue)
             rest == Range(Tail(c.queue))
             below == Range(Children(h, slots))
  <2>1. c \in Configuration /\ c.queue # <<>> /\ h[1] # "ref"
    BY <1>2 DEF Decision
  <2>2. d \in Configuration /\ d.seen = c.seen \cup {h}
    BY <2>1, TurnFacts
  <2>3. Range(c.queue) = {h} \cup rest /\ Range(d.queue) = rest \cup (below \ d.seen)
    BY <2>1, TurnSets
  <2>4. c.seen \cup Range(c.queue) \cup below \subseteq d.seen \cup Range(d.queue)
    BY <2>2, <2>3
  <2>5. Kept(c)
    OBVIOUS
  <2> HIDE DEF d, rest
  <2>6. Kept(d)
    BY <2>1, <2>2, <2>4, <2>5
  <2> QED BY <2>2, <2>6 DEF d
<1>3. J \in SUBSET Configuration
  OBVIOUS
<1>4. \A c \in J : Kept(c) /\ c \in Configuration
  OBVIOUS
<1> HIDE DEF J
<1>5. PICK c \in J : /\ Decision(c, slots) # "undecided"
                     /\ IsCanonical(t, slots) = Decision(c, slots)
  BY <1>1, <1>2, <1>3, SearchKeeps
<1>6. c.queue = <<>>
  BY <1>5 DEF Decision
<1>7. Range(<<>>) = {}
  BY DEF Range
<1>8. t \in c.seen /\ CompleteTypes(c.seen, slots)
  BY <1>4, <1>6, <1>7 DEF CompleteTypes, Configuration
<1> QED BY <1>8

(* What a struct holds.                                                    *)
LEMMA HeldByFacts ==
  ASSUME NEW i \in Items
  PROVE  /\ i \in HeldBy(i) /\ HeldBy(i) \subseteq Items
         /\ \A e \in Holds : e[1] \in HeldBy(i) => e[2] \in HeldBy(i)
         /\ \A S \in SUBSET Items :
              i \in S /\ (\A e \in Holds : e[1] \in S => e[2] \in S) =>
                HeldBy(i) \subseteq S
<1> DEFINE Complete ==
             {held \in SUBSET Items : \A e \in Holds : e[1] \in held => e[2] \in held}
<1>1. HeldBy(i) = {j \in Items : \A held \in Complete : i \in held => j \in held}
  BY DEF HeldBy
<1>2. \A e \in Holds : e[2] \in Items
  BY DEF Holds
<1>3. \A held \in Complete : \A e \in Holds : e[1] \in held => e[2] \in held
  OBVIOUS
<1>4. \A S \in SUBSET Items :
        (\A e \in Holds : e[1] \in S => e[2] \in S) => S \in Complete
  OBVIOUS
<1> HIDE DEF Complete
<1> QED BY <1>1, <1>2, <1>3, <1>4

(* A finite set in which each has a predecessor has a smallest such part,  *)
(* in which each has a successor as well.                                  *)
HavePredecessors(S, E) == S # {} /\ \A n \in S : \E d \in S : <<d, n>> \in E

(* Of the smallest such part, those with a successor are a part as well.   *)
LEMMA SmallestCycle ==
  ASSUME NEW E, NEW T, IsFiniteSet(T), HavePredecessors(T, E)
  PROVE  \E U \in SUBSET T :
           /\ HavePredecessors(U, E)
           /\ \A d \in U : \E n \in U : <<d, n>> \in E
           /\ \A W \in SUBSET U : HavePredecessors(W, E) => W = U
<1> DEFINE Kind == {U \in SUBSET T : HavePredecessors(U, E)}
<1>1. IsWellFoundedOn(StrictSubsetOrdering(T), SUBSET T)
  BY FS_StrictSubsetOrderingWellFounded, FS_FiniteSubsetsOfFinite
<1>2. Kind \subseteq SUBSET T /\ T \in Kind
  OBVIOUS
<1>3. PICK U \in Kind : \A W \in Kind : ~(<<W, U>> \in StrictSubsetOrdering(T))
  <2> HIDE DEF Kind
  <2> QED BY <1>1, <1>2, WFMin
<1>4. \A W \in SUBSET U : HavePredecessors(W, E) => W = U
  BY <1>3 DEF StrictSubsetOrdering
<1>5. ASSUME NEW d \in U, \A n \in U : <<d, n>> \notin E
      PROVE  FALSE
  <2>1. \A n \in U : \E m \in U : <<m, n>> \in E /\ m # d
    <3> SUFFICES ASSUME NEW n \in U PROVE \E m \in U : <<m, n>> \in E /\ m # d
      OBVIOUS
    <3>1. PICK m \in U : <<m, n>> \in E
      BY DEF HavePredecessors
    <3>2. m # d
      BY <1>5, <3>1
    <3> QED BY <3>1, <3>2
  <2>2. PICK m \in U : m # d
    BY <2>1
  <2>3. HavePredecessors(U \ {d}, E)
    BY <2>1, <2>2 DEF HavePredecessors
  <2>4. U \ {d} \in SUBSET U /\ U \ {d} # U
    OBVIOUS
  <2> QED BY <1>4, <2>3, <2>4
<1> QED BY <1>3, <1>4, <1>5

(* So there is a cycle among nodes that each have a predecessor.           *)
LEMMA PredecessorsMakeCycle ==
  ASSUME NEW E, NEW T, IsFiniteSet(T), HavePredecessors(T, E)
  PROVE  HasCycle(E)
<1>1. PICK U \in SUBSET T :
        /\ HavePredecessors(U, E)
        /\ \A d \in U : \E n \in U : <<d, n>> \in E
  BY SmallestCycle
<1>2. \A d \in U : \E e \in E : d = e[1]
  <2> SUFFICES ASSUME NEW d \in U PROVE \E e \in E : d = e[1]
    OBVIOUS
  <2>1. PICK n \in U : <<d, n>> \in E
    BY <1>1
  <2> QED BY <2>1
<1>3. U \in SUBSET {e[1] : e \in E}
  BY <1>2
<1> QED BY <1>1, <1>3 DEF HasCycle, HavePredecessors

(* A struct that holds one that is above it is on a cycle.                 *)
LEMMA HoldsAbove ==
  ASSUME ProgramOK, NEW i \in Items, NEW j \in HeldBy(i), <<j, i>> \in Holds
  PROVE  HasCycle(Holds)
<1> DEFINE H == HeldBy(i)
           P == {n \in H : \E d \in H : <<d, n>> \in Holds}
<1>0. \A e \in Holds : e = <<e[1], e[2]>>
  BY DEF Holds
<1>1. i \in P
  BY HeldByFacts
<1>2. \A e \in Holds : e[1] \in P => e[2] \in P
  <2> SUFFICES ASSUME NEW e \in Holds, e[1] \in P PROVE e[2] \in P
    OBVIOUS
  <2>1. e[1] \in H /\ e[2] \in H
    BY HeldByFacts
  <2> QED BY <1>0, <2>1
<1>3. P \in SUBSET Items
  BY HeldByFacts
<1>4. H \subseteq P
  <2> HIDE DEF P
  <2> QED BY <1>1, <1>2, <1>3, HeldByFacts
<1>5. HavePredecessors(H, Holds)
  BY <1>1, <1>4 DEF HavePredecessors
<1>6. IsFiniteSet(H)
  BY HeldByFacts, TypesFinite, FS_Subset
<1> QED BY <1>5, <1>6, PredecessorsMakeCycle

-----------------------------------------------------------------------------
(* When a type is called recursive.                                        *)
SlotsStaged(slots) == \A n \in MemberNodes : slots[n] \in StagesOf(Declared(n))

(* Types of two kinds, or of two structs, are not the same.                *)
LEMMA TypesDiffer ==
  ASSUME NEW i, NEW j
  PROVE  /\ Struct(i) = Struct(j) => i = j
         /\ Ref(i) = Ref(j) => i = j
         /\ Pointer(i) = Pointer(j) => i = j
         /\ PointerToRef(i) = PointerToRef(j) => i = j
         /\ Prim \notin {Ref(i), Struct(i), PointerToRef(i), Pointer(i)}
         /\ Struct(i) \notin {Ref(j), PointerToRef(j), Pointer(j)}
         /\ Pointer(i) \notin {Ref(j), PointerToRef(j)}
         /\ PointerToRef(i) # Ref(j)
  BY DEF Prim, Ref, Struct, PointerToRef, Pointer

(* What a member was declared with, from what it is now.                   *)
LEMMA SlotFacts ==
  ASSUME ProgramOK, NEW slots, SlotsStaged(slots), NEW n \in MemberNodes, NEW j
  PROVE  /\ slots[n] = Struct(j) => Declared(n) = Ref(j)
         /\ slots[n] = Pointer(j) => Declared(n) = PointerToRef(j)
<1>1. n \in Nodes /\ n[2] # 0
  BY NodeFacts DEF Nodes
<1>2. slots[n] \in {Declared(n), Resolved(Declared(n))}
  BY DEF SlotsStaged, StagesOf
<1>3. \/ Declared(n) = Prim
      \/ \E l \in Nat : Declared(n) \in {Ref(l), PointerToRef(l)}
  BY <1>1, DeclaredFacts
<1>4. CASE Declared(n) = Prim
  <2>1. slots[n] = Prim
    BY <1>2, <1>4, Kinds
  <2> QED BY <2>1, TypesDiffer
<1>5. CASE \E l \in Nat : Declared(n) \in {Ref(l), PointerToRef(l)}
  <2>1. PICK l \in Nat : Declared(n) \in {Ref(l), PointerToRef(l)}
    BY <1>5
  <2>2. CASE Declared(n) = Ref(l)
    <3>1. slots[n] \in {Ref(l), Struct(l)}
      BY <1>2, <2>2, Kinds
    <3> QED BY <2>2, <3>1, TypesDiffer
  <2>3. CASE Declared(n) = PointerToRef(l)
    <3>1. slots[n] \in {PointerToRef(l), Pointer(l)}
      BY <1>2, <2>3, Kinds
    <3> QED BY <2>3, <3>1, TypesDiffer
  <2> QED BY <2>1, <2>2, <2>3
<1> QED BY <1>3, <1>4, <1>5

(* What is below a type.                                                   *)
LEMMA BelowIs ==
  ASSUME ProgramOK, NEW slots, SlotsTyped(slots), NEW u \in Types,
         NEW x \in Range(Children(u, slots))
  PROVE  \/ \E i \in Items : /\ u = Struct(i) /\ IsStruct(i)
                             /\ \E k \in Members(i) : /\ <<i, k>> \in MemberNodes
                                                      /\ x = slots[<<i, k>>]
                                                      /\ x = Children(u, slots)[k]
         \/ \E i \in Items : u = Pointer(i) /\ x = Struct(i)
         \/ \E i \in Names : u = PointerToRef(i) /\ x = Ref(i)
<1>0. PICK k \in DOMAIN Children(u, slots) : x = Children(u, slots)[k]
  BY DEF Range
<1>1. CASE u = Prim \/ \E i \in Names : u = Ref(i)
  <2>1. Children(u, slots) = <<>>
    BY <1>1 DEF Children, Prim, Ref
  <2> QED BY <1>0, <2>1
<1>2. ASSUME NEW i \in Names, u = PointerToRef(i)
      PROVE  x = Ref(i)
  <2>1. Children(u, slots) = <<Ref(i)>>
    BY <1>2 DEF Children, PointerToRef
  <2>2. DOMAIN <<Ref(i)>> = {1} /\ <<Ref(i)>>[1] = Ref(i)
    OBVIOUS
  <2> QED BY <1>0, <2>1, <2>2
<1>3. ASSUME NEW i \in Items, u = Pointer(i)
      PROVE  x = Struct(i)
  <2>1. Children(u, slots) = <<Struct(i)>>
    BY <1>3 DEF Children, Pointer
  <2>2. DOMAIN <<Struct(i)>> = {1} /\ <<Struct(i)>>[1] = Struct(i)
    OBVIOUS
  <2> QED BY <1>0, <2>1, <2>2
<1>4. ASSUME NEW i \in Items, IsStruct(i), u = Struct(i)
      PROVE  k \in Members(i) /\ <<i, k>> \in MemberNodes /\ x = slots[<<i, k>>]
  <2>1. Children(u, slots) = [m \in Members(i) |-> slots[<<i, m>>]]
    BY <1>4 DEF Children, Struct
  <2>2. k \in Members(i)
    BY <1>0, <2>1
  <2> QED BY <1>0, <2>1, <2>2 DEF MemberNodes
<1>5. \/ u = Prim \/ \E i \in Names : u \in {Ref(i), PointerToRef(i)}
      \/ \E i \in Items : IsStruct(i) /\ u \in {Struct(i), Pointer(i)}
  <2>1. \A t \in {"ref", "pointer_to_ref"} \X Names :
          \E i \in Names : t \in {<<"ref", i>>, <<"pointer_to_ref", i>>}
    OBVIOUS
  <2>2. \A t \in StructTypes :
          \E i \in Items : IsStruct(i) /\ t \in {<<"struct", i>>, <<"pointer", i>>}
    BY DEF StructTypes
  <2> QED BY <2>1, <2>2 DEF Types, Ref, PointerToRef, Struct, Pointer
<1> QED BY <1>0, <1>1, <1>2, <1>3, <1>4, <1>5

(* If a struct that is held is named once, only its holder is above it.    *)
LEMMA OneHolder ==
  ASSUME ProgramOK, NEW slots, SlotsTyped(slots), SlotsStaged(slots), ~ComesUpTwice,
         NEW i \in Items, NEW j \in Items, <<i, j>> \in Holds, NEW u \in Types,
         Struct(j) \in Range(Children(u, slots)),
         u = Pointer(j) => \E y \in Types : u \in Range(Children(y, slots))
  PROVE  u = Struct(i)
<1>1. PICK k \in Members(i) : IsStruct(i) /\ program[i].members[k] = Ref(j)
  BY DEF Holds
<1> DEFINE n == <<i, k>>
<1>2. n \in MemberNodes /\ k # 0
  BY <1>1, ItemFacts DEF MemberNodes
<1>3. Declared(n) = Ref(j) /\ IsStruct(n[1])
  BY <1>1, <1>2 DEF Declared
<1>4. ASSUME NEW l \in Items, IsStruct(l), NEW m \in Members(l), <<l, m>> \in MemberNodes,
             Declared(<<l, m>>) \in {Ref(j), PointerToRef(j)}
      PROVE  <<l, m>> = n
  <2>1. NeedsName(Declared(<<l, m>>)) /\ Named(Declared(<<l, m>>)) = j
    BY <1>4, Kinds
  <2> QED BY <1>2, <1>3, <1>4, <2>1 DEF ComesUpTwice
<1>5. CASE \E l \in Items : /\ u = Struct(l) /\ IsStruct(l)
                            /\ \E m \in Members(l) : /\ <<l, m>> \in MemberNodes
                                                     /\ Struct(j) = slots[<<l, m>>]
  <2>0. PICK l \in Items : /\ u = Struct(l) /\ IsStruct(l)
                           /\ \E m \in Members(l) : /\ <<l, m>> \in MemberNodes
                                                    /\ Struct(j) = slots[<<l, m>>]
    BY <1>5
  <2>1. PICK m \in Members(l) : <<l, m>> \in MemberNodes /\ slots[<<l, m>>] = Struct(j)
    BY <2>0
  <2>2. Declared(<<l, m>>) = Ref(j)
    BY <2>1, SlotFacts
  <2>3. <<l, m>> = n
    BY <1>4, <2>0, <2>1, <2>2
  <2> QED BY <2>0, <2>3
<1>6. CASE \E l \in Items : u = Pointer(l) /\ Struct(j) = Struct(l)
  <2>1. u = Pointer(j)
    BY <1>6 DEF Struct
  <2>2. PICK y \in Types : u \in Range(Children(y, slots))
    BY <2>1
  <2>3. \E l \in Items : /\ IsStruct(l)
                         /\ \E m \in Members(l) : /\ <<l, m>> \in MemberNodes
                                                  /\ u = slots[<<l, m>>]
    <3>1. /\ \A l : u # Struct(l)
          /\ \A l : u # Ref(l)
      BY <2>1 DEF Pointer, Struct, Ref
    <3> QED BY <2>2, <3>1, BelowIs
  <2>7. PICK l \in Items : /\ IsStruct(l)
                           /\ \E m \in Members(l) : /\ <<l, m>> \in MemberNodes
                                                    /\ u = slots[<<l, m>>]
    BY <2>3
  <2>8. PICK m \in Members(l) : <<l, m>> \in MemberNodes /\ u = slots[<<l, m>>]
    BY <2>7
  <2>4. Declared(<<l, m>>) = PointerToRef(j)
    BY <2>1, <2>8, SlotFacts
  <2>5. <<l, m>> = n
    BY <1>4, <2>4, <2>7, <2>8
  <2>6. PointerToRef(j) # Ref(j)
    BY DEF PointerToRef, Ref
  <2> QED BY <1>3, <2>4, <2>5, <2>6
<1>7. \A l : Struct(j) # Ref(l)
  BY DEF Struct, Ref
<1> QED BY <1>5, <1>6, <1>7, BelowIs

(* From a type that is no struct, every struct is met through a pointer.   *)
LEMMA PointersAreNotRecursive ==
  ASSUME ProgramOK, NEW slots, SlotsTyped(slots), NEW t \in Types, t[1] # "struct"
  PROVE  IsCanonical(t, slots) # "recursive"
<1> DEFINE Kept(c) == \A x \in Range(c.queue) : x[1] # "struct" \/ x \in c.met
           J == {c \in Configuration : Kept(c)}
<1>1. Start(t) \in J
  <2>1. Start(t) \in Configuration
    BY DEF Start, Configuration
  <2>2. Start(t).queue = <<t>>
    BY DEF Start
  <2>3. Range(<<t>>) = {t}
    BY DEF Range
  <2> QED BY <2>1, <2>2, <2>3
<1>2. ASSUME NEW c \in J, c.queue # <<>>
      PROVE  \/ Head(c.queue) \in Met(c)
             \/ Head(c.queue)[1] # "struct" /\ Range(Children(Head(c.queue), slots)) = {}
  <2>1. c \in Configuration /\ Kept(c) /\ Head(c.queue) \in Range(c.queue)
    BY <1>2, TurnSets
  <2>2. Head(c.queue) \in Types
    BY <1>2, <2>1, TurnFacts
  <2>3. CASE Head(c.queue)[1] = "struct"
    BY <2>1, <2>3 DEF Met
  <2>4. CASE IsPointer(Head(c.queue))
    BY <2>4 DEF Met
  <2>5. CASE Head(c.queue)[1] # "struct" /\ ~IsPointer(Head(c.queue))
    <3>1. Children(Head(c.queue), slots) = <<>>
      BY <2>5 DEF Children, IsPointer
    <3>2. Range(<<>>) = {}
      BY DEF Range
    <3> QED BY <2>5, <3>1, <3>2
  <2> QED BY <2>3, <2>4, <2>5
<1>3. ASSUME NEW c \in J, Decision(c, slots) = "undecided"
      PROVE  Turn(c, slots) \in J
  <2> DEFINE d == Turn(c, slots)
             h == Head(c.queue)
             rest == Range(Tail(c.queue))
             below == Range(Children(h, slots))
  <2>1. c \in Configuration /\ c.queue # <<>> /\ Kept(c)
    BY <1>3 DEF Decision
  <2>2. d \in Configuration
    BY <2>1, TurnFacts
  <2>3. Range(c.queue) = {h} \cup rest /\ Range(d.queue) \subseteq rest \cup below
    BY <2>1, TurnSets
  <2>4. d.met = IF h \in Met(c) THEN Met(c) \cup below ELSE Met(c) \ below
    BY <2>1, TurnFacts
  <2>5. h \in Met(c) \/ below = {}
    BY <1>2, <2>1
  <2>6. c.met \subseteq Met(c)
    BY DEF Met
  <2> HIDE DEF d, rest, below, h
  <2>7. Kept(d)
    BY <2>1, <2>3, <2>4, <2>5, <2>6
  <2> QED BY <2>2, <2>7 DEF d
<1>4. \A c \in J : Decision(c, slots) # "recursive"
  BY <1>2 DEF Decision, ComesUpAgain
<1>5. J \in SUBSET Configuration
  OBVIOUS
<1> HIDE DEF J
<1>6. PICK c \in J : /\ Decision(c, slots) # "undecided"
                     /\ IsCanonical(t, slots) = Decision(c, slots)
  BY <1>1, <1>3, <1>5, SearchKeeps
<1> QED BY <1>4, <1>6

(* The search from struct i: what it has not met through a pointer is held *)
(* by i, and what i holds it queues only once.                             *)
SearchedFrom(i, c, slots) ==
  /\ \A j \in Items :
       Struct(j) \in (c.seen \cup Range(c.queue)) \ c.met => j \in HeldBy(i)
  /\ Struct(i) \in c.seen \/ (c.seen = {} /\ c.queue = <<Struct(i)>>)
  /\ \A x \in c.seen \cup Range(c.queue) :
       x = Struct(i) \/ \E y \in c.seen : x \in Range(Children(y, slots))
  /\ \A j \in HeldBy(i) : Struct(j) \in c.seen => Struct(j) \notin Range(c.queue)
  /\ \A h, l \in 1..Len(c.queue) :
       h # l /\ c.queue[h] = c.queue[l] => \A j \in HeldBy(i) : c.queue[h] # Struct(j)

(* What is held below i has a holder there.                                *)
LEMMA HolderBelow ==
  ASSUME ProgramOK, NEW i \in Items, NEW j \in HeldBy(i), j # i
  PROVE  \E l \in HeldBy(i) : <<l, j>> \in Holds
<1> DEFINE P == {n \in HeldBy(i) : n = i \/ \E l \in HeldBy(i) : <<l, n>> \in Holds}
<1>1. i \in P /\ P \in SUBSET Items
  BY HeldByFacts
<1>2. \A e \in Holds : e[1] \in P => e[2] \in P
  <2> SUFFICES ASSUME NEW e \in Holds, e[1] \in P PROVE e[2] \in P
    OBVIOUS
  <2>1. e = <<e[1], e[2]>> /\ e[1] \in HeldBy(i) /\ e[2] \in HeldBy(i)
    BY HeldByFacts DEF Holds
  <2> QED BY <2>1
<1> QED
  <2>1. \A n \in P : n = i \/ \E l \in HeldBy(i) : <<l, n>> \in Holds
    OBVIOUS
  <2> HIDE DEF P
  <2> QED BY <1>1, <1>2, <2>1, HeldByFacts

(* So what is queued of it comes from one struct.                          *)
LEMMA QueuedByHolder ==
  ASSUME ProgramOK, NEW slots, SlotsTyped(slots), SlotsStaged(slots), ~ComesUpTwice,
         NEW i \in Items, NEW c \in Configuration, SearchedFrom(i, c, slots),
         NEW j \in HeldBy(i), j # i
  PROVE  \E l \in HeldBy(i) :
           /\ <<l, j>> \in Holds
           /\ \A u \in c.seen \cup Range(c.queue) :
                Struct(j) \in Range(Children(u, slots)) => u = Struct(l)
<1>1. PICK l \in HeldBy(i) : <<l, j>> \in Holds
  BY HolderBelow
<1>2. l \in Items /\ j \in Items
  BY HeldByFacts
<1>3. c.seen \subseteq Types /\ Range(c.queue) \subseteq Types
  BY DEF Configuration, Range
<1>4. ASSUME NEW u \in c.seen \cup Range(c.queue),
             Struct(j) \in Range(Children(u, slots))
      PROVE  u = Struct(l)
  <2>1. u = Pointer(j) => \E y \in Types : u \in Range(Children(y, slots))
    BY <1>3, TypesDiffer DEF SearchedFrom
  <2> QED BY <1>1, <1>2, <1>3, <1>4, <2>1, OneHolder
<1> QED BY <1>1, <1>4

(* This holds where the search starts.                                     *)
LEMMA SearchedFromStart ==
  ASSUME ProgramOK, NEW slots, NEW i \in Items, IsStruct(i)
  PROVE  Start(Struct(i)) \in Configuration /\ SearchedFrom(i, Start(Struct(i)), slots)
<1> DEFINE c == Start(Struct(i))
<1>1. Struct(i) \in Types
  BY DEF Types, StructTypes, Struct
<1>2. c.queue = <<Struct(i)>> /\ c.seen = {} /\ c.met = {}
  BY DEF Start
<1>3. c \in Configuration
  BY <1>1 DEF Start, Configuration
<1>4. Range(<<Struct(i)>>) = {Struct(i)} /\ Len(<<Struct(i)>>) = 1
  BY DEF Range
<1> HIDE DEF c
<1>5. \A j \in Items : Struct(j) = Struct(i) => j \in HeldBy(i)
  BY TypesDiffer, HeldByFacts
<1>6. \A h, l \in 1..1 : h = l
  OBVIOUS
<1>7. SearchedFrom(i, c, slots)
  BY <1>2, <1>4, <1>5, <1>6 DEF SearchedFrom
<1> QED BY <1>3, <1>7 DEF c

(* A turn keeps it, if no struct that is held is named by one more member. *)
LEMMA SearchedFromTurn ==
  ASSUME ProgramOK, NEW slots, SlotsTyped(slots), SlotsStaged(slots), ~ComesUpTwice,
         NEW i \in Items, NEW c \in Configuration, SearchedFrom(i, c, slots),
         Decision(c, slots) = "undecided"
  PROVE  Turn(c, slots) \in Configuration /\ SearchedFrom(i, Turn(c, slots), slots)
<1> DEFINE d == Turn(c, slots)
           h == Head(c.queue)
           children == Children(h, slots)
           rest == Tail(c.queue)
           below == Range(children)
<1>1. c.queue # <<>>
  BY DEF Decision
<1>2. d \in Configuration /\ d.seen = c.seen \cup {h} /\ h \in Types
  BY <1>1, TurnFacts
<1>3. Range(c.queue) = {h} \cup Range(rest) /\ Range(d.queue) = Range(rest) \cup (below \ d.seen)
  BY <1>1, TurnSets
<1>4. d.met = IF h \in Met(c) THEN Met(c) \cup below ELSE Met(c) \ below
  BY <1>1, TurnFacts
<1>5. QueueAfter(d.queue, Types, rest, children, Seen(c), Len(children))
  BY <1>1, TurnFacts
<1>6. Seen(c) = d.seen
  BY <1>2 DEF Seen
<1>7. /\ c.queue \in Seq(Types) /\ Len(c.queue) \in Nat /\ Len(c.queue) >= 1
      /\ h = c.queue[1] /\ 1 \in 1..Len(c.queue)
      /\ rest \in Seq(Types) /\ Len(rest) = Len(c.queue) - 1
      /\ \A l \in 1..Len(rest) : rest[l] = c.queue[l + 1]
  BY <1>1 DEF Configuration
<1>8. /\ Len(children) \in Nat /\ DOMAIN children = 1..Len(children)
      /\ h \notin {Struct(j) : j \in Items} => Len(children) <= 1
  BY <1>2, ChildrenTyped
<1>9. d.queue \in Seq(Types) /\ Len(d.queue) \in Nat /\ Len(rest) <= Len(d.queue)
  BY <1>2, <1>5 DEF QueueAfter, Configuration
<1>10. Struct(i) \in d.seen
  <2>1. CASE Struct(i) \in c.seen
    BY <1>2, <2>1
  <2>2. CASE c.queue = <<Struct(i)>>
    <3>1. h = Struct(i)
      BY <2>2
    <3> QED BY <1>2, <3>1
  <2> QED BY <2>1, <2>2 DEF SearchedFrom
<1> HIDE DEF d, children, rest, h
<1>11. \A j \in Items :
         Struct(j) \in (d.seen \cup Range(d.queue)) \ d.met => j \in HeldBy(i)
  <2> SUFFICES ASSUME NEW j \in Items, Struct(j) \in d.seen \cup Range(d.queue),
                      Struct(j) \notin d.met
               PROVE  j \in HeldBy(i)
    OBVIOUS
  <2>1. c.met \subseteq Met(c)
    BY DEF Met
  <2>2. CASE Struct(j) \notin below
    <3>1. Struct(j) \in c.seen \cup Range(c.queue)
      BY <1>2, <1>3, <2>2
    <3>2. Struct(j) \notin c.met
      BY <1>4, <2>1, <2>2
    <3> QED BY <3>1, <3>2 DEF SearchedFrom
  <2>3. CASE Struct(j) \in below
    <3>1. h \notin Met(c)
      BY <1>4, <2>3
    <3>2. h \notin c.met /\ ~IsPointer(h)
      BY <3>1 DEF Met, h
    <3>3. \A l : h # Pointer(l) /\ h # PointerToRef(l)
      BY <3>2, Kinds
    <3>4. PICK l \in Items : /\ h = Struct(l) /\ IsStruct(l)
                             /\ \E k \in Members(l) : /\ <<l, k>> \in MemberNodes
                                                      /\ Struct(j) = slots[<<l, k>>]
      BY <1>2, <2>3, <3>3, BelowIs DEF children
    <3>5. PICK k \in Members(l) : <<l, k>> \in MemberNodes /\ Struct(j) = slots[<<l, k>>]
      BY <3>4
    <3>6. Declared(<<l, k>>) = Ref(j) /\ k # 0
      BY <3>5, SlotFacts, ItemFacts
    <3>7. <<l, j>> \in Holds
      BY <3>4, <3>6 DEF Declared, Holds
    <3>8. l \in HeldBy(i)
      BY <1>3, <3>2, <3>4 DEF SearchedFrom
    <3> QED BY <3>7, <3>8, HeldByFacts
  <2> QED BY <2>2, <2>3
<1>12. \A x \in d.seen \cup Range(d.queue) :
         x = Struct(i) \/ \E y \in d.seen : x \in Range(Children(y, slots))
  <2> SUFFICES ASSUME NEW x \in d.seen \cup Range(d.queue), x # Struct(i)
               PROVE  \E y \in d.seen : x \in Range(Children(y, slots))
    OBVIOUS
  <2>1. CASE x \in below
    BY <1>2, <2>1 DEF children
  <2>2. CASE x \in c.seen \cup Range(c.queue)
    <3>1. PICK y \in c.seen : x \in Range(Children(y, slots))
      BY <2>2 DEF SearchedFrom
    <3> QED BY <1>2, <3>1
  <2> QED BY <1>2, <1>3, <2>1, <2>2
<1>13. \A j \in HeldBy(i) : h = Struct(j) => Struct(j) \notin Range(rest)
  <2> SUFFICES ASSUME NEW j \in HeldBy(i), h = Struct(j), Struct(j) \in Range(rest)
               PROVE  FALSE
    OBVIOUS
  <2>1. PICK l \in 1..Len(rest) : rest[l] = h
    BY <1>7 DEF Range
  <2>2. l + 1 \in 1..Len(c.queue) /\ l + 1 # 1 /\ c.queue[l + 1] = c.queue[1]
    BY <1>7, <2>1
  <2> QED BY <1>7, <2>2 DEF SearchedFrom
<1>14. \A j \in HeldBy(i) : Struct(j) \in d.seen => Struct(j) \notin Range(d.queue)
  <2> SUFFICES ASSUME NEW j \in HeldBy(i), Struct(j) \in d.seen,
                      Struct(j) \in Range(rest)
               PROVE  FALSE
    BY <1>3
  <2>1. Struct(j) \in c.seen
    BY <1>2, <1>13
  <2> QED BY <1>3, <2>1 DEF SearchedFrom
(* A child that is queued was not in the queue: its holder is the head.    *)
<1>15. ASSUME NEW j \in HeldBy(i), Struct(j) \in below, Struct(j) \notin d.seen
       PROVE  Struct(j) \notin Range(rest) /\ \E l \in Items : h = Struct(l)
  <2>1. j # i
    BY <1>10, <1>15
  <2>2. PICK l \in HeldBy(i) :
          /\ <<l, j>> \in Holds
          /\ \A u \in c.seen \cup Range(c.queue) :
               Struct(j) \in Range(Children(u, slots)) => u = Struct(l)
    BY <2>1, QueuedByHolder
  <2>3. h = Struct(l)
    BY <1>3, <1>15, <2>2 DEF children
  <2>4. ASSUME Struct(j) \in Range(rest)
        PROVE  FALSE
    <3>1. PICK y \in c.seen : Struct(j) \in Range(Children(y, slots))
      BY <1>3, <2>1, <2>4, TypesDiffer DEF SearchedFrom
    <3>2. y = Struct(l)
      BY <2>2, <3>1
    <3> QED BY <1>3, <2>3, <3>1, <3>2 DEF SearchedFrom
  <2>5. l \in Items
    BY HeldByFacts
  <2> QED BY <2>3, <2>4, <2>5
<1>16. \A g, l \in 1..Len(d.queue) :
         g # l /\ d.queue[g] = d.queue[l] => \A j \in HeldBy(i) : d.queue[g] # Struct(j)
  <2> SUFFICES ASSUME NEW g \in 1..Len(d.queue), NEW l \in 1..Len(d.queue), g # l,
                      NEW j \in HeldBy(i), d.queue[g] = Struct(j), d.queue[l] = Struct(j)
               PROVE  FALSE
    OBVIOUS
  <2>1. ASSUME NEW m \in 1..Len(rest)
        PROVE  /\ d.queue[m] = rest[m] /\ rest[m] \in Range(rest)
               /\ m + 1 \in 1..Len(c.queue) /\ rest[m] = c.queue[m + 1]
    BY <1>5, <1>7 DEF QueueAfter, Range
  <2>2. ASSUME NEW m \in 1..Len(d.queue), m \notin 1..Len(rest)
        PROVE  /\ m \in Len(rest) + 1..Len(d.queue)
               /\ d.queue[m] \in below /\ d.queue[m] \notin d.seen
    <3>1. m \in Len(rest) + 1..Len(d.queue)
      BY <1>7, <1>9, <2>2
    <3>2. PICK k \in 1..Len(children) :
            d.queue[m] = children[k] /\ children[k] \notin d.seen
      BY <1>5, <1>6, <3>1 DEF QueueAfter
    <3> QED BY <1>8, <3>1, <3>2 DEF Range
  <2>3. CASE g \in 1..Len(rest) /\ l \in 1..Len(rest)
    <3>1. /\ g + 1 \in 1..Len(c.queue) /\ l + 1 \in 1..Len(c.queue)
          /\ c.queue[g + 1] = Struct(j) /\ c.queue[l + 1] = Struct(j)
      BY <2>1, <2>3
    <3>2. g + 1 # l + 1
      OBVIOUS
    <3> QED BY <3>1, <3>2 DEF SearchedFrom
  <2>4. CASE g \in 1..Len(rest) /\ l \notin 1..Len(rest)
    BY <1>15, <2>1, <2>2, <2>4
  <2>5. CASE g \notin 1..Len(rest) /\ l \in 1..Len(rest)
    BY <1>15, <2>1, <2>2, <2>5
  <2>6. CASE g \notin 1..Len(rest) /\ l \notin 1..Len(rest)
    <3>1. g \in Len(rest) + 1..Len(d.queue) /\ l \in Len(rest) + 1..Len(d.queue)
      BY <2>2, <2>6
    <3>2. PICK k \in 1..Len(children), m \in 1..Len(children) :
            k # m /\ children[k] = Struct(j) /\ children[m] = Struct(j)
      <4>1. \A a, b \in Len(rest) + 1..Len(d.queue) :
              a # b => \E k, m \in 1..Len(children) :
                         k # m /\ d.queue[a] = children[k] /\ d.queue[b] = children[m]
        BY <1>5 DEF QueueAfter
      <4>2. \E k, m \in 1..Len(children) :
              k # m /\ d.queue[g] = children[k] /\ d.queue[l] = children[m]
        BY <3>1, <4>1
      <4> QED BY <4>2
    <3>3. PICK n \in Items : h = Struct(n)
      BY <1>15, <2>2, <2>6
    <3>4. /\ children = [q \in Members(n) |-> slots[<<n, q>>]]
          /\ IsStruct(n)
      <4>1. Struct(n) \in StructTypes
        BY <1>2, <3>3 DEF Types, Struct, Prim
      <4>2. IsStruct(n)
        BY <4>1 DEF StructTypes, Struct
      <4> QED BY <3>3, <4>2 DEF children, Children, Struct
    <3>5. k \in Members(n) /\ m \in Members(n)
      BY <1>8, <3>4
    <3>6. /\ <<n, k>> \in MemberNodes /\ <<n, m>> \in MemberNodes
          /\ slots[<<n, k>>] = Struct(j) /\ slots[<<n, m>>] = Struct(j)
      BY <3>2, <3>4, <3>5 DEF MemberNodes
    <3>7. Declared(<<n, k>>) = Ref(j) /\ Declared(<<n, m>>) = Ref(j)
      BY <3>6, SlotFacts
    <3>8. NeedsName(Ref(j)) /\ Named(Ref(j)) = j /\ <<n, k>> # <<n, m>>
      BY <3>2, Kinds
    <3> QED BY <3>4, <3>6, <3>7, <3>8 DEF ComesUpTwice
  <2> QED BY <2>3, <2>4, <2>5, <2>6
<1>17. SearchedFrom(i, d, slots)
  BY <1>10, <1>11, <1>12, <1>14, <1>16 DEF SearchedFrom
<1> QED BY <1>2, <1>17 DEF d

(* A struct is called recursive only if one holds itself, or one that is   *)
(* held is named by one more member.                                       *)
LEMMA RecursiveIsExplained ==
  ASSUME ProgramOK, NEW slots, SlotsTyped(slots), SlotsStaged(slots), NEW t \in Types,
         IsCanonical(t, slots) = "recursive"
  PROVE  HasCycle(Holds) \/ ComesUpTwice
<1> SUFFICES ASSUME ~ComesUpTwice PROVE HasCycle(Holds)
  OBVIOUS
<1>1. t[1] = "struct"
  BY PointersAreNotRecursive
<1>2. PICK i \in Items : t = Struct(i) /\ IsStruct(i)
  <2>1. t \in StructTypes
    BY <1>1 DEF Types, Prim
  <2>2. PICK i \in Items : IsStruct(i) /\ t \in {<<"struct", i>>, <<"pointer", i>>}
    BY <2>1 DEF StructTypes
  <2> QED BY <1>1, <2>2 DEF Struct
<1> DEFINE J == {c \in Configuration : SearchedFrom(i, c, slots)}
<1>3. Start(t) \in J
  BY <1>2, SearchedFromStart
<1>4. \A c \in J : Decision(c, slots) = "undecided" => Turn(c, slots) \in J
  BY SearchedFromTurn
<1>5. PICK c \in J : Decision(c, slots) = "recursive"
  <2>1. J \in SUBSET Configuration
    OBVIOUS
  <2> HIDE DEF J
  <2> QED BY <1>3, <1>4, <2>1, SearchKeeps
<1> DEFINE h == Head(c.queue)
<1>6. /\ c \in Configuration /\ SearchedFrom(i, c, slots)
      /\ c.queue # <<>> /\ ComesUpAgain(c, slots)
  BY <1>5 DEF Decision
<1>7. /\ h \in Range(c.queue) /\ h \in Types /\ h[1] = "struct" /\ h \notin c.met
  BY <1>6, TurnSets, TurnFacts DEF ComesUpAgain, Met
<1>8. PICK x \in Range(Children(h, slots)) : x \in c.seen \cup {h} /\ x[1] = "struct"
  BY <1>6 DEF ComesUpAgain, Seen
<1> HIDE DEF h
<1>9. PICK l \in Items : /\ h = Struct(l) /\ IsStruct(l)
                         /\ \E k \in Members(l) : <<l, k>> \in MemberNodes /\ x = slots[<<l, k>>]
  <2>1. \A n : h # Pointer(n) /\ h # PointerToRef(n)
    BY <1>7 DEF Pointer, PointerToRef
  <2> QED BY <1>7, <1>8, <2>1, BelowIs
<1>10. PICK k \in Members(l) : <<l, k>> \in MemberNodes /\ x = slots[<<l, k>>]
  BY <1>9
<1>11. PICK j \in Items : x = Struct(j)
  <2>1. x \in Types
    BY <1>6, <1>7, <1>8 DEF Configuration
  <2>2. x \in StructTypes
    BY <1>8, <2>1 DEF Types, Prim
  <2>3. PICK j \in Items : x \in {<<"struct", j>>, <<"pointer", j>>}
    BY <2>2 DEF StructTypes
  <2> QED BY <1>8, <2>3 DEF Struct
<1>12. <<l, j>> \in Holds
  <2>1. Declared(<<l, k>>) = Ref(j) /\ k # 0
    BY <1>10, <1>11, SlotFacts, ItemFacts
  <2> QED BY <1>9, <2>1 DEF Declared, Holds
<1>13. l \in HeldBy(i) /\ j \in HeldBy(i)
  <2>1. l \in HeldBy(i)
    BY <1>6, <1>7, <1>9 DEF SearchedFrom
  <2> QED BY <1>12, <2>1, HeldByFacts
<1>14. CASE j = i
  BY <1>12, <1>13, <1>14, HoldsAbove
<1>15. CASE j = l
  BY <1>12, <1>15, HoldsAbove, HeldByFacts
<1>16. CASE j # i /\ j # l
  <2>1. PICK m \in HeldBy(i) :
          \A u \in c.seen \cup Range(c.queue) :
            Struct(j) \in Range(Children(u, slots)) => u = Struct(m)
    BY <1>6, <1>13, <1>16, QueuedByHolder
  <2>2. h = Struct(m)
    BY <1>7, <1>8, <1>11, <2>1
  <2>3. x \in c.seen /\ x # Struct(i)
    BY <1>8, <1>9, <1>11, <1>16, TypesDiffer
  <2>4. PICK y \in c.seen : x \in Range(Children(y, slots))
    BY <1>6, <2>3 DEF SearchedFrom
  <2>5. y = Struct(m)
    BY <1>11, <2>1, <2>4
  <2> QED BY <1>6, <1>7, <2>2, <2>4, <2>5 DEF SearchedFrom
<1> QED BY <1>14, <1>15, <1>16

-----------------------------------------------------------------------------
(* What the first pass knows, and the order of the second.                 *)

(* The nodes that TypePrecheck has visited; the others are as declared,    *)
(* and what these name is there.                                           *)
Before(m, n) == m[1] < n[1] \/ (m[1] = n[1] /\ m[2] < n[2])
Untouched ==
  pc = "prechecking" =>
    \A n \in Nodes : ~Before(n, at) =>
      type[n] = Declared(n) /\ (n \in MemberNodes => slot[n] = Declared(n))
Known ==
  \A n \in Nodes : Before(n, at) /\ NeedsName(Declared(n)) => IsStruct(Named(Declared(n)))
Ended == pc \in {"sorting", "checking", "accepted"} => at = <<Len(program) + 1, 0>>

(* A member that holds a struct waits for it, and its own struct for the   *)
(* member, unless all that is held there is complete for good.             *)
Ready(j) == \A m \in HeldBy(j) : \A k \in Members(m) : ~NeedsName(slot[<<m, k>>])
Waits(n, j) == <<Decl(j), n>> \in depends /\ <<n, Decl(n[1])>> \in depends
Ordered ==
  \A n \in MemberNodes, j \in Items :
    IsStruct(n[1]) /\ Before(n, at) /\ Declared(n) = Ref(j) =>
      Waits(n, j) \/ (n[1] \notin HeldBy(j) /\ Ready(j))

(* TypeCheck visits what a node depends on first.                          *)
Behind == \A e \in depends : e[2] \in checked => e[1] \in checked
NoCycleLeft == pc \in {"checking", "accepted"} => ~HasCycle(depends)

OrderInv ==
  /\ Untouched /\ Known /\ Ended /\ Ordered /\ Behind /\ NoCycleLeft
  /\ HeldAreComplete /\ RecursiveOrShared

(* The first pass goes through the nodes in their order.                   *)
LEMMA BeforeFacts ==
  ASSUME ProgramOK, NEW n \in Nodes
  PROVE  /\ \A m \in Nodes : Before(m, NextNode(n)) <=> Before(m, n) \/ m = n
         /\ ~Before(n, n)
         /\ Before(n, <<Len(program) + 1, 0>>)
<1>1. /\ n = <<n[1], n[2]>> /\ n[1] \in Items /\ n[2] \in Nat
      /\ n[2] = 0 \/ n[2] \in Members(n[1])
  BY NodeFacts
<1>2. Items = 1..Len(program) /\ Len(program) \in Nat
  BY DEF ProgramOK, Items
<1>3. /\ Members(n[1]) = 1..Len(program[n[1]].members)
      /\ Len(program[n[1]].members) \in Nat
  BY <1>1, ItemFacts
<1>4. ASSUME NEW m \in Nodes
      PROVE  Before(m, NextNode(n)) <=> Before(m, n) \/ m = n
  <2>1. /\ m = <<m[1], m[2]>> /\ m[1] \in Items /\ m[2] \in Nat
        /\ m[2] = 0 \/ m[2] \in Members(m[1])
    BY NodeFacts
  <2>2. m[1] = n[1] => m[2] <= Len(program[n[1]].members)
    BY <1>1, <1>3, <2>1
  <2>3. m[1] \in Int /\ n[1] \in Int
    BY <1>1, <1>2, <2>1
  <2>4. m = n <=> m[1] = n[1] /\ m[2] = n[2]
    BY <1>1, <2>1
  <2>5. CASE n[2] < Len(program[n[1]].members)
    <3>1. NextNode(n) = <<n[1], n[2] + 1>>
      BY <2>5 DEF NextNode
    <3>2. NextNode(n)[1] = n[1] /\ NextNode(n)[2] = n[2] + 1
      BY <3>1
    <3>3. m[2] < n[2] + 1 <=> m[2] < n[2] \/ m[2] = n[2]
      BY <1>1, <2>1
    <3> QED BY <2>3, <2>4, <3>2, <3>3 DEF Before
  <2>6. CASE ~(n[2] < Len(program[n[1]].members))
    <3>1. NextNode(n) = <<n[1] + 1, 0>>
      BY <2>6 DEF NextNode
    <3>2. NextNode(n)[1] = n[1] + 1 /\ NextNode(n)[2] = 0
      BY <3>1
    <3>3. /\ m[1] < n[1] + 1 <=> m[1] < n[1] \/ m[1] = n[1]
          /\ ~(m[2] < 0)
      BY <2>1, <2>3
    <3>4. m[1] = n[1] => m[2] < n[2] \/ m[2] = n[2]
      BY <1>1, <1>3, <2>1, <2>2, <2>6
    <3> QED BY <2>3, <2>4, <3>2, <3>3, <3>4 DEF Before
  <2> QED BY <2>5, <2>6
<1>5. ~Before(n, n)
  BY <1>1, <1>2 DEF Before
<1>6. Before(n, <<Len(program) + 1, 0>>)
  BY <1>1, <1>2 DEF Before
<1> QED BY <1>4, <1>5, <1>6

(* What a struct holds, besides itself, it holds through a member.         *)
LEMMA HeldSplits ==
  ASSUME ProgramOK, NEW i \in Items, NEW m \in HeldBy(i), m # i
  PROVE  \E j \in Items : <<i, j>> \in Holds /\ m \in HeldBy(j)
<1> DEFINE P == {n \in HeldBy(i) :
                   n = i \/ \E j \in Items : <<i, j>> \in Holds /\ n \in HeldBy(j)}
<1>1. i \in P /\ P \in SUBSET Items
  BY HeldByFacts
<1>2. \A e \in Holds : e[1] \in P => e[2] \in P
  <2> SUFFICES ASSUME NEW e \in Holds, e[1] \in P PROVE e[2] \in P
    OBVIOUS
  <2>1. e = <<e[1], e[2]>> /\ e[2] \in HeldBy(i) /\ e[2] \in Items
    BY HeldByFacts DEF Holds
  <2>2. CASE e[1] = i
    <3>1. <<i, e[2]>> \in Holds /\ e[2] \in HeldBy(e[2])
      BY <2>1, <2>2, HeldByFacts
    <3> QED BY <2>1, <3>1
  <2>3. CASE \E j \in Items : <<i, j>> \in Holds /\ e[1] \in HeldBy(j)
    <3>1. PICK j \in Items : <<i, j>> \in Holds /\ e[1] \in HeldBy(j)
      BY <2>3
    <3>2. e[2] \in HeldBy(j)
      BY <3>1, HeldByFacts
    <3> QED BY <2>1, <3>1, <3>2
  <2> QED BY <2>2, <2>3
<1>3. \A n \in P : n = i \/ \E j \in Items : <<i, j>> \in Holds /\ n \in HeldBy(j)
  OBVIOUS
<1> HIDE DEF P
<1> QED BY <1>1, <1>2, <1>3, HeldByFacts

(* A struct that is called canonical is ready, for good.                   *)
LEMMA CanonicalIsReady ==
  ASSUME ProgramOK, SlotsTyped(slot), SlotsStaged(slot), NEW j \in Items, IsStruct(j),
         Canonical(Struct(j)) = "canonical"
  PROVE  Ready(j)
<1>1. Struct(j) \in Types
  BY DEF Types, StructTypes, Struct
<1>2. PICK S : Struct(j) \in S /\ CompleteTypes(S, slot)
  BY <1>1, CanonicalIsComplete DEF Canonical
<1>3. ASSUME NEW m \in Items, Struct(m) \in S, NEW k \in Members(m)
      PROVE  slot[<<m, k>>] \in S
  <2>1. Children(Struct(m), slot) = [l \in Members(m) |-> slot[<<m, l>>]]
    BY DEF Children, Struct
  <2>2. slot[<<m, k>>] \in Range(Children(Struct(m), slot))
    BY <2>1 DEF Range
  <2> QED BY <1>2, <1>3, <2>2 DEF CompleteTypes
<1>4. ASSUME NEW t \in S
      PROVE  ~NeedsName(t)
  <2>1. t[1] # "ref"
    BY <1>2 DEF CompleteTypes
  <2>2. ASSUME t[1] = "pointer_to_ref"
        PROVE  FALSE
    <3>1. Children(t, slot) = <<Ref(t[2])>>
      BY <2>2 DEF Children
    <3>2. Ref(t[2]) \in Range(Children(t, slot))
      <4>1. DOMAIN <<Ref(t[2])>> = {1} /\ <<Ref(t[2])>>[1] = Ref(t[2])
        OBVIOUS
      <4> QED BY <3>1, <4>1 DEF Range
    <3>3. Ref(t[2]) \in S
      BY <1>2, <3>2 DEF CompleteTypes
    <3> QED BY <1>2, <3>3 DEF CompleteTypes, Ref
  <2> QED BY <2>1, <2>2 DEF NeedsName
<1> DEFINE P == {m \in HeldBy(j) : Struct(m) \in S}
<1>5. j \in P /\ P \in SUBSET Items
  BY <1>2, HeldByFacts
<1>6. \A e \in Holds : e[1] \in P => e[2] \in P
  <2> SUFFICES ASSUME NEW e \in Holds, e[1] \in P PROVE e[2] \in P
    OBVIOUS
  <2>1. e[1] \in Items /\ e[2] \in HeldBy(j) /\ Struct(e[1]) \in S
    BY HeldByFacts
  <2>2. PICK k \in Members(e[1]) : program[e[1]].members[k] = Ref(e[2])
    BY DEF Holds
  <2>3. <<e[1], k>> \in MemberNodes /\ k # 0
    BY <2>1, ItemFacts DEF MemberNodes
  <2>4. Declared(<<e[1], k>>) = Ref(e[2])
    BY <2>2, <2>3 DEF Declared
  <2>5. slot[<<e[1], k>>] \in {Ref(e[2]), Struct(e[2])}
    BY <2>3, <2>4, Kinds DEF SlotsStaged, StagesOf
  <2>6. slot[<<e[1], k>>] \in S
    BY <1>3, <2>1
  <2>7. slot[<<e[1], k>>] = Struct(e[2])
    BY <1>4, <2>5, <2>6, Kinds
  <2> QED BY <2>1, <2>6, <2>7
<1>7. \A m \in HeldBy(j) : m \in Items /\ Struct(m) \in S
  <2> HIDE DEF P
  <2>1. HeldBy(j) \subseteq P
    BY <1>5, <1>6, HeldByFacts
  <2> QED BY <1>5, <2>1 DEF P
<1> QED BY <1>3, <1>4, <1>7 DEF Ready

(* While the first pass runs, every type is one of the program.            *)
LEMMA NamedIsType ==
  ASSUME ProgramOK, NEW n \in Nodes, NEW j,
         Declared(n) \in {Ref(j), PointerToRef(j)}
  PROVE  j \in Names
<1>1. Declared(n)[2] = j
  BY DEF Ref, PointerToRef
<1> QED BY <1>1 DEF Names

(* A type at either stage is one of the program, if the name in it is      *)
(* there.                                                                  *)
LEMMA StageTyped ==
  ASSUME ProgramOK, NEW n \in Nodes, NEW t \in StagesOf(Declared(n)),
         \/ t = Declared(n)
         \/ NeedsName(Declared(n)) => IsStruct(Named(Declared(n)))
  PROVE  t \in Types
<1>0. t \in {Declared(n), Resolved(Declared(n))}
  BY DEF StagesOf
<1>1. CASE Declared(n) = Prim
  <2>1. t = Prim
    BY <1>0, <1>1, Kinds
  <2> QED BY <2>1 DEF Types
<1>2. CASE Declared(n) = Struct(n[1]) /\ IsStruct(n[1])
  <2>1. t = Struct(n[1])
    BY <1>0, <1>2, Kinds
  <2> QED BY <1>2, <2>1 DEF Types, StructTypes, Struct, IsStruct
<1>3. CASE \E j \in Nat : Declared(n) \in {Ref(j), PointerToRef(j)}
  <2>1. PICK j \in Nat : Declared(n) \in {Ref(j), PointerToRef(j)}
    BY <1>3
  <2>2. Ref(j) \in Types /\ PointerToRef(j) \in Types
    BY <2>1, NamedIsType DEF Types, Ref, PointerToRef
  <2>3. IsStruct(j) => Struct(j) \in Types /\ Pointer(j) \in Types
    BY DEF Types, StructTypes, Struct, Pointer, IsStruct
  <2>4. NeedsName(Declared(n)) /\ Named(Declared(n)) = j
    BY <2>1, Kinds
  <2>5. Resolved(Declared(n)) \in {Struct(j), Pointer(j)}
    BY <2>1, Kinds
  <2> QED BY <1>0, <2>1, <2>2, <2>3, <2>4, <2>5
<1> QED BY <1>1, <1>2, <1>3, DeclaredFacts

(* So IsCanonical is asked of member types it is about.                    *)
LEMMA FirstPassTyped ==
  ASSUME IInv, Untouched, Known, pc = "prechecking"
  PROVE  SlotsTyped(slot) /\ SlotsStaged(slot)
<1>1. ProgramOK /\ SlotsStaged(slot)
  BY DEF IInv, Staged, SlotsStaged
<1>2. ASSUME NEW n \in MemberNodes
      PROVE  slot[n] \in Types
  <2>1. n \in Nodes /\ slot[n] \in StagesOf(Declared(n))
    BY <1>1 DEF Nodes, SlotsStaged
  <2>2. CASE Before(n, at)
    BY <1>1, <2>1, <2>2, StageTyped DEF Known
  <2>3. CASE ~Before(n, at)
    BY <1>1, <2>1, <2>3, StageTyped DEF Untouched
  <2> QED BY <2>2, <2>3
<1> QED BY <1>1, <1>2 DEF SlotsTyped

(* What check_type finds at a node.                                        *)
LEMMA AtNode ==
  ASSUME IInv, Untouched, Known, pc = "prechecking", at \in Nodes
  PROVE  /\ type[at] = Declared(at)
         /\ CheckFails(type[at]) = "no" =>
              /\ NeedsName(Declared(at)) => IsStruct(Named(Declared(at)))
              /\ TypeChecked(type[at]) \in Types
              /\ Canonical(TypeChecked(type[at])) = "recursive" =>
                   HasCycle(Holds) \/ ComesUpTwice
         /\ CheckFails(type[at]) = "recursive" => HasCycle(Holds) \/ ComesUpTwice
<1>0. ProgramOK /\ SlotsTyped(slot) /\ SlotsStaged(slot)
  BY FirstPassTyped DEF IInv
<1>1. type[at] = Declared(at)
  BY <1>0, BeforeFacts DEF Untouched
<1>2. ASSUME CheckFails(type[at]) = "no"
      PROVE  /\ NeedsName(Declared(at)) => IsStruct(Named(Declared(at)))
             /\ TypeChecked(type[at]) \in Types
  <2>1. NeedsName(Declared(at)) => IsStruct(Named(Declared(at)))
    BY <1>1, <1>2 DEF CheckFails
  <2>2. TypeChecked(type[at]) \in StagesOf(Declared(at))
    BY <1>0, <1>1, Resolving DEF StagesOf
  <2> QED BY <1>0, <2>1, <2>2, StageTyped
<1>3. ASSUME CheckFails(type[at]) = "no", Canonical(TypeChecked(type[at])) = "recursive"
      PROVE  HasCycle(Holds) \/ ComesUpTwice
  BY <1>0, <1>2, <1>3, RecursiveIsExplained DEF Canonical
<1>4. ASSUME CheckFails(type[at]) = "recursive"
      PROVE  HasCycle(Holds) \/ ComesUpTwice
  <2> DEFINE j == Named(type[at])
  <2>1. IsStruct(j) /\ Canonical(Struct(j)) = "recursive"
    BY <1>4 DEF CheckFails
  <2>2. Struct(j) \in Types
    BY <2>1 DEF Types, StructTypes, Struct, IsStruct
  <2> QED BY <1>0, <2>1, <2>2, RecursiveIsExplained DEF Canonical
<1> QED BY <1>1, <1>2, <1>3, <1>4

(* A member that holds a struct waits for it when it is not ready.         *)
LEMMA MemberWaitsOrIsReady ==
  ASSUME IInv, Untouched, Known, pc = "prechecking", at \in MemberNodes,
         IsStruct(at[1]), NEW j \in Items, Declared(at) = Ref(j),
         CheckFails(type[at]) = "no"
  PROVE  \/ /\ <<Decl(j), at>> \in NewDependency(type[at], at)
            /\ <<at, Decl(at[1])>> \in MemberDependency(TypeChecked(type[at]), at)
         \/ at[1] \notin HeldBy(j) /\ Ready(j)
<1>0. ProgramOK /\ SlotsTyped(slot) /\ SlotsStaged(slot) /\ at \in Nodes
  BY FirstPassTyped DEF IInv, Nodes
<1>1. type[at] = Ref(j) /\ slot[at] = Ref(j)
  BY <1>0, BeforeFacts DEF Untouched
<1>2. NeedsName(Ref(j)) /\ Named(Ref(j)) = j
  BY Kinds
<1>3. IsStruct(j) /\ Canonical(Struct(j)) # "recursive"
  BY <1>1, <1>2 DEF CheckFails
<1>4. Canonical(Struct(j)) \in Answers
  <2>1. Struct(j) \in Types
    BY <1>3 DEF Types, StructTypes, Struct
  <2> QED BY <1>0, <2>1, AnswersOnly DEF Canonical
<1>5. CASE Canonical(Struct(j)) = "incomplete"
  <2>1. <<Decl(j), at>> \in NewDependency(type[at], at)
    BY <1>1, <1>2, <1>5 DEF NewDependency
  <2>2. TypeChecked(type[at]) = Struct(j)
    BY <1>1, Checking
  <2>3. <<at, Decl(at[1])>> \in MemberDependency(TypeChecked(type[at]), at)
    BY <1>5, <2>2, Kinds DEF MemberDependency
  <2> QED BY <2>1, <2>3
<1>6. CASE Canonical(Struct(j)) = "canonical"
  <2>1. Ready(j)
    BY <1>0, <1>3, <1>6, CanonicalIsReady
  <2>2. ASSUME at[1] \in HeldBy(j)
        PROVE  FALSE
    <3>1. at = <<at[1], at[2]>> /\ at[2] \in Members(at[1])
      BY <1>0, NodeFacts
    <3>2. ~NeedsName(slot[at])
      BY <2>1, <2>2, <3>1 DEF Ready
    <3> QED BY <1>1, <1>2, <3>2
  <2> QED BY <2>1, <2>2
<1> QED BY <1>3, <1>4, <1>5, <1>6 DEF Answers

(* What is said of the program alone does not change.                      *)
LEMMA HeldFrame ==
  ASSUME program' = program
  PROVE  /\ Holds' = Holds /\ \A i : HeldBy(i)' = HeldBy(i)
         /\ (HasCycle(Holds) \/ ComesUpTwice)' <=> (HasCycle(Holds) \/ ComesUpTwice)
<1>1. Holds' = Holds
  BY DEF Holds, Items, IsStruct, Members
<1>2. \A i : HeldBy(i)' = HeldBy(i)
  BY <1>1 DEF HeldBy, Items
<1>3. HasCycle(Holds)' <=> HasCycle(Holds)
  BY <1>1 DEF HasCycle
<1>4. ComesUpTwice' <=> ComesUpTwice
  BY DEF ComesUpTwice, MemberNodes, Items, Members, IsStruct, Declared
<1> QED BY <1>1, <1>2, <1>3, <1>4

(* What is ready stays so, if no type of a member becomes a reference.     *)
SlotsGrow == \A n \in MemberNodes : ~NeedsName(slot[n]) => ~NeedsName(slot'[n])

(* A step that brings no reference into a member type.                     *)
LEMMA ReadyStays ==
  ASSUME ProgramOK, program' = program, SlotsGrow
  PROVE  \A j \in Items : Ready(j) => Ready(j)'
<1> SUFFICES ASSUME NEW j \in Items, Ready(j) PROVE Ready(j)'
  OBVIOUS
<1>1. \A m \in HeldBy(j) : m \in Items
  BY HeldByFacts
<1>2. \A m \in HeldBy(j) : \A k \in Members(m) : <<m, k>> \in MemberNodes
  BY <1>1 DEF MemberNodes
<1>3. \A m \in HeldBy(j) : \A k \in Members(m) : ~NeedsName(slot'[<<m, k>>])
  BY <1>2 DEF Ready, SlotsGrow
<1> QED BY <1>3, HeldFrame, Frame DEF Ready, NeedsName

(* Steps that only move on.                                                *)
LEMMA OrderMovesOn ==
  ASSUME OrderInv, UNCHANGED <<program, at, type, slot, depends, checked>>,
         pc' = "prechecking" => pc = "prechecking",
         pc' \in {"sorting", "checking", "accepted"} => at = <<Len(program) + 1, 0>>,
         pc' \in {"checking", "accepted"} => ~HasCycle(depends),
         pc' = "recursive" => HasCycle(Holds) \/ ComesUpTwice
  PROVE  OrderInv'
<1>1. Untouched'
  BY Frame DEF OrderInv, Untouched, Before
<1>2. Known'
  BY Frame DEF OrderInv, Known, Before
<1>3. Ended'
  BY DEF Ended
<1>4. Ordered'
  <2>1. \A n, j : Waits(n, j)' <=> Waits(n, j)
    BY DEF Waits
  <2>2. \A j : Ready(j)' <=> Ready(j)
    BY HeldFrame, Frame DEF Ready
  <2> QED BY <2>1, <2>2, HeldFrame, Frame DEF OrderInv, Ordered, Before
<1>5. Behind'
  BY DEF OrderInv, Behind
<1>6. NoCycleLeft'
  BY DEF NoCycleLeft, HasCycle
<1>7. HeldAreComplete'
  BY HeldFrame, Frame DEF OrderInv, HeldAreComplete
<1>8. RecursiveOrShared'
  BY HeldFrame DEF RecursiveOrShared
<1> QED BY <1>1, <1>2, <1>3, <1>4, <1>5, <1>6, <1>7, <1>8 DEF OrderInv

(* The first pass moves on from a node that has its name.                  *)
LEMMA FirstPassOrder ==
  ASSUME IInv, OrderInv, pc = "prechecking", at \in Nodes,
         UNCHANGED <<program, pc, checked>>, at' = NextNode(at),
         NeedsName(Declared(at)) => IsStruct(Named(Declared(at))),
         \A m \in Nodes : m # at => type'[m] = type[m],
         \A m \in MemberNodes : m # at => slot'[m] = slot[m],
         SlotsGrow, depends \subseteq depends',
         \A j \in Items :
           at \in MemberNodes /\ IsStruct(at[1]) /\ Declared(at) = Ref(j) =>
             \/ <<Decl(j), at>> \in depends' /\ <<at, Decl(at[1])>> \in depends'
             \/ at[1] \notin HeldBy(j) /\ Ready(j)
  PROVE  OrderInv'
<1>0. ProgramOK /\ checked = {}
  BY DEF IInv, Finished
<1>a. \A m \in Nodes : Before(m, at') <=> Before(m, at) \/ m = at
  BY <1>0, BeforeFacts
<1>b. MemberNodes \subseteq Nodes
  BY DEF Nodes
<1>c. \A m, n : Before(m, n)' <=> Before(m', n')
  BY DEF Before
<1>d. \A m : Before(m, at)' <=> Before(m, at')
  BY DEF Before
<1>1. Untouched'
  <2>1. \A n \in Nodes : ~Before(n, at') =>
          type'[n] = Declared(n) /\ (n \in MemberNodes => slot'[n] = Declared(n))
    BY <1>a DEF OrderInv, Untouched
  <2> QED BY <1>d, <2>1, Frame DEF Untouched
<1>2. Known'
  <2>1. \A n \in Nodes : Before(n, at') /\ NeedsName(Declared(n)) =>
                           IsStruct(Named(Declared(n)))
    BY <1>a DEF OrderInv, Known
  <2> QED BY <1>d, <2>1, Frame DEF Known, NeedsName, Named
<1>3. Ended'
  BY DEF Ended
<1>4. Ordered'
  <2> SUFFICES ASSUME NEW n \in MemberNodes, NEW j \in Items, IsStruct(n[1]),
                      Before(n, at'), Declared(n) = Ref(j)
               PROVE  \/ <<Decl(j), n>> \in depends' /\ <<n, Decl(n[1])>> \in depends'
                      \/ n[1] \notin HeldBy(j) /\ Ready(j)'
    BY <1>d, HeldFrame, Frame DEF Ordered, Waits, Decl, Ref
  <2>1. CASE n = at
    BY <1>0, <2>1, ReadyStays
  <2>2. CASE Before(n, at)
    <3>1. Waits(n, j) \/ (n[1] \notin HeldBy(j) /\ Ready(j))
      BY <2>2 DEF OrderInv, Ordered
    <3> QED BY <1>0, <3>1, ReadyStays DEF Waits
  <2> QED BY <1>a, <1>b, <2>1, <2>2
<1>5. Behind'
  BY <1>0 DEF Behind
<1>6. NoCycleLeft'
  BY DEF NoCycleLeft
<1>7. HeldAreComplete'
  BY <1>0 DEF HeldAreComplete
<1>8. RecursiveOrShared'
  BY DEF RecursiveOrShared
<1> QED BY <1>1, <1>2, <1>3, <1>4, <1>5, <1>6, <1>7, <1>8 DEF OrderInv

(* A failed check says what it found.                                      *)
LEMMA FailsOrder ==
  ASSUME IInv, OrderInv, NEW error \in {"unknown", "recursive"}, Fails(error),
         error = "recursive" => HasCycle(Holds) \/ ComesUpTwice
  PROVE  OrderInv'
<1>1. pc' = error /\ UNCHANGED <<program, at, type, slot, depends, checked>>
  BY DEF Fails
<1> QED BY <1>1, OrderMovesOn

(* A member of a struct: what it names is ready, or it waits for it.       *)
LEMMA MemberOrder ==
  ASSUME IInv, OrderInv, PrecheckMember(at)
  PROVE  OrderInv'
<1> DEFINE t == TypeChecked(type[at])
<1>1. /\ pc = "prechecking" /\ at \in MemberNodes /\ IsStruct(at[1]) /\ at \in Nodes
  BY DEF PrecheckMember, Nodes
<1>2. Untouched /\ Known /\ ProgramOK
  BY DEF OrderInv, IInv
<1>3. CASE CheckFails(type[at]) # "no"
  <2>1. Fails(CheckFails(type[at]))
    BY <1>3 DEF PrecheckMember
  <2>2. CheckFails(type[at]) = "recursive" => HasCycle(Holds) \/ ComesUpTwice
    BY <1>1, <1>2, AtNode
  <2> QED BY <1>3, <2>1, <2>2, CheckErrors, FailsOrder
<1>4. CASE CheckFails(type[at]) = "no" /\ Canonical(t) = "recursive"
  <2>1. Fails("recursive")
    BY <1>4 DEF PrecheckMember
  <2>2. HasCycle(Holds) \/ ComesUpTwice
    BY <1>1, <1>2, <1>4, AtNode
  <2> QED BY <2>1, <2>2, FailsOrder
<1>5. CASE CheckFails(type[at]) = "no" /\ Canonical(t) # "recursive"
  <2>1. /\ type' = [type EXCEPT ![at] = t]
        /\ slot' = [slot EXCEPT ![at] = t]
        /\ depends' =
             depends \cup NewDependency(type[at], at) \cup MemberDependency(t, at)
        /\ at' = NextNode(at)
        /\ UNCHANGED <<program, pc, checked>>
    BY <1>5 DEF PrecheckMember
  <2>2. DOMAIN type = Nodes /\ DOMAIN slot = MemberNodes
    BY DEF IInv, TypeOK
  <2>3. /\ \A m \in Nodes : m # at => type'[m] = type[m]
        /\ \A m \in MemberNodes : m # at => slot'[m] = slot[m]
        /\ slot'[at] = t
    BY <1>1, <2>1, <2>2
  <2>4. SlotsGrow
    <3>1. slot[at] = type[at]
      BY <1>1, <1>2, BeforeFacts DEF Untouched
    <3>2. ~NeedsName(slot[at]) => t = slot[at]
      BY <3>1 DEF TypeChecked, NeedsName
    <3> QED BY <2>3, <3>2 DEF SlotsGrow
  <2>5. NeedsName(Declared(at)) => IsStruct(Named(Declared(at)))
    BY <1>1, <1>2, <1>5, AtNode
  <2>6. ASSUME NEW j \in Items, Declared(at) = Ref(j)
        PROVE  \/ <<Decl(j), at>> \in depends' /\ <<at, Decl(at[1])>> \in depends'
               \/ at[1] \notin HeldBy(j) /\ Ready(j)
    BY <1>1, <1>2, <1>5, <2>1, <2>6, MemberWaitsOrIsReady
  <2>7. depends \subseteq depends'
    BY <2>1
  <2> HIDE DEF t
  <2> QED BY <1>1, <2>1, <2>3, <2>4, <2>5, <2>6, <2>7, FirstPassOrder
<1> QED BY <1>3, <1>4, <1>5

(* The result or an argument of a function: no member type changes.        *)
LEMMA FunctionOrder ==
  ASSUME IInv, OrderInv, PrecheckFunction(at)
  PROVE  OrderInv'
<1>1. pc = "prechecking" /\ at \in Nodes /\ ~IsStruct(at[1])
  BY DEF PrecheckFunction
<1>2. Untouched /\ Known /\ ProgramOK
  BY DEF OrderInv, IInv
<1>3. CASE CheckFails(type[at]) # "no"
  <2>1. Fails(CheckFails(type[at]))
    BY <1>3 DEF PrecheckFunction
  <2>2. CheckFails(type[at]) = "recursive" => HasCycle(Holds) \/ ComesUpTwice
    BY <1>1, <1>2, AtNode
  <2> QED BY <1>3, <2>1, <2>2, CheckErrors, FailsOrder
<1>4. CASE CheckFails(type[at]) = "no"
  <2>1. /\ type' = [type EXCEPT ![at] = TypeChecked(type[at])]
        /\ depends' = depends \cup NewDependency(type[at], at)
        /\ at' = NextNode(at)
        /\ UNCHANGED <<program, pc, slot, checked>>
    BY <1>4 DEF PrecheckFunction
  <2>2. DOMAIN type = Nodes
    BY DEF IInv, TypeOK
  <2>3. \A m \in Nodes : m # at => type'[m] = type[m]
    BY <2>1, <2>2
  <2>4. SlotsGrow
    BY <2>1 DEF SlotsGrow
  <2>5. NeedsName(Declared(at)) => IsStruct(Named(Declared(at)))
    BY <1>1, <1>2, <1>4, AtNode
  <2> QED BY <1>1, <2>1, <2>3, <2>4, <2>5, FirstPassOrder
<1> QED BY <1>3, <1>4

(* The declaration of a struct names nothing.                              *)
LEMMA EnterStructOrder ==
  ASSUME IInv, OrderInv, EnterStruct(at)
  PROVE  OrderInv'
<1>1. /\ pc = "prechecking" /\ at \in Nodes /\ at \notin MemberNodes /\ IsStruct(at[1])
      /\ at' = NextNode(at)
      /\ UNCHANGED <<program, pc, type, slot, depends, checked>>
  BY DEF EnterStruct
<1>2. ~NeedsName(Declared(at))
  <2>1. at[2] = 0
    BY <1>1, NodeFacts DEF IInv
  <2> QED BY <1>1, <2>1, Kinds DEF Declared
<1>3. SlotsGrow
  BY <1>1 DEF SlotsGrow
<1> QED BY <1>1, <1>2, <1>3, FirstPassOrder

(* The steps between the passes change no types.                           *)
LEMMA MovingOrder ==
  ASSUME IInv, OrderInv, EndPrecheck \/ Sort \/ Accept
  PROVE  OrderInv'
<1>1. CASE EndPrecheck
  <2>1. at = <<Len(program) + 1, 0>>
    <3>1. \A n \in Nodes : n[1] \in Items
      BY NodeFacts DEF IInv
    <3> QED BY <1>1, <3>1 DEF EndPrecheck, IInv, TypeOK
  <2> QED BY <1>1, <2>1, OrderMovesOn DEF EndPrecheck
<1>2. CASE Sort
  BY <1>2, OrderMovesOn DEF Sort, OrderInv, Ended
<1>3. CASE Accept
  BY <1>3, OrderMovesOn DEF Accept, OrderInv, Ended, NoCycleLeft
<1> QED BY <1>1, <1>2, <1>3

(* A visit completes what its node holds itself; the rest is complete, for *)
(* the node depends on what it holds that was not ready.                   *)
LEMMA VisitOrder ==
  ASSUME IInv, OrderInv, NEW n \in Nodes, Visit(n), pc = "checking", pc' = pc,
         \A e \in depends : e[2] = n => e[1] \in checked
  PROVE  OrderInv'
<1>0. /\ ProgramOK /\ TypeOK /\ Staged
      /\ checked' = checked \cup {n} /\ UNCHANGED <<program, pc, at, depends>>
  BY DEF IInv, Visit
<1>1. \A m \in MemberNodes :
        \/ slot'[m] = slot[m]
        \/ slot'[m] = Resolved(slot[m])
  BY DEF Visit
<1>2. \A m \in MemberNodes : ~NeedsName(Resolved(slot[m]))
  BY DEF Resolved, NeedsName, Struct, Pointer
<1>3. SlotsGrow
  BY <1>1, <1>2 DEF SlotsGrow
<1>4. \A j \in Items : Ready(j) => Ready(j)'
  BY <1>0, <1>3, ReadyStays
<1>5. Untouched' /\ RecursiveOrShared'
  BY <1>0 DEF Untouched, RecursiveOrShared
<1>6. Known' /\ Ended'
  BY <1>0, Frame DEF OrderInv, Known, Ended, Before
<1>7. Ordered'
  <2>1. \A m, j : Waits(m, j)' <=> Waits(m, j)
    BY <1>0 DEF Waits
  <2>2. \A m : Before(m, at)' <=> Before(m, at)
    BY <1>0 DEF Before
  <2> SUFFICES ASSUME NEW m \in MemberNodes, NEW j \in Items, IsStruct(m[1]),
                      Before(m, at), Declared(m) = Ref(j)
               PROVE  Waits(m, j) \/ (m[1] \notin HeldBy(j) /\ Ready(j)')
    BY <1>0, <2>1, <2>2, HeldFrame, Frame DEF Ordered
  <2>3. Waits(m, j) \/ (m[1] \notin HeldBy(j) /\ Ready(j))
    BY DEF OrderInv, Ordered
  <2> QED BY <1>4, <2>3
<1>8. Behind'
  BY <1>0 DEF OrderInv, Behind
<1>9. NoCycleLeft'
  BY <1>0 DEF OrderInv, NoCycleLeft, HasCycle
<1>10. ASSUME NEW i \in Items, Decl(i) \in checked', IsStruct(i)
       PROVE  Ready(i)'
  <2>1. CASE Decl(i) \in checked
    <3>1. Ready(i)
      BY <1>10, <2>1 DEF OrderInv, HeldAreComplete, Ready
    <3> QED BY <1>4, <3>1
  <2>2. CASE n = Decl(i)
    <3>1. slot' = [m \in MemberNodes |->
                     IF m \in NodesOf(n) THEN Resolved(slot[m]) ELSE slot[m]]
      BY <1>10, <2>2 DEF Visit, Decl
    <3>2. \A k \in Members(i) : <<i, k>> \in MemberNodes /\ <<i, k>> \in NodesOf(n)
      BY <2>2 DEF MemberNodes, NodesOf, Nodes, Decl
    <3>3. \A k \in Members(i) : ~NeedsName(slot'[<<i, k>>])
      BY <1>2, <3>1, <3>2
    <3>4. ASSUME NEW m \in HeldBy(i), m # i
          PROVE  \A k \in Members(m) : ~NeedsName(slot'[<<m, k>>])
      <4>1. PICK j \in Items : <<i, j>> \in Holds /\ m \in HeldBy(j)
        BY <1>0, <3>4, HeldSplits
      <4>2. PICK l \in Members(i) : program[i].members[l] = Ref(j)
        BY <4>1 DEF Holds
      <4> DEFINE s == <<i, l>>
      <4>3. s \in MemberNodes /\ s \in Nodes /\ l # 0
        BY <1>0, <3>2, ItemFacts DEF Nodes
      <4>4. Declared(s) = Ref(j)
        BY <4>2, <4>3 DEF Declared
      <4>5. Before(s, at)
        <5>1. at = <<Len(program) + 1, 0>>
          BY DEF OrderInv, Ended
        <5> QED BY <1>0, <4>3, <5>1, BeforeFacts
      <4>6. CASE Waits(s, j)
        <5>1. s \in checked
          BY <2>2, <4>6 DEF Waits
        <5>2. Decl(j) \in checked
          BY <4>6, <5>1 DEF Waits, OrderInv, Behind
        <5>3. IsStruct(j)
          BY <4>3, <4>4, <4>5, Kinds DEF OrderInv, Known
        <5>4. Ready(j)
          BY <5>2, <5>3 DEF OrderInv, HeldAreComplete, Ready
        <5>5. Ready(j)'
          BY <1>4, <5>4
        <5> QED BY <1>0, <4>1, <5>5, HeldFrame, Frame DEF Ready, NeedsName
      <4>7. CASE Ready(j)
        <5>1. Ready(j)'
          BY <1>4, <4>7
        <5> QED BY <1>0, <4>1, <5>1, HeldFrame, Frame DEF Ready, NeedsName
      <4> QED BY <1>10, <4>3, <4>4, <4>5, <4>6, <4>7 DEF OrderInv, Ordered
    <3>5. \A m \in HeldBy(i) : \A k \in Members(m) : ~NeedsName(slot'[<<m, k>>])
      BY <3>3, <3>4
    <3> QED BY <1>0, <3>5, HeldFrame, Frame DEF Ready, NeedsName
  <2> QED BY <1>0, <1>10, <2>1, <2>2
<1>11. HeldAreComplete'
  BY <1>0, <1>10, HeldFrame, Frame DEF HeldAreComplete, Ready, Decl
<1> QED BY <1>5, <1>6, <1>7, <1>8, <1>9, <1>11 DEF OrderInv

(* Nothing has been visited at first.                                      *)
LEMMA OrderInit == Init => OrderInv
<1> SUFFICES ASSUME Init PROVE OrderInv
  OBVIOUS
<1>0. ProgramOK /\ pc = "prechecking" /\ at = <<1, 0>> /\ depends = {} /\ checked = {}
  BY InitInvariant DEF Init, IInv
<1>1. \A n \in Nodes : ~Before(n, at)
  <2>1. \A n \in Nodes : n[1] \in Items /\ n[2] \in Nat
    BY <1>0, NodeFacts
  <2>2. \A i \in Items : i \in Nat /\ i >= 1
    BY <1>0 DEF ProgramOK, Items
  <2>3. at[1] = 1 /\ at[2] = 0
    BY <1>0
  <2>4. ASSUME NEW n \in Nodes PROVE ~(n[1] < 1) /\ ~(n[2] < 0)
    BY <2>1, <2>2
  <2> QED BY <2>3, <2>4 DEF Before
<1>2. Untouched
  BY DEF Init, Untouched
<1>3. Known /\ Ordered
  BY <1>1 DEF Known, Ordered, Nodes
<1>4. Ended /\ Behind /\ NoCycleLeft /\ HeldAreComplete /\ RecursiveOrShared
  BY <1>0 DEF Ended, Behind, NoCycleLeft, HeldAreComplete, RecursiveOrShared
<1> QED BY <1>2, <1>3, <1>4 DEF OrderInv

(* Every step keeps the order.                                             *)
LEMMA OrderNext == IInv /\ OrderInv /\ [Next]_vars => OrderInv'
<1> SUFFICES ASSUME IInv, OrderInv, [Next]_vars PROVE OrderInv'
  OBVIOUS
<1>1. CASE PrecheckMember(at)
  BY <1>1, MemberOrder
<1>2. CASE PrecheckFunction(at)
  BY <1>2, FunctionOrder
<1>3. CASE EnterStruct(at)
  BY <1>3, EnterStructOrder
<1>4. CASE EndPrecheck \/ Sort \/ Accept
  BY <1>4, MovingOrder
<1>5. CASE \E n \in Nodes : CheckSorted(n)
  <2>1. PICK n \in Nodes : CheckSorted(n)
    BY <1>5
  <2> QED BY <2>1, VisitOrder DEF CheckSorted
<1>6. CASE \E i \in Items : CheckRemaining(i)
  <2>1. PICK i \in Items : CheckRemaining(i)
    BY <1>6
  <2>2. Decl(i) \in Nodes
    BY DEF Nodes
  <2>3. \A e \in depends : e[1] \in checked
    BY <2>1 DEF CheckRemaining, GraphNodes
  <2> QED BY <2>1, <2>2, <2>3, VisitOrder DEF CheckRemaining
<1>7. CASE UNCHANGED vars
  BY <1>7, OrderMovesOn DEF vars, OrderInv, Ended, NoCycleLeft, RecursiveOrShared
<1> QED BY <1>1, <1>2, <1>3, <1>4, <1>5, <1>6, <1>7 DEF Next

(* The order of the two passes holds in every state.                       *)
LEMMA OrderHolds == Spec => [](IInv /\ OrderInv)
<1>1. Init => IInv /\ OrderInv
  BY InitInvariant, OrderInit
<1>2. IInv /\ OrderInv /\ [Next]_vars => (IInv /\ OrderInv)'
  BY Inductive, OrderNext
<1> QED BY <1>1, <1>2, PTL DEF Spec

(* A struct that TypeCheck has visited, and all that it holds by value,    *)
(* however deep, has the types of its members resolved, whatever order the *)
(* sort chose among those that respect the dependency graph.               *)
THEOREM HeldCompleteFirst == Spec => []HeldAreComplete
<1>1. IInv /\ OrderInv => HeldAreComplete
  BY DEF OrderInv
<1> QED BY <1>1, OrderHolds, PTL

(* An error has its reason: a cyclic dependency is one of structs that     *)
(* hold each other, an unknown name is no struct, and a recursive type is  *)
(* reported only when a struct holds itself or when one that is held is    *)
(* named by one more member.                                               *)
THEOREM ErrorsAreJustified == Spec => []ErrorsJustified
<1>1. IInv /\ OrderInv => RecursiveOrShared
  BY DEF OrderInv
<1> QED BY <1>1, OrderHolds, CyclicIsJustified, UnknownIsJustified, PTL
       DEF ErrorsJustified

(* In a smallest cycle each struct is below the one it holds.              *)
LEMMA BelowOnCycle ==
  ASSUME NEW U \in SUBSET Items, HavePredecessors(U, Holds),
         \A W \in SUBSET U : HavePredecessors(W, Holds) => W = U,
         NEW i \in U, NEW j \in U
  PROVE  i \in HeldBy(j)
<1> SUFFICES ASSUME i \notin HeldBy(j) PROVE FALSE
  OBVIOUS
<1> DEFINE W == U \ HeldBy(j)
<1>1. \A x \in W : \E p \in W : <<p, x>> \in Holds
  <2> SUFFICES ASSUME NEW x \in W PROVE \E p \in W : <<p, x>> \in Holds
    OBVIOUS
  <2>1. PICK p \in U : <<p, x>> \in Holds
    BY DEF HavePredecessors
  <2>2. p \notin HeldBy(j)
    BY <2>1, HeldByFacts
  <2> QED BY <2>1, <2>2
<1>2. HavePredecessors(W, Holds)
  BY <1>1 DEF HavePredecessors
<1>3. j \notin W
  BY HeldByFacts
<1> QED BY <1>2, <1>3

(* A program with a struct that holds itself, directly or through others,  *)
(* is not accepted: on a cycle each member was checked while one behind it *)
(* was a reference, so that its struct waits for it and it for the struct  *)
(* it names; the graph is cyclic and the sort says so.                     *)
THEOREM CyclesReported == Spec => []CyclesAreReported
<1>1. ASSUME IInv, OrderInv, pc = "accepted", HasCycle(Holds)
      PROVE  FALSE
  <2>0. ProgramOK /\ at = <<Len(program) + 1, 0>>
    BY <1>1 DEF IInv, OrderInv, Ended
  <2>1. PICK T \in SUBSET {e[1] : e \in Holds} : HavePredecessors(T, Holds)
    BY <1>1 DEF HasCycle, HavePredecessors
  <2>2. T \subseteq Items /\ IsFiniteSet(T)
    <3>1. T \subseteq Items
      BY DEF Holds
    <3> QED BY <2>0, <3>1, TypesFinite, FS_Subset
  <2>3. PICK U \in SUBSET T :
          /\ HavePredecessors(U, Holds)
          /\ \A d \in U : \E n \in U : <<d, n>> \in Holds
          /\ \A W \in SUBSET U : HavePredecessors(W, Holds) => W = U
    BY <2>1, <2>2, SmallestCycle
  <2> DEFINE OnCycle(n) == IsStruct(n[1]) /\ \E j \in U : Declared(n) = Ref(j)
             Between == {n \in MemberNodes : n[1] \in U /\ OnCycle(n)}
             N == {Decl(i) : i \in U} \cup Between
  <2>4. ASSUME NEW n \in Between, NEW j \in U, Declared(n) = Ref(j)
        PROVE  Waits(n, j)
    <3>1. n \in Nodes /\ n[1] \in U /\ IsStruct(n[1])
      BY DEF Nodes
    <3>2. Before(n, at)
      BY <2>0, <3>1, BeforeFacts
    <3>3. n[1] \in HeldBy(j)
      BY <2>2, <2>3, <3>1, BelowOnCycle
    <3> QED BY <1>1, <2>2, <2>4, <3>1, <3>2, <3>3 DEF OrderInv, Ordered
  <2>5. ASSUME NEW i \in U
        PROVE  \E d \in N : <<d, Decl(i)>> \in depends
    <3>1. PICK j \in U : <<i, j>> \in Holds
      BY <2>3
    <3>2. PICK k \in Members(i) : IsStruct(i) /\ program[i].members[k] = Ref(j)
      BY <3>1 DEF Holds
    <3> DEFINE n == <<i, k>>
    <3>3. n \in MemberNodes /\ k # 0
      BY <2>0, <2>2, ItemFacts DEF MemberNodes
    <3>4. Declared(n) = Ref(j)
      BY <3>2, <3>3 DEF Declared
    <3>5. n \in Between /\ n[1] = i
      BY <3>2, <3>3, <3>4
    <3>6. <<n, Decl(i)>> \in depends
      BY <2>4, <3>4, <3>5 DEF Waits
    <3> QED BY <3>5, <3>6
  <2>6. ASSUME NEW n \in Between
        PROVE  \E d \in N : <<d, n>> \in depends
    <3>1. PICK j \in U : Declared(n) = Ref(j)
      OBVIOUS
    <3>2. <<Decl(j), n>> \in depends
      BY <2>4, <3>1 DEF Waits
    <3> QED BY <3>2
  <2>7. HavePredecessors(N, depends)
    <3>1. N # {}
      BY <2>3 DEF HavePredecessors
    <3> HIDE DEF Between
    <3> QED BY <2>5, <2>6, <3>1 DEF HavePredecessors
  <2>8. IsFiniteSet(N)
    <3>1. N \subseteq Nodes
      BY <2>2 DEF Nodes
    <3> HIDE DEF N
    <3> QED BY <2>0, <3>1, TypesFinite, FS_Subset
  <2>9. HasCycle(depends)
    <3> HIDE DEF N
    <3> QED BY <2>7, <2>8, PredecessorsMakeCycle
  <2> QED BY <1>1, <2>9 DEF OrderInv, NoCycleLeft
<1>2. IInv /\ OrderInv => CyclesAreReported
  BY <1>1 DEF CyclesAreReported
<1> QED BY <1>2, OrderHolds, PTL
=============================================================================
