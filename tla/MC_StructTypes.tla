--------------------------- MODULE MC_StructTypes ---------------------------
(* The programs the type resolution is checked on. *)
EXTENDS StructTypes

LOCAL NamesOf(items) == UNION {{Ref(i), PointerToRef(i)} : i \in items}
LOCAL Lists(types, most) == UNION {[1..k -> types] : k \in 0..most}
LOCAL StructItem(members) == [kind |-> "struct", result |-> Prim, members |-> members]
LOCAL FunctionItem(result, argument) ==
  [kind |-> "function", result |-> result, members |-> <<argument>>]
LOCAL Structs(items, most) ==
  {StructItem(m) : m \in Lists({Prim} \cup NamesOf(items), most)}

(* Three structs, the first two of up to two members, the last of up to    *)
(* one; two structs with a function between them, where item 4 is          *)
(* undeclared; and a struct that others hold or point to, in a chain.      *)
AllPrograms ==
  LET Two == Structs(1..3, 2)
      One == Structs(1..3, 1)
      Around == Structs({1, 3}, 2)
      Functions == {FunctionItem(r, a) : r \in {Prim, Ref(1), PointerToRef(3)},
                                         a \in NamesOf({1, 3, 4})}
      Chain == {StructItem(<<Prim>>)} \X Structs({1}, 1) \X Structs({2}, 1)
                 \X Structs({1, 3}, 2) \X {StructItem(<<Ref(4)>>)}
  IN  (Two \X Two \X One) \cup (Around \X Functions \X Around) \cup Chain

(* A struct that others hold, once or twice. *)
SharedStruct ==
  LET S == {StructItem(<<Prim>>)}
      T == Structs({1}, 1)
      U == Structs({1, 2}, 2)
      F == {FunctionItem(Prim, a) : a \in NamesOf(1..3)}
  IN  S \X T \X U \X F
=============================================================================
