------------------------- MODULE TypeCasting_proofs -------------------------
(***************************************************************************)
(* What the checker accepts the generator can convert, what it rejects has *)
(* a reason, and numbers survive, for all widths of the integers, limits   *)
(* of the floats and sets of types.                                        *)
(***************************************************************************)
EXTENDS TypeCasting, TLAPS

(* A number has a float next to it. *)
LEMMA FitNotEmpty ==
  ASSUME NEW n, NEW t \in Floating
  PROVE  Fit(n, t) # {}
<1>1. Values(t) = (-Limit[Size(t)])..Limit[Size(t)]
  BY DEF Values, Floating, Unsigned, Signed
<1>2. Limit[Size(t)] \in Nat
  BY LimitAssumption DEF Floating, Size
<1>3. 0 \in Values(t)
  BY <1>1, <1>2
<1> QED BY <1>3 DEF Fit

(* The generator translates every conversion the checker allows.           *)
LEMMA AllowedIsConverted ==
  ASSUME NEW from \in AllTypes, NEW to \in AllTypes, NEW v,
         CanImplicitlyConvert(from, to)
  PROVE  Converted(v, from, to) # {}
<1>1. CASE from = to
  BY <1>1 DEF Converted
<1>2. CASE from # to /\ from \in Integer /\ to \in Integer
  BY <1>2 DEF Converted
<1>3. CASE from # to /\ from \in Num /\ to \in Floating
  <2>1. ~(from \in Integer /\ to \in Integer) /\ to \in Num
    BY <1>3 DEF Num, Integer, Floating, Signed, Unsigned
  <2>2. Converted(v, from, to) = Fit(v, to)
    BY <1>3, <2>1 DEF Converted
  <2> QED BY <1>3, <2>2, FitNotEmpty
<1>4. CASE from = "bool" /\ to \in Num
  BY <1>4 DEF Converted, Num, Integer, Floating, Signed, Unsigned
<1>5. CASE from \in Num \cup {"pointer"} /\ to = "bool"
  BY <1>5 DEF Converted, Num, Integer, Floating, Signed, Unsigned
<1> QED BY <1>1, <1>2, <1>3, <1>4, <1>5 DEF CanImplicitlyConvert, Num

(* Whatever two types are promoted to, both may be converted to it, but    *)
(* for a bool that is promoted to a pointer.                               *)
LEMMA PromotedIsAllowed ==
  ASSUME NEW t1 \in AllTypes, NEW t2 \in AllTypes,
         ImplicitTypePromote(t1, t2) # "none",
         {t1, t2} # {"bool", "pointer"}
  PROVE  /\ ImplicitTypePromote(t1, t2) \in {t1, t2}
         /\ CanImplicitlyConvert(t1, ImplicitTypePromote(t1, t2))
         /\ CanImplicitlyConvert(t2, ImplicitTypePromote(t1, t2))
<1>1. Size(t1) \in Nat /\ Size(t2) \in Nat
  BY DEF Size
<1>2. /\ Num = Integer \cup Floating
      /\ \A t \in Integer : t \notin Floating /\ t # "bool" /\ t # "pointer"
      /\ \A t \in Floating : t # "bool" /\ t # "pointer"
  BY DEF Num, Integer, Floating, Signed, Unsigned
<1>3. CASE t1 = t2
  BY <1>3 DEF ImplicitTypePromote, CanImplicitlyConvert
<1>4. CASE t1 # t2 /\ t1 \in Integer /\ t2 \in Integer
  BY <1>1, <1>4 DEF ImplicitTypePromote, CanImplicitlyConvert
<1>5. CASE t1 # t2 /\ t1 \in Floating /\ t2 \in Floating
  BY <1>1, <1>2, <1>5 DEF ImplicitTypePromote, CanImplicitlyConvert
<1>6. CASE {t1, t2} \cap Integer # {} /\ {t1, t2} \cap Floating # {}
  BY <1>2, <1>6 DEF ImplicitTypePromote, CanImplicitlyConvert
<1>7. CASE t1 # t2 /\ "bool" \in {t1, t2} /\ {t1, t2} \cap Num # {}
  BY <1>2, <1>7 DEF ImplicitTypePromote, CanImplicitlyConvert
<1> QED
  BY <1>2, <1>3, <1>4, <1>5, <1>6, <1>7 DEF ImplicitTypePromote

-----------------------------------------------------------------------------
(* The type of the expression is one of the types, and the expression is   *)
(* refused by the generator only for the reasons allowed.                  *)
IInv == type \in AllTypes /\ GeneratorAccepts

(* An expression that has a value was not refused.                         *)
LEMMA BecomesKeeps ==
  ASSUME NEW t \in AllTypes, NEW v, NEW number, NEW loss,
         Becomes(t, v, number, loss)
  PROVE  IInv'
BY DEF Becomes, IInv, GeneratorAccepts

(* One that ends is refused by the generator for an allowed reason only.   *)
LEMMA StopsKeeps ==
  ASSUME IInv, NEW outcome, NEW from, NEW to, Stops(outcome, from, to),
         \/ outcome # "unconvertible"
         \/ {from, to} = {"bool", "pointer"}
         \/ ~CanImplicitlyConvert(from, to)
  PROVE  IInv'
BY DEF Stops, IInv, GeneratorAccepts

(* What two types are promoted to is one of the two.                       *)
LEMMA PromotedIsOperandType ==
  ASSUME NEW t1 \in AllTypes, NEW t2 \in AllTypes,
         ImplicitTypePromote(t1, t2) # "none"
  PROVE  ImplicitTypePromote(t1, t2) \in AllTypes
BY DEF ImplicitTypePromote

(* A promotion that fails for types other than bool and pointer is one the *)
(* checker rejects.                                                        *)
LEMMA PromotionFailsKeeps ==
  ASSUME IInv, NEW lt \in AllTypes, NEW rt \in AllTypes, NEW lv, NEW rv,
         PromotionFails(lt, lv, rt, rv)
  PROVE  IInv'
<1> DEFINE t == ImplicitTypePromote(lt, rt)
<1>1. CASE t = "none"
  BY <1>1, StopsKeeps DEF PromotionFails
<1>2. CASE t # "none" /\ {lt, rt} = {"bool", "pointer"}
  BY <1>2, StopsKeeps DEF PromotionFails
<1>3. CASE t # "none" /\ {lt, rt} # {"bool", "pointer"}
  <2>1. /\ t \in AllTypes
        /\ CanImplicitlyConvert(lt, t)
        /\ CanImplicitlyConvert(rt, t)
    BY <1>3, PromotedIsAllowed, PromotedIsOperandType
  <2>2. Converted(lv, lt, t) # {} /\ Converted(rv, rt, t) # {}
    BY <2>1, AllowedIsConverted
  <2>3. PICK a \in Converted(lv, lt, t), b \in Converted(rv, rt, t) : TRUE
    BY <2>2
  <2>4. PromotedOperands(lt, lv, rt, rv)
          = IF t # lt THEN Converted(lv, lt, t) \X {rv}
            ELSE {lv} \X Converted(rv, rt, t)
    BY <1>3 DEF PromotedOperands
  <2>5. \/ <<a, rv>> \in PromotedOperands(lt, lv, rt, rv)
        \/ <<lv, b>> \in PromotedOperands(lt, lv, rt, rv)
    <3>1. CASE t # lt
      BY <2>3, <2>4, <3>1
    <3>2. CASE t = lt
      BY <2>3, <2>4, <3>2
    <3> QED BY <3>1, <3>2
  <2> QED BY <2>5 DEF PromotionFails
<1> QED BY <1>1, <1>2, <1>3

(* An operator that promotes its operands, whatever it does with them.     *)
LEMMA OperatorsKeep ==
  ASSUME IInv, NEW lt \in AllTypes, NEW rt \in AllTypes,
         NEW op, NEW lv, NEW rv, NEW m, NEW n,
         \/ ArithmeticOperator(op, lt, lv, m, rt, rv, n)
         \/ BitOperator(lt, lv, rt, rv)
         \/ ComparisonOperator(op, lt, lv, m, rt, rv, n)
  PROVE  IInv'
<1> DEFINE t == ImplicitTypePromote(lt, rt)
<1>1. CASE PromotionFails(lt, lv, rt, rv)
  BY <1>1, PromotionFailsKeeps
<1>2. CASE PromotedOperands(lt, lv, rt, rv) # {}
  <2>1. t \in AllTypes
    BY <1>2, PromotedIsOperandType DEF PromotedOperands
  <2>2. "bool" \in AllTypes /\ "malformed" # "unconvertible"
    BY DEF AllTypes
  <2>3. CASE ArithmeticOperator(op, lt, lv, m, rt, rv, n) /\ ~PromotionFails(lt, lv, rt, rv)
    BY <2>1, <2>2, <2>3, BecomesKeeps, StopsKeeps DEF ArithmeticOperator
  <2>4. CASE BitOperator(lt, lv, rt, rv) /\ ~PromotionFails(lt, lv, rt, rv)
    BY <2>1, <2>2, <2>4, BecomesKeeps, StopsKeeps DEF BitOperator
  <2>5. CASE ComparisonOperator(op, lt, lv, m, rt, rv, n) /\ ~PromotionFails(lt, lv, rt, rv)
    BY <2>1, <2>2, <2>5, BecomesKeeps DEF ComparisonOperator
  <2> QED BY <1>1, <2>3, <2>4, <2>5
<1> QED BY <1>1, <1>2 DEF ArithmeticOperator, BitOperator, ComparisonOperator

(* Every step keeps it.                                                    *)
LEMMA StepKeeps == IInv /\ [Next]_vars => IInv'
<1> SUFFICES ASSUME IInv, [Next]_vars PROVE IInv'
  OBVIOUS
<1>1. /\ type \in AllTypes /\ "bool" \in AllTypes
      /\ \A t \in Type : t \in AllTypes
  BY TypeAssumption DEF IInv, AllTypes
<1>2. ASSUME NEW to \in Type, Convert(to), ~CanImplicitlyConvert(type, to)
      PROVE  IInv'
  BY <1>1, <1>2, BecomesKeeps, StopsKeeps DEF Convert
<1>3. ASSUME NEW to \in Type, Convert(to), CanImplicitlyConvert(type, to)
      PROVE  IInv'
  BY <1>1, <1>3, BecomesKeeps, AllowedIsConverted DEF Convert
<1>4. CASE \E t \in Type : \E v \in Values(t) : Literal(t, v)
  BY <1>1, <1>4 DEF Literal, IInv, GeneratorAccepts
<1>5. CASE \E to \in Type : Cast(to)
  BY <1>2, <1>3, <1>5 DEF Cast
<1>6. CASE \E to \in Type : CreateImplicitConversion(to)
  BY <1>2, <1>3, <1>6, StopsKeeps DEF CreateImplicitConversion
<1>7. CASE LogicalNot
  BY <1>1, <1>7, BecomesKeeps, StopsKeeps DEF LogicalNot
<1>8. CASE \E t \in Type : \E v \in Values(t) : \E op \in LogicalOps :
             LogicalOperator(op, t, v)
  BY <1>1, <1>8, BecomesKeeps, StopsKeeps DEF LogicalOperator
<1>9. CASE \E t \in Type : \E v \in Values(t) : BinaryOperator(t, v)
  BY <1>1, <1>9, OperatorsKeep DEF BinaryOperator
<1>10. CASE \E to \in Type : Return(to)
  BY <1>10, StopsKeeps DEF Return
<1>11. CASE LoopPredicate
  BY <1>11, StopsKeeps DEF LoopPredicate
<1>12. CASE UNCHANGED vars
  BY <1>12 DEF vars, IInv, GeneratorAccepts
<1> QED
  BY <1>4, <1>5, <1>6, <1>7, <1>8, <1>9, <1>10, <1>11, <1>12 DEF Next

(* In every run, the generator refuses only what the program casts itself  *)
(* and a bool promoted to a pointer: a type that passes                    *)
(* create_implicit_conversion or auto_promote_bop_operand_types has an     *)
(* instruction in convert_llvm_type_to.                                    *)
THEOREM CheckedIsConvertible == Spec => []GeneratorAccepts
<1>1. Init => IInv
  BY DEF Init, IInv, GeneratorAccepts, AllTypes
<1>2. IInv => GeneratorAccepts
  BY DEF IInv
<1> QED BY <1>1, <1>2, StepKeeps, PTL DEF Spec

-----------------------------------------------------------------------------
(* The numbers of the types.                                               *)

(* The top bit of an integer counts two or more, that of a bool one.       *)
LEMMA TopFacts ==
  /\ \A t \in Integer : Top(t) \in Nat /\ Top(t) >= 2
  /\ Top("bool") = 1
<1>1. ASSUME NEW t \in Integer
      PROVE  Top(t) \in Nat /\ Top(t) >= 2
  <2>1. t # "bool" /\ Size(t) \in Sizes
    BY DEF Integer, Signed, Unsigned, Size, Sizes
  <2>2. TopBit[Size(t)] \in Nat \ {0, 1}
    BY <2>1, TopBitAssumption
  <2> QED BY <2>1, <2>2 DEF Top
<1> QED BY <1>1 DEF Top

(* The floats of a size reach at least from -1 to 1.                       *)
LEMMA LimitFacts ==
  \A t \in Floating : Limit[Size(t)] \in Nat /\ Limit[Size(t)] >= 1
<1>1. \A t \in Floating : Size(t) \in {32, 64}
  BY DEF Floating, Size
<1> QED BY <1>1, LimitAssumption

(* A type is of one kind only.                                             *)
LEMMA Kinds ==
  /\ \A t \in Unsigned : t \notin Signed /\ t \notin Floating
  /\ \A t \in Signed : t \notin Floating
  /\ \A t \in Unsigned \cup Signed \cup Floating : t \notin {"bool", "pointer", "str"}
  /\ Integer = Signed \cup Unsigned /\ Num = Integer \cup Floating
  /\ AllTypes = Num \cup {"bool", "pointer", "str"}
BY DEF AllTypes, Num, Integer, Signed, Unsigned, Floating

(* The values of each kind.                                                *)
LEMMA ValuesOf ==
  /\ \A t \in Unsigned : Values(t) = 0..(2 * Top(t) - 1)
  /\ \A t \in Signed : Values(t) = (-Top(t))..(Top(t) - 1)
  /\ \A t \in Floating : Values(t) = (-Limit[Size(t)])..Limit[Size(t)]
  /\ Values("bool") = 0..1 /\ Values("pointer") = 0..1 /\ Values("str") = 0..1
<1>1. \A t \in Unsigned : Values(t) = 0..(2 * Top(t) - 1)
  BY Kinds DEF Values
<1>2. \A t \in Signed : Values(t) = (-Top(t))..(Top(t) - 1)
  BY Kinds DEF Values
<1>3. \A t \in Floating : Values(t) = (-Limit[Size(t)])..Limit[Size(t)]
  BY Kinds DEF Values
<1>4. Values("bool") = 0..1
  <2>1. Values("bool") = 0..(2 * Top("bool") - 1)
    BY Kinds DEF Values
  <2> QED BY <2>1, TopFacts
<1>5. Values("pointer") = 0..1 /\ Values("str") = 0..1
  BY Kinds DEF Values
<1> QED BY <1>1, <1>2, <1>3, <1>4, <1>5

(* Every type has the numbers 0 and 1, and whole numbers only.             *)
LEMMA ValuesFacts ==
  \A t \in AllTypes : Values(t) \subseteq Int /\ 0 \in Values(t) /\ 1 \in Values(t)
<1>1. ASSUME NEW t \in Unsigned
      PROVE  Values(t) \subseteq Int /\ 0 \in Values(t) /\ 1 \in Values(t)
  BY TopFacts, ValuesOf DEF Integer
<1>2. ASSUME NEW t \in Signed
      PROVE  Values(t) \subseteq Int /\ 0 \in Values(t) /\ 1 \in Values(t)
  BY TopFacts, ValuesOf DEF Integer
<1>3. ASSUME NEW t \in Floating
      PROVE  Values(t) \subseteq Int /\ 0 \in Values(t) /\ 1 \in Values(t)
  BY LimitFacts, ValuesOf
<1>4. ASSUME NEW t \in {"bool", "pointer", "str"}
      PROVE  Values(t) \subseteq Int /\ 0 \in Values(t) /\ 1 \in Values(t)
  BY ValuesOf
<1> QED BY <1>1, <1>2, <1>3, <1>4, Kinds

(* The remainder by 2 * b, from 0 up or from -b up: it is in the range,    *)
(* and what is in the range is its own.                                    *)
LEMMA Remainders ==
  ASSUME NEW b \in Nat, b # 0, NEW n \in Int
  PROVE  /\ AsUnsigned(n, b) \in 0..(2 * b - 1)
         /\ AsSigned(n, b) \in (-b)..(b - 1)
         /\ n \in 0..(2 * b - 1) => AsUnsigned(n, b) = n
         /\ n \in (-b)..(b - 1) => AsSigned(n, b) = n
<1>1. \A m \in Nat, k \in Int : m # 0 => k % m \in 0..(m - 1)
  OBVIOUS
<1>2. \A m \in Nat, k \in Nat : m # 0 /\ k < m => k % m = k
  OBVIOUS
<1>3. AsUnsigned(n, b) \in 0..(2 * b - 1)
  BY <1>1 DEF AsUnsigned
<1>4. (n + b) % (2 * b) \in 0..(2 * b - 1)
  BY <1>1
<1>5. AsSigned(n, b) \in (-b)..(b - 1)
  BY <1>4 DEF AsSigned
<1>6. n \in 0..(2 * b - 1) => AsUnsigned(n, b) = n
  BY <1>2 DEF AsUnsigned
<1>7. ASSUME n \in (-b)..(b - 1)
      PROVE  AsSigned(n, b) = n
  <2>1. n + b \in Nat /\ n + b < 2 * b
    BY <1>7
  <2>2. (n + b) % (2 * b) = n + b
    BY <1>2, <2>1
  <2> QED BY <2>2 DEF AsSigned
<1> QED BY <1>3, <1>5, <1>6, <1>7

(* Bits read as a value of a type give one of its values, and a value of   *)
(* the type itself.                                                        *)
LEMMA ReadFacts ==
  ASSUME NEW t \in Integer \cup {"bool"}, NEW n \in Int
  PROVE  /\ Read(n, t) \in Values(t)
         /\ n \in Values(t) => Read(n, t) = n
<1>1. Top(t) \in Nat /\ Top(t) # 0
  BY TopFacts
<1>2. PICK b \in Nat : b = Top(t) /\ b # 0
  BY <1>1
<1>3. CASE t \in Unsigned \cup {"bool"}
  <2>1. Read(n, t) = AsUnsigned(n, b)
    BY <1>2, <1>3, Kinds DEF Read
  <2>2. Values(t) = 0..(2 * b - 1)
    BY <1>2, <1>3, Kinds DEF Values
  <2>3. /\ AsUnsigned(n, b) \in 0..(2 * b - 1)
        /\ n \in 0..(2 * b - 1) => AsUnsigned(n, b) = n
    BY <1>2, Remainders
  <2> QED BY <2>1, <2>2, <2>3
<1>4. CASE t \in Signed
  <2>1. Read(n, t) = AsSigned(n, b)
    BY <1>2, <1>4, Kinds DEF Read
  <2>2. Values(t) = (-b)..(b - 1)
    BY <1>2, <1>4, ValuesOf
  <2>3. /\ AsSigned(n, b) \in (-b)..(b - 1)
        /\ n \in (-b)..(b - 1) => AsSigned(n, b) = n
    BY <1>2, Remainders
  <2> QED BY <2>1, <2>2, <2>3
<1> QED BY <1>3, <1>4 DEF Integer

(* A number is rounded to one of the values, and one of the values to      *)
(* itself.                                                                 *)
LEMMA FitFacts ==
  ASSUME NEW n, NEW t
  PROVE  Fit(n, t) \subseteq Values(t) /\ (n \in Values(t) => Fit(n, t) = {n})
BY DEF Fit

-----------------------------------------------------------------------------
(* What conversions do to numbers.                                         *)

(* What is converted has a value of the type it is converted to.           *)
LEMMA ConvertedTo ==
  ASSUME NEW from \in AllTypes, NEW to \in AllTypes, NEW v \in Values(from)
  PROVE  Converted(v, from, to) \subseteq Values(to)
<1>1. v \in Int
  BY ValuesFacts
<1>2. CASE from = to
  BY <1>2 DEF Converted
<1>3. CASE from # to /\ from \in Integer /\ to \in Integer
  <2>1. Top(from) \in Nat /\ Top(from) # 0
    BY <1>3, TopFacts
  <2>2. AsUnsigned(v, Top(from)) \in Int /\ AsSigned(v, Top(from)) \in Int
    BY <1>1, <2>1, Remainders
  <2>3. ASSUME NEW n \in Int PROVE Read(n, to) \in Values(to)
    BY <1>3, ReadFacts
  <2> QED BY <1>3, <2>2, <2>3 DEF Converted
<1>4. CASE from # to /\ ~(from \in Integer /\ to \in Integer) /\ from \in Num /\ to \in Num
  BY <1>4, FitFacts DEF Converted
<1>5. CASE from = "bool" /\ to \in Num
  <2>1. v \in {0, 1}
    BY <1>5, ValuesOf
  <2>2. Converted(v, from, to) = {v}
    BY <1>5, Kinds DEF Converted
  <2> QED BY <2>1, <2>2, ValuesFacts
<1>6. CASE from # to /\ to = "bool"
  BY <1>6, Kinds, ValuesOf DEF Converted
<1>7. CASE from # to /\ to # "bool" /\ ~(from \in Num /\ to \in Num) /\ from # "bool"
  <2>1. Converted(v, from, to) \subseteq IF from = "str" /\ to = "pointer" THEN {v} ELSE {}
    BY <1>7, Kinds DEF Converted
  <2> QED BY <2>1, ValuesOf
<1>8. CASE from = "bool" /\ to \notin Num /\ to # "bool"
  BY <1>8, Kinds DEF Converted
<1> QED BY <1>2, <1>3, <1>4, <1>5, <1>6, <1>7, <1>8, Kinds

(* Types one of which has all numbers of the other.                        *)
LEMMA ContainsFacts ==
  /\ \A to \in Unsigned \cup {"bool"}, from \in Signed : ~Contains(to, from)
  /\ \A to \in Integer \cup {"bool"}, from \in Floating : ~Contains(to, from)
  /\ \A to, from : Contains(to, from) => to \in Numeric /\ from \in Numeric
                                         /\ Values(from) \subseteq Values(to)
<1>1. ASSUME NEW to \in Unsigned \cup {"bool"}, NEW from \in Signed, Contains(to, from)
      PROVE  FALSE
  <2>1. PICK b \in Nat : b = Top(from) /\ b >= 2
    BY TopFacts DEF Integer
  <2>2. -b \in Values(from)
    BY <2>1, ValuesOf
  <2>3. PICK c \in Nat : c = Top(to)
    BY TopFacts DEF Integer
  <2>4. Values(to) = 0..(2 * c - 1)
    BY <2>3, TopFacts, Kinds DEF Values
  <2>5. -b \notin 0..(2 * c - 1)
    BY <2>1
  <2> QED BY <1>1, <2>2, <2>4, <2>5 DEF Contains
<1>2. \A to \in Integer \cup {"bool"}, from \in Floating : ~Contains(to, from)
  BY Kinds DEF Contains
<1> QED BY <1>1, <1>2 DEF Contains

(* A conversion that loses nothing keeps the number.                       *)
LEMMA ConvertedKeeps ==
  ASSUME NEW from \in AllTypes, NEW to \in AllTypes, NEW v \in Values(from),
         Loss(from, to) = "all", NEW w \in Converted(v, from, to)
  PROVE  w = v
<1>1. CASE from = to
  BY <1>1 DEF Converted
<1>2. CASE from # to
  <2>1. Contains(to, from) /\ ~(from \in Unsigned /\ to \in Signed)
    BY <1>2 DEF Loss
  <2>2. from \in Numeric /\ to \in Numeric /\ v \in Values(to) /\ v \in Int
    BY <2>1, ContainsFacts, ValuesFacts
  <2>3. CASE from \in Integer /\ to \in Integer
    <3>1. PICK b \in Nat : b = Top(from) /\ b # 0
      BY <2>3, TopFacts
    <3>2. CASE from \in Unsigned /\ to \in Unsigned
      <4>1. v \in 0..(2 * b - 1)
        BY <3>1, <3>2, ValuesOf
      <4>2. AsUnsigned(v, b) = v
        BY <3>1, <4>1, <2>2, Remainders
      <4>3. Converted(v, from, to) = {Read(v, to)}
        BY <1>2, <2>3, <3>1, <3>2, <4>2 DEF Converted
      <4> QED BY <2>2, <2>3, <4>3, ReadFacts
    <3>3. CASE from \in Signed /\ to \in Signed
      <4>1. v \in (-b)..(b - 1)
        BY <3>1, <3>3, ValuesOf
      <4>2. AsSigned(v, b) = v
        BY <3>1, <4>1, <2>2, Remainders
      <4>3. Converted(v, from, to) = {Read(v, to)}
        BY <1>2, <2>3, <3>1, <3>3, <4>2, Kinds DEF Converted
      <4> QED BY <2>2, <2>3, <4>3, ReadFacts
    <3> QED BY <2>1, <2>3, <3>2, <3>3, ContainsFacts DEF Integer
  <2>4. CASE ~(from \in Integer /\ to \in Integer) /\ from \in Num /\ to \in Num
    BY <1>2, <2>2, <2>4, FitFacts DEF Converted
  <2>5. CASE from = "bool"
    BY <1>2, <2>2, <2>5, Kinds DEF Converted, Numeric
  <2>6. CASE to = "bool"
    <3>1. from \in Num
      BY <1>2, <2>2, <2>6 DEF Numeric
    <3>2. v \in {0, 1}
      BY <2>2, <2>6, ValuesOf
    <3>3. Converted(v, from, to) = {IF v = 0 THEN 0 ELSE 1}
      BY <1>2, <2>6, <3>1, Kinds DEF Converted
    <3> QED BY <3>2, <3>3
  <2> QED BY <2>2, <2>3, <2>4, <2>5, <2>6 DEF Numeric
<1> QED BY <1>1, <1>2

(* As a bool a value is whether it is not zero.                            *)
LEMMA ConvertedToBool ==
  ASSUME NEW from \in AllTypes, NEW v \in Values(from),
         NEW w \in Converted(v, from, "bool")
  PROVE  w = Bool(v # 0)
<1>1. CASE from = "bool"
  BY <1>1, ValuesOf DEF Converted, Bool
<1>2. CASE from # "bool"
  BY <1>2, Kinds DEF Converted, Bool
<1> QED BY <1>1, <1>2
-----------------------------------------------------------------------------
(* What operators compute.                                                 *)

(* Two operands are promoted to the type of one of them, and have values   *)
(* of it: their own, if the promotion loses nothing.                       *)
LEMMA OperandsFacts ==
  ASSUME NEW lt \in AllTypes, NEW rt \in AllTypes,
         NEW lv \in Values(lt), NEW rv \in Values(rt),
         NEW ab \in PromotedOperands(lt, lv, rt, rv),
         NEW t, t = ImplicitTypePromote(lt, rt)
  PROVE  /\ t \in {lt, rt}
         /\ ab[1] \in Values(t) /\ ab[2] \in Values(t)
         /\ Loss(lt, t) = "all" => ab[1] = lv
         /\ Loss(rt, t) = "all" => ab[2] = rv
<1>1. t # "none" /\ t \in {lt, rt}
  BY DEF PromotedOperands, ImplicitTypePromote
<1>2. CASE t # lt
  <2>1. t = rt /\ ab \in Converted(lv, lt, t) \X {rv}
    BY <1>1, <1>2 DEF PromotedOperands
  <2>2. ab[1] \in Converted(lv, lt, t) /\ ab[2] = rv
    BY <2>1
  <2>3. ab[1] \in Values(t)
    BY <2>1, <2>2, ConvertedTo
  <2>4. Loss(lt, t) = "all" => ab[1] = lv
    BY <2>1, <2>2, ConvertedKeeps
  <2> QED BY <1>1, <2>1, <2>2, <2>3, <2>4
<1>3. CASE t = lt
  <2>1. ab \in {lv} \X Converted(rv, rt, t)
    BY <1>1, <1>3 DEF PromotedOperands
  <2>2. ab[1] = lv /\ ab[2] \in Converted(rv, rt, t)
    BY <2>1
  <2>3. ab[2] \in Values(t)
    BY <1>3, <2>2, ConvertedTo
  <2>4. Loss(rt, t) = "all" => ab[2] = rv
    BY <1>3, <2>2, ConvertedKeeps
  <2> QED BY <1>1, <1>3, <2>2, <2>3, <2>4
<1> QED BY <1>2, <1>3

(* An operator computes a whole number, unless it divides by zero.         *)
LEMMA ArithmeticFacts ==
  ASSUME NEW op \in ArithmeticOps, NEW a \in Int, NEW b \in Int,
         op \in {"DIVIDE", "MOD"} => b # 0
  PROVE  Arithmetic(op, a, b) \in Int
<1>1. CASE op \in {"SUM", "SUBTRACT", "MULTIPLY"}
  BY <1>1 DEF Arithmetic
<1>2. CASE op \in {"DIVIDE", "MOD"}
  <2>1. \A m \in Nat, n \in Nat : n # 0 => m \div n \in Int
    OBVIOUS
  <2>2. Abs(a) \in Nat /\ Abs(b) \in Nat /\ Abs(b) # 0
    BY <1>2 DEF Abs
  <2>3. Abs(a) \div Abs(b) \in Int
    BY <2>1, <2>2
  <2>4. PICK q \in Int : q = Quotient(a, b)
    BY <2>3 DEF Quotient
  <2>5. b * q \in Int
    BY <2>4
  <2>6. CASE op = "DIVIDE"
    BY <2>4, <2>6 DEF Arithmetic
  <2>7. CASE op = "MOD"
    BY <2>4, <2>5, <2>7 DEF Arithmetic
  <2> QED BY <1>2, <2>6, <2>7
<1> QED BY <1>1, <1>2 DEF ArithmeticOps

(* The result is a value of the type; it is the number of the operator     *)
(* wherever that is one and the operator is defined.                       *)
LEMMA ArithmeticValuesFacts ==
  ASSUME NEW op \in ArithmeticOps, NEW t \in Numeric,
         NEW a \in Values(t), NEW b \in Values(t),
         NEW r \in ArithmeticValues(op, a, b, t)
  PROVE  /\ r \in Values(t)
         /\ (t # "bool" /\ ~Undefined(op, a, b, t)
                        /\ Arithmetic(op, a, b) \in Values(t))
              => r = Arithmetic(op, a, b)
<1>1. t \in AllTypes /\ a \in Int /\ b \in Int
  BY Kinds, ValuesFacts DEF Numeric
<1>2. PICK x : x = Operand(a, t)
  OBVIOUS
<1>3. PICK y : y = Operand(b, t)
  OBVIOUS
<1>4. x \in Int /\ y \in Int /\ (t # "bool" => x = a /\ y = b)
  BY <1>1, <1>2, <1>3, Remainders DEF Operand
<1>5. CASE Undefined(op, x, y, t)
  <2>1. r \in Values(t)
    BY <1>2, <1>3, <1>5 DEF ArithmeticValues
  <2> QED BY <1>4, <1>5, <2>1
<1>6. CASE ~Undefined(op, x, y, t)
  <2>1. PICK n : n = Arithmetic(op, x, y)
    OBVIOUS
  <2>2. n \in Int
    BY <1>4, <1>6, <2>1, ArithmeticFacts DEF Undefined
  <2>3. r \in IF t \in Floating THEN Fit(n, t) ELSE {Read(n, t)}
    BY <1>2, <1>3, <1>6, <2>1 DEF ArithmeticValues
  <2>4. r \in Values(t) /\ (n \in Values(t) => r = n)
    <3>1. CASE t \in Floating
      BY <2>3, <3>1, FitFacts
    <3>2. CASE t \notin Floating
      <4>1. t \in Integer \cup {"bool"}
        BY <3>2, Kinds DEF Numeric
      <4> QED BY <2>2, <2>3, <3>2, <4>1, ReadFacts
    <3> QED BY <3>1, <3>2
  <2>5. t # "bool" => n = Arithmetic(op, a, b)
    BY <1>4, <2>1
  <2> QED BY <2>4, <2>5
<1> QED BY <1>5, <1>6

-----------------------------------------------------------------------------
(* The variables keep their types, and the number is the value unless      *)
(* something was lost.                                                     *)
Sound == TypeOK /\ KeepsNumbers

Ours == Type \cup {"bool"}

(* The types of an instance are types.                                     *)
LEMMA OursAreTypes == Ours \subseteq AllTypes /\ "bool" \in Ours
BY TypeAssumption DEF Ours, AllTypes

(* A new value is sound if its number was computed where nothing was lost. *)
LEMMA BecomesSound ==
  ASSUME Sound, NEW t \in Ours, NEW v \in Values(t), NEW number,
         NEW loss \in {"all", "lost"},
         kept = "all" /\ loss = "all" /\ number \in Values(t) => v = number,
         Becomes(t, v, number, loss)
  PROVE  Sound'
<1>1. /\ pc' = "value" /\ type' = t /\ value' = v /\ pair' = pair
      /\ kept' = (IF number \in Values(t) THEN After(loss) ELSE "lost")
      /\ exact' = IF kept' = "lost" THEN v ELSE number
  BY DEF Becomes
<1>2. /\ kept \in {"all", "lost"}
      /\ After(loss) \in {"all", "lost"}
      /\ After(loss) = "all" => kept = "all" /\ loss = "all"
  BY DEF Sound, TypeOK, After
<1>3. kept' \in {"all", "lost"} /\ exact' \in Values(t) /\ (kept' = "all" => v = exact')
  BY <1>1, <1>2
<1>4. Values(type)' = Values(t)
  BY <1>1 DEF Values, Top, Size
<1>5. /\ pc' \in {"start", "value", "rejected", "unpromotable", "unconvertible",
                  "malformed", "returned", "looping"}
      /\ type' \in Type \cup {"bool"}
      /\ value' \in Values(type')
      /\ kept' \in {"all", "lost"}
      /\ exact' \in Values(type')
      /\ pair' \in (Type \cup {"bool"}) \X (Type \cup {"bool"})
  BY <1>1, <1>3 DEF Sound, TypeOK, Ours
<1>6. kept' = "all" => value' = exact'
  BY <1>1, <1>3
<1> QED BY <1>5, <1>6 DEF Sound, TypeOK, KeepsNumbers

(* An expression that is refused stays what it was.                        *)
LEMMA StopsSound ==
  ASSUME Sound, NEW from \in Ours, NEW to \in Ours,
         NEW outcome \in {"rejected", "unpromotable", "unconvertible", "malformed",
                          "returned", "looping"},
         Stops(outcome, from, to)
  PROVE  Sound'
<1>1. /\ pc' \in {"start", "value", "rejected", "unpromotable", "unconvertible",
                  "malformed", "returned", "looping"}
      /\ type' \in Type \cup {"bool"}
      /\ value' \in Values(type')
      /\ kept' \in {"all", "lost"}
      /\ exact' \in Values(type')
      /\ pair' \in (Type \cup {"bool"}) \X (Type \cup {"bool"})
  BY DEF Stops, Sound, TypeOK, Ours
<1>2. kept' = "all" => value' = exact'
  BY DEF Stops, Sound, KeepsNumbers
<1> QED BY <1>1, <1>2 DEF Sound, TypeOK, KeepsNumbers

(* The two possible losses.                                                *)
LEMMA LossFacts ==
  /\ \A from, to : Loss(from, to) \in {"all", "lost"}
  /\ \A l, r \in {"all", "lost"} : /\ Worst(l, r) \in {"all", "lost"}
                                   /\ Worst(l, r) = "all" => l = "all" /\ r = "all"
BY DEF Loss, Worst
(* A promotion that fails changes nothing but the outcome.                 *)
LEMMA PromotionFailsSound ==
  ASSUME Sound, NEW lt \in Ours, NEW rt \in Ours, NEW lv, NEW rv,
         PromotionFails(lt, lv, rt, rv)
  PROVE  Sound'
BY StopsSound DEF PromotionFails

(* An arithmetic operator on values that are the numbers m and n, unless   *)
(* something was lost.                                                     *)
LEMMA ArithmeticSound ==
  ASSUME Sound, NEW op \in ArithmeticOps, NEW lt \in Ours, NEW rt \in Ours,
         NEW lv \in Values(lt), NEW rv \in Values(rt), NEW m, NEW n,
         kept = "all" => lv = m /\ rv = n,
         ArithmeticOperator(op, lt, lv, m, rt, rv, n)
  PROVE  Sound'
<1>1. CASE PromotionFails(lt, lv, rt, rv)
  BY <1>1, PromotionFailsSound
<1>2. CASE ~PromotionFails(lt, lv, rt, rv)
  <2>1. PICK t : t = ImplicitTypePromote(lt, rt)
    OBVIOUS
  <2>2. PICK ab \in PromotedOperands(lt, lv, rt, rv) :
          IF t \notin Numeric THEN Stops("malformed", lt, rt)
          ELSE \E r \in ArithmeticValues(op, ab[1], ab[2], t) :
                 IF t = "bool" \/ Undefined(op, m, n, t) THEN Becomes(t, r, r, "lost")
                 ELSE Becomes(t, r, Arithmetic(op, m, n),
                              Worst(Loss(lt, t), Loss(rt, t)))
    BY <1>2, <2>1 DEF ArithmeticOperator
  <2>3. CASE t \notin Numeric
    BY <2>2, <2>3, StopsSound
  <2>4. CASE t \in Numeric
    <3>1. PICK r \in ArithmeticValues(op, ab[1], ab[2], t) :
            IF t = "bool" \/ Undefined(op, m, n, t) THEN Becomes(t, r, r, "lost")
            ELSE Becomes(t, r, Arithmetic(op, m, n), Worst(Loss(lt, t), Loss(rt, t)))
      BY <2>2, <2>4
    <3>2. /\ t \in Ours
          /\ ab[1] \in Values(t) /\ ab[2] \in Values(t)
          /\ Loss(lt, t) = "all" => ab[1] = lv
          /\ Loss(rt, t) = "all" => ab[2] = rv
      BY <2>1, OperandsFacts, OursAreTypes
    <3>3. /\ r \in Values(t)
          /\ (t # "bool" /\ ~Undefined(op, ab[1], ab[2], t)
                         /\ Arithmetic(op, ab[1], ab[2]) \in Values(t))
               => r = Arithmetic(op, ab[1], ab[2])
      BY <2>4, <3>2, ArithmeticValuesFacts
    <3>4. CASE t = "bool" \/ Undefined(op, m, n, t)
      BY <3>1, <3>2, <3>3, <3>4, BecomesSound
    <3>5. CASE ~(t = "bool" \/ Undefined(op, m, n, t))
      <4>1. PICK loss \in {"all", "lost"} : loss = Worst(Loss(lt, t), Loss(rt, t))
        BY LossFacts
      <4>2. PICK number : number = Arithmetic(op, m, n)
        OBVIOUS
      <4>3. ASSUME kept = "all", loss = "all", number \in Values(t)
            PROVE  r = number
        <5>1. Loss(lt, t) = "all" /\ Loss(rt, t) = "all"
          <6>1. Loss(lt, t) \in {"all", "lost"} /\ Loss(rt, t) \in {"all", "lost"}
            BY LossFacts
          <6>2. Worst(Loss(lt, t), Loss(rt, t)) = "all"
            BY <4>1, <4>3
          <6> QED BY <6>1, <6>2, LossFacts
        <5>2. ab[1] = lv /\ ab[2] = rv /\ lv = m /\ rv = n
          BY <3>2, <4>3, <5>1
        <5>3. ab[1] = m /\ ab[2] = n
          BY <5>2
        <5> QED BY <3>3, <3>5, <4>2, <4>3, <5>3
      <4>4. Becomes(t, r, number, loss)
        BY <3>1, <3>5, <4>1, <4>2
      <4> QED BY <3>2, <3>3, <4>3, <4>4, BecomesSound
    <3> QED BY <3>4, <3>5
  <2> QED BY <2>3, <2>4
<1> QED BY <1>1, <1>2

(* So is a comparison, whose signedness is that of the promoted type.      *)
LEMMA ComparisonSound ==
  ASSUME Sound, NEW op, NEW lt \in Ours, NEW rt \in Ours,
         NEW lv \in Values(lt), NEW rv \in Values(rt), NEW m, NEW n,
         kept = "all" => lv = m /\ rv = n,
         ComparisonOperator(op, lt, lv, m, rt, rv, n)
  PROVE  Sound'
<1>1. CASE PromotionFails(lt, lv, rt, rv)
  BY <1>1, PromotionFailsSound
<1>2. CASE ~PromotionFails(lt, lv, rt, rv)
  <2>1. PICK t : t = ImplicitTypePromote(lt, rt)
    OBVIOUS
  <2>2. PICK ab \in PromotedOperands(lt, lv, rt, rv) :
          Becomes("bool", Bool(Compares(op, Operand(ab[1], t), Operand(ab[2], t))),
                  Bool(Compares(op, m, n)),
                  IF t = "bool" THEN "lost" ELSE Worst(Loss(lt, t), Loss(rt, t)))
    BY <1>2, <2>1 DEF ComparisonOperator
  <2>3. /\ Loss(lt, t) = "all" => ab[1] = lv
        /\ Loss(rt, t) = "all" => ab[2] = rv
    BY <2>1, OperandsFacts, OursAreTypes
  <2>4. PICK loss \in {"all", "lost"} :
          loss = IF t = "bool" THEN "lost" ELSE Worst(Loss(lt, t), Loss(rt, t))
    BY LossFacts
  <2>5. PICK v : v = Bool(Compares(op, Operand(ab[1], t), Operand(ab[2], t)))
    OBVIOUS
  <2>6. PICK number : number = Bool(Compares(op, m, n))
    OBVIOUS
  <2>7. ASSUME kept = "all", loss = "all"
        PROVE  v = number
    <3>1. t # "bool" /\ ab[1] = m /\ ab[2] = n
      BY <2>3, <2>4, <2>7, LossFacts
    <3>2. Operand(ab[1], t) = m /\ Operand(ab[2], t) = n
      BY <3>1 DEF Operand
    <3> QED BY <2>5, <2>6, <3>2
  <2>8. v \in Values("bool")
    BY <2>5, ValuesOf DEF Bool
  <2>9. Becomes("bool", v, number, loss)
    BY <2>2, <2>4, <2>5, <2>6
  <2> QED BY <2>7, <2>8, <2>9, BecomesSound, OursAreTypes
<1> QED BY <1>1, <1>2

(* And what works on bits, of which nothing is claimed.                    *)
LEMMA BitSound ==
  ASSUME Sound, NEW lt \in Ours, NEW rt \in Ours,
         NEW lv \in Values(lt), NEW rv \in Values(rt),
         BitOperator(lt, lv, rt, rv)
  PROVE  Sound'
<1>1. CASE PromotionFails(lt, lv, rt, rv)
  BY <1>1, PromotionFailsSound
<1>2. CASE ~PromotionFails(lt, lv, rt, rv)
  <2>1. PICK t : t = ImplicitTypePromote(lt, rt)
    OBVIOUS
  <2>2. PICK ab : ab \in PromotedOperands(lt, lv, rt, rv)
    BY <1>2 DEF BitOperator
  <2>3. t \in Ours
    BY <2>1, <2>2, OperandsFacts, OursAreTypes
  <2>4. IF t \notin Integer \cup {"bool"} THEN Stops("malformed", lt, rt)
        ELSE \E r \in Values(t) : Becomes(t, r, r, "lost")
    BY <1>2, <2>1 DEF BitOperator
  <2> QED BY <2>3, <2>4, StopsSound, BecomesSound
<1> QED BY <1>1, <1>2

(* All operators, with the expression on the left or on the right.         *)
LEMMA BinarySound ==
  ASSUME Sound, NEW t \in Ours, NEW v \in Values(t), BinaryOperator(t, v)
  PROVE  Sound'
<1>1. /\ type \in Ours /\ value \in Values(type)
      /\ kept = "all" => value = exact
  BY DEF Sound, TypeOK, KeepsNumbers, Ours
<1>2. ASSUME NEW op \in ArithmeticOps,
             \/ ArithmeticOperator(op, type, value, exact, t, v, v)
             \/ ArithmeticOperator(op, t, v, v, type, value, exact)
      PROVE  Sound'
  BY <1>1, <1>2, ArithmeticSound
<1>3. CASE BitOperator(type, value, t, v) \/ BitOperator(t, v, type, value)
  BY <1>1, <1>3, BitSound
<1>4. ASSUME NEW op \in ComparisonOps,
             \/ ComparisonOperator(op, type, value, exact, t, v, v)
             \/ ComparisonOperator(op, t, v, v, type, value, exact)
      PROVE  Sound'
  BY <1>1, <1>4, ComparisonSound
<1> QED BY <1>2, <1>3, <1>4 DEF BinaryOperator

(* A conversion of the expression, checked or not.                         *)
LEMMA ConvertSound ==
  ASSUME Sound, NEW to \in Ours, Convert(to)
  PROVE  Sound'
<1>1. /\ type \in Ours /\ value \in Values(type) /\ exact \in Values(type)
      /\ kept = "all" => value = exact
  BY DEF Sound, TypeOK, KeepsNumbers, Ours
<1>2. CASE Converted(value, type, to) = {}
  BY <1>1, <1>2, StopsSound DEF Convert
<1>3. CASE Converted(value, type, to) # {}
  <2>1. PICK v \in Converted(value, type, to) : Becomes(to, v, exact, Loss(type, to))
    BY <1>3 DEF Convert
  <2>2. v \in Values(to)
    BY <1>1, <2>1, ConvertedTo, OursAreTypes
  <2>3. Loss(type, to) = "all" => v = value
    BY <1>1, <2>1, ConvertedKeeps, OursAreTypes
  <2> QED BY <1>1, <2>1, <2>2, <2>3, BecomesSound, LossFacts
<1> QED BY <1>2, <1>3

(* The logical operators, whose operands become bools.                     *)
LEMMA LogicSound ==
  ASSUME Sound,
         \/ LogicalNot
         \/ \E t \in Type : \E v \in Values(t) : \E op \in LogicalOps :
              LogicalOperator(op, t, v)
  PROVE  Sound'
<1>1. /\ type \in Ours /\ value \in Values(type)
      /\ kept = "all" => value = exact
  BY DEF Sound, TypeOK, KeepsNumbers, Ours
<1>2. \A b \in BOOLEAN : Bool(b) \in Values("bool") /\ (Bool(b) = 1 <=> b)
  BY ValuesOf DEF Bool
<1>3. CASE LogicalNot
  <2>1. CASE ~CanImplicitlyConvert(type, "bool")
    BY <1>1, <1>3, <2>1, StopsSound, OursAreTypes DEF LogicalNot
  <2>2. CASE CanImplicitlyConvert(type, "bool")
    <3>1. PICK v \in Converted(value, type, "bool") :
            Becomes("bool", Bool(v = 0), Bool(exact = 0), "all")
      BY <1>3, <2>2 DEF LogicalNot
    <3>2. v = Bool(value # 0)
      BY <1>1, <3>1, ConvertedToBool, OursAreTypes
    <3>3. (v = 0) = (value = 0)
      BY <3>2 DEF Bool
    <3>4. Bool(v = 0) \in Values("bool") /\ (kept = "all" => Bool(v = 0) = Bool(exact = 0))
      BY <1>1, <1>2, <3>3
    <3> QED BY <3>1, <3>4, BecomesSound, OursAreTypes
  <2> QED BY <2>1, <2>2
<1>4. ASSUME NEW t \in Type, NEW v \in Values(t), NEW op \in LogicalOps,
             LogicalOperator(op, t, v)
      PROVE  Sound'
  <2>1. t \in Ours
    BY DEF Ours
  <2>2. CASE ~CanImplicitlyConvert(type, "bool") \/ ~CanImplicitlyConvert(t, "bool")
    BY <1>1, <1>4, <2>1, <2>2, StopsSound, OursAreTypes DEF LogicalOperator
  <2>3. CASE CanImplicitlyConvert(type, "bool") /\ CanImplicitlyConvert(t, "bool")
    <3>1. \E a \in Converted(value, type, "bool"), b \in Converted(v, t, "bool") :
            Becomes("bool", Logical(op, a, b),
                    Logical(op, Bool(exact # 0), Bool(v # 0)), "all")
      BY <1>4, <2>3 DEF LogicalOperator
    <3>2. PICK a \in Converted(value, type, "bool") :
            \E b \in Converted(v, t, "bool") :
              Becomes("bool", Logical(op, a, b),
                      Logical(op, Bool(exact # 0), Bool(v # 0)), "all")
      BY <3>1
    <3>3. PICK b \in Converted(v, t, "bool") :
            Becomes("bool", Logical(op, a, b),
                    Logical(op, Bool(exact # 0), Bool(v # 0)), "all")
      BY <3>2
    <3>4. a = Bool(value # 0) /\ b = Bool(v # 0)
      BY <1>1, <2>1, <3>2, <3>3, ConvertedToBool, OursAreTypes
    <3>5. PICK r : r = Logical(op, a, b)
      OBVIOUS
    <3>6. r \in Values("bool")
      BY <1>2, <3>5 DEF Logical, LogicalOps
    <3>7. PICK number : number = Logical(op, Bool(exact # 0), Bool(v # 0))
      OBVIOUS
    <3>8. kept = "all" => r = number
      BY <1>1, <3>4, <3>5, <3>7
    <3>9. Becomes("bool", r, number, "all")
      BY <3>3, <3>5, <3>7
    <3> QED BY <3>6, <3>8, <3>9, BecomesSound, OursAreTypes
  <2> QED BY <2>2, <2>3
<1> QED BY <1>3, <1>4

(* Every step keeps it.                                                    *)
LEMMA SoundStep == Sound /\ [Next]_vars => Sound'
<1> SUFFICES ASSUME Sound, [Next]_vars PROVE Sound'
  OBVIOUS
<1>1. type \in Ours /\ \A t \in Type : t \in Ours
  BY DEF Sound, TypeOK, Ours
<1>2. ASSUME NEW t \in Type, NEW v \in Values(t), Literal(t, v)
      PROVE  Sound'
  <2>1. /\ pc' = "value" /\ type' = t /\ value' = v /\ exact' = v
        /\ kept' = kept /\ pair' = pair
    BY <1>2 DEF Literal
  <2>2. /\ pc' \in {"start", "value", "rejected", "unpromotable", "unconvertible",
                    "malformed", "returned", "looping"}
        /\ type' \in Type \cup {"bool"}
        /\ value' \in Values(type')
        /\ kept' \in {"all", "lost"}
        /\ exact' \in Values(type')
        /\ pair' \in (Type \cup {"bool"}) \X (Type \cup {"bool"})
    BY <2>1 DEF Sound, TypeOK
  <2> QED BY <2>1, <2>2 DEF Sound, TypeOK, KeepsNumbers
<1>3. CASE \E to \in Type : Cast(to) \/ CreateImplicitConversion(to)
  BY <1>1, <1>3, ConvertSound, StopsSound DEF Cast, CreateImplicitConversion
<1>4. CASE \/ LogicalNot
           \/ \E t \in Type : \E v \in Values(t) : \E op \in LogicalOps :
                LogicalOperator(op, t, v)
  BY <1>4, LogicSound
<1>5. CASE \E t \in Type : \E v \in Values(t) : BinaryOperator(t, v)
  BY <1>1, <1>5, BinarySound
<1>6. CASE \E to \in Type : Return(to)
  BY <1>1, <1>6, StopsSound DEF Return
<1>7. CASE LoopPredicate
  BY <1>1, <1>7, StopsSound, OursAreTypes DEF LoopPredicate
<1>8. CASE UNCHANGED vars
  BY <1>8 DEF vars, Sound, TypeOK, KeepsNumbers, Values, Top, Size
<1> QED BY <1>2, <1>3, <1>4, <1>5, <1>6, <1>7, <1>8 DEF Next

(* It holds from the beginning.                                            *)
LEMMA SoundInit == Init => Sound
<1> SUFFICES ASSUME Init PROVE Sound
  OBVIOUS
<1>1. 0 \in Values("bool")
  BY ValuesOf
<1> QED BY <1>1 DEF Init, Sound, TypeOK, KeepsNumbers

(* All variables keep their types: every value of the program is one of    *)
(* its type, whatever is converted and computed.                           *)
THEOREM TypeCorrect == Spec => []TypeOK
<1>1. Sound => TypeOK
  BY DEF Sound
<1> QED BY <1>1, SoundInit, SoundStep, PTL DEF Spec

(* An expression has the value mathematics gives it, as long as every      *)
(* conversion the checker put into it was to a type with all numbers of    *)
(* the type before, and none took an unsigned integer to a signed one, and *)
(* every result was a number of its type.                                  *)
THEOREM NumbersAreKept == Spec => []KeepsNumbers
<1>1. Sound => KeepsNumbers
  BY DEF Sound
<1> QED BY <1>1, SoundInit, SoundStep, PTL DEF Spec
-----------------------------------------------------------------------------
(* What the checker rejects.                                               *)

(* Of integers, a bigger one has the bigger top bit, and those of a size   *)
(* have the same.                                                          *)
LEMMA TopOrder ==
  ASSUME NEW s \in Integer, NEW t \in Integer
  PROVE  /\ Size(s) \in Sizes /\ Size(t) \in Sizes
         /\ Size(s) < Size(t) => Top(s) < Top(t)
         /\ Size(s) <= Size(t) => Top(s) <= Top(t)
<1>1. Size(s) \in Sizes /\ Size(t) \in Sizes
  BY DEF Integer, Signed, Unsigned, Size, Sizes
<1>2. Top(s) = TopBit[Size(s)] /\ Top(t) = TopBit[Size(t)]
  BY Kinds DEF Top
<1>3. Top(s) \in Nat /\ Top(t) \in Nat
  BY TopFacts
<1>4. PICK x \in Sizes : x = Size(s)
  BY <1>1
<1>5. PICK y \in Sizes : y = Size(t)
  BY <1>1
<1>6. x \in Nat /\ y \in Nat /\ (x < y => TopBit[x] < TopBit[y])
  BY TopBitAssumption DEF Sizes
<1>7. x <= y => x < y \/ x = y
  BY <1>6
<1> QED BY <1>1, <1>2, <1>3, <1>4, <1>5, <1>6, <1>7

(* No signed integer has all numbers of an unsigned one that is not        *)
(* smaller, and none has all numbers of one that is bigger.                *)
LEMMA IntegersNotContained ==
  ASSUME NEW from \in Integer, NEW to \in Integer, Contains(to, from)
  PROVE  /\ from \in Unsigned /\ to \in Signed => Size(from) < Size(to)
         /\ (from \in Unsigned) = (to \in Unsigned) => Size(from) <= Size(to)
<1>1. PICK b \in Nat : b = Top(from) /\ b >= 2
  BY TopFacts
<1>2. PICK c \in Nat : c = Top(to) /\ c >= 2
  BY TopFacts
<1>3. \A n : n \in Values(from) => n \in Values(to)
  BY ContainsFacts
<1>4. /\ Size(from) \in Nat /\ Size(to) \in Nat
      /\ (Size(to) < Size(from) => c < b)
      /\ (Size(to) <= Size(from) => c <= b)
  BY <1>1, <1>2, TopOrder DEF Sizes
<1>5. CASE from \in Unsigned
  <2>1. 2 * b - 1 \in Values(from)
    BY <1>1, <1>5, ValuesOf
  <2>2. to \in Unsigned => 2 * b - 1 <= 2 * c - 1
    BY <1>2, <1>3, <2>1, ValuesOf
  <2>3. to \in Signed => 2 * b - 1 <= c - 1
    BY <1>2, <1>3, <2>1, ValuesOf
  <2> QED BY <1>1, <1>2, <1>4, <1>5, <2>2, <2>3, Kinds
<1>6. CASE from \in Signed
  <2>1. -b \in Values(from)
    BY <1>1, <1>6, ValuesOf
  <2>2. to \in Signed => -c <= -b
    BY <1>2, <1>3, <2>1, ValuesOf
  <2> QED BY <1>1, <1>2, <1>4, <1>6, <2>2, Kinds
<1> QED BY <1>5, <1>6, Kinds

(* No float has all numbers of a bigger one.                               *)
LEMMA FloatsNotContained ==
  ASSUME NEW from \in Floating, NEW to \in Floating, Contains(to, from)
  PROVE  Size(to) >= Size(from)
<1>1. /\ Size("f32") = 32 /\ Size("f64") = 64
      /\ from \in {"f32", "f64"} /\ to \in {"f32", "f64"}
  BY DEF Floating, Size
<1>2. CASE from = "f64" /\ to = "f32"
  <2>1. PICK a \in Nat : a = Limit[32]
    BY LimitAssumption
  <2>2. PICK b \in Nat : b = Limit[64] /\ a < b
    BY <2>1, LimitAssumption
  <2>3. b \in Values(from)
    BY <1>1, <1>2, <2>2, ValuesOf
  <2>4. b \in Values(to)
    BY <2>3, ContainsFacts
  <2>5. Values(to) = (-a)..a
    BY <1>1, <1>2, <2>1, ValuesOf
  <2> QED BY <2>1, <2>2, <2>4, <2>5
<1>3. CASE ~(from = "f64" /\ to = "f32")
  BY <1>1, <1>3
<1> QED BY <1>2, <1>3

(* The checker allows every conversion to a type that has all numbers.     *)
LEMMA ContainedIsAllowed ==
  ASSUME NEW from \in AllTypes, NEW to \in AllTypes, Contains(to, from)
  PROVE  CanImplicitlyConvert(from, to)
<1>1. from \in Num \cup {"bool"} /\ to \in Num \cup {"bool"}
  BY ContainsFacts DEF Numeric
<1>2. CASE from \in Integer /\ to \in Integer
  <2>1. /\ from \in Unsigned /\ to \in Signed => Size(from) < Size(to)
        /\ (from \in Unsigned) = (to \in Unsigned) => Size(from) <= Size(to)
    BY <1>2, IntegersNotContained
  <2>2. ~(from \in Signed /\ to \in Unsigned)
    BY ContainsFacts
  <2>3. Size(from) \in Nat /\ Size(to) \in Nat
    BY <1>2, TopOrder DEF Sizes
  <2> QED BY <1>2, <2>1, <2>2, <2>3, Kinds DEF CanImplicitlyConvert
<1>3. CASE from \in Floating /\ to \in Floating
  BY <1>3, FloatsNotContained DEF CanImplicitlyConvert
<1>4. CASE from \in Integer /\ to \in Floating
  BY <1>4 DEF CanImplicitlyConvert
<1>5. CASE from = "bool" \/ to = "bool"
  BY <1>1, <1>5 DEF CanImplicitlyConvert
<1> QED BY <1>1, <1>2, <1>3, <1>4, <1>5, ContainsFacts, Kinds

(* It promotes two operands if one of the types has all numbers of the     *)
(* other.                                                                  *)
LEMMA ContainedIsPromoted ==
  ASSUME NEW t1 \in AllTypes, NEW t2 \in AllTypes,
         Contains(t1, t2) \/ Contains(t2, t1)
  PROVE  ImplicitTypePromote(t1, t2) # "none"
<1>1. t1 \in Num \cup {"bool"} /\ t2 \in Num \cup {"bool"} /\ "none" \notin AllTypes
  BY ContainsFacts DEF Numeric, AllTypes
<1>2. CASE t1 \in Integer /\ t2 \in Integer
  <2>1. Size(t1) \in Nat /\ Size(t2) \in Nat
    BY <1>2, TopOrder DEF Sizes
  <2>2. (t1 \in Unsigned) = (t2 \in Unsigned) \/ Size(t1) # Size(t2)
    <3>1. ASSUME NEW a \in Integer, NEW b \in Integer, Contains(a, b),
                 Size(a) \in Nat, Size(b) \in Nat
          PROVE  (b \in Unsigned) = (a \in Unsigned) \/ Size(a) # Size(b)
      <4>1. b \in Unsigned /\ a \in Signed => Size(b) < Size(a)
        BY <3>1, IntegersNotContained
      <4>2. ~(b \in Signed /\ a \in Unsigned)
        BY <3>1, ContainsFacts
      <4> QED BY <3>1, <4>1, <4>2, Kinds
    <3> QED BY <1>2, <2>1, <3>1
  <2> QED BY <1>1, <1>2, <2>2 DEF ImplicitTypePromote
<1>3. CASE t1 \in Floating \/ t2 \in Floating
  BY <1>1, <1>3, Kinds DEF ImplicitTypePromote
<1>4. CASE t1 = "bool" \/ t2 = "bool"
  BY <1>1, <1>4, Kinds DEF ImplicitTypePromote
<1> QED BY <1>1, <1>2, <1>3, <1>4, Kinds

(* What is refused is refused for a reason.                                *)
JInv == type \in AllTypes /\ RejectionsJustified

(* An expression that is not refused has none to give.                     *)
LEMMA BecomesJustified ==
  ASSUME NEW t \in AllTypes, NEW v, NEW number, NEW loss,
         Becomes(t, v, number, loss)
  PROVE  JInv'
BY DEF Becomes, JInv, RejectionsJustified

(* A conversion that is rejected is none that is allowed.                  *)
LEMMA RejectionJustified ==
  ASSUME JInv, NEW from \in AllTypes, NEW to \in AllTypes,
         Stops("rejected", from, to), ~CanImplicitlyConvert(from, to)
  PROVE  JInv'
<1>1. pc' = "rejected" /\ pair' = <<from, to>> /\ type' = type
  BY DEF Stops
<1>2. ~Contains(to, from)
  BY ContainedIsAllowed
<1>3. to = "bool" => from = "str"
  BY Kinds DEF CanImplicitlyConvert
<1>4. ~Contains(pair'[2], pair'[1]) /\ (pair'[2] = "bool" => pair'[1] = "str")
  BY <1>1, <1>2, <1>3
<1> QED BY <1>1, <1>4 DEF JInv, RejectionsJustified, Contains, Values, Top, Size

(* Two operands without a common type.                                     *)
LEMMA UnpromotableJustified ==
  ASSUME JInv, NEW lt \in AllTypes, NEW rt \in AllTypes,
         Stops("unpromotable", lt, rt), ImplicitTypePromote(lt, rt) = "none"
  PROVE  JInv'
<1>1. pc' = "unpromotable" /\ pair' = <<lt, rt>> /\ type' = type
  BY DEF Stops
<1>2. ~Contains(rt, lt) /\ ~Contains(lt, rt)
  BY ContainedIsPromoted
<1>3. ~Contains(pair'[2], pair'[1]) /\ ~Contains(pair'[1], pair'[2])
  BY <1>1, <1>2
<1> QED BY <1>1, <1>3 DEF JInv, RejectionsJustified, Contains, Values, Top, Size

(* The other outcomes are none of the checker's.                           *)
LEMMA OtherwiseJustified ==
  ASSUME JInv, NEW from, NEW to, NEW outcome,
         outcome \notin {"rejected", "unpromotable"},
         Stops(outcome, from, to)
  PROVE  JInv'
BY DEF Stops, JInv, RejectionsJustified

(* The steps of the operators.                                             *)
LEMMA OperatorsJustified ==
  ASSUME JInv, NEW lt \in AllTypes, NEW rt \in AllTypes,
         NEW op, NEW lv, NEW rv, NEW m, NEW n,
         \/ ArithmeticOperator(op, lt, lv, m, rt, rv, n)
         \/ BitOperator(lt, lv, rt, rv)
         \/ ComparisonOperator(op, lt, lv, m, rt, rv, n)
  PROVE  JInv'
<1>1. CASE PromotionFails(lt, lv, rt, rv)
  BY <1>1, UnpromotableJustified, OtherwiseJustified DEF PromotionFails
<1>2. CASE ~PromotionFails(lt, lv, rt, rv)
  <2>1. PICK t : t = ImplicitTypePromote(lt, rt)
    OBVIOUS
  <2>2. t = "none" => PromotedOperands(lt, lv, rt, rv) = {}
    BY <2>1 DEF PromotedOperands
  <2>3. t # "none" => t \in AllTypes
    BY <2>1, PromotedIsOperandType
  <2>4. "bool" \in AllTypes
    BY DEF AllTypes
  <2>5. CASE ArithmeticOperator(op, lt, lv, m, rt, rv, n)
    BY <1>2, <2>1, <2>2, <2>3, <2>5, BecomesJustified, OtherwiseJustified
       DEF ArithmeticOperator
  <2>6. CASE BitOperator(lt, lv, rt, rv)
    BY <1>2, <2>1, <2>2, <2>3, <2>6, BecomesJustified, OtherwiseJustified
       DEF BitOperator
  <2>7. CASE ComparisonOperator(op, lt, lv, m, rt, rv, n)
    BY <1>2, <2>4, <2>7, BecomesJustified DEF ComparisonOperator
  <2> QED BY <2>5, <2>6, <2>7
<1> QED BY <1>1, <1>2

(* Every step keeps it.                                                    *)
LEMMA JustifiedStep == JInv /\ [Next]_vars => JInv'
<1> SUFFICES ASSUME JInv, [Next]_vars PROVE JInv'
  OBVIOUS
<1>1. /\ type \in AllTypes /\ "bool" \in AllTypes
      /\ \A t \in Type : t \in AllTypes
  BY TypeAssumption DEF JInv, AllTypes
<1>2. ASSUME NEW to \in Type, Convert(to)
      PROVE  JInv'
  BY <1>1, <1>2, BecomesJustified, OtherwiseJustified DEF Convert
<1>3. CASE \E t \in Type : \E v \in Values(t) : Literal(t, v)
  BY <1>1, <1>3 DEF Literal, JInv, RejectionsJustified
<1>4. CASE \E to \in Type : Cast(to) \/ CreateImplicitConversion(to)
  BY <1>1, <1>2, <1>4, RejectionJustified DEF Cast, CreateImplicitConversion
<1>5. CASE LogicalNot
  BY <1>1, <1>5, BecomesJustified, RejectionJustified DEF LogicalNot
<1>6. CASE \E t \in Type : \E v \in Values(t) : \E op \in LogicalOps :
             LogicalOperator(op, t, v)
  BY <1>1, <1>6, BecomesJustified, RejectionJustified DEF LogicalOperator
<1>7. CASE \E t \in Type : \E v \in Values(t) : BinaryOperator(t, v)
  BY <1>1, <1>7, OperatorsJustified DEF BinaryOperator
<1>8. CASE \E to \in Type : Return(to)
  BY <1>1, <1>8, RejectionJustified, OtherwiseJustified DEF Return
<1>9. CASE LoopPredicate
  BY <1>9, OtherwiseJustified DEF LoopPredicate
<1>10. CASE UNCHANGED vars
  BY <1>10 DEF vars, JInv, RejectionsJustified
<1> QED BY <1>3, <1>4, <1>5, <1>6, <1>7, <1>8, <1>9, <1>10 DEF Next

(* The checker rejects no conversion to a type that has all numbers of the *)
(* type before, no two operands one of whose types has all numbers of the  *)
(* other, and no condition but a string.                                   *)
THEOREM RejectedForAReason == Spec => []RejectionsJustified
<1>1. Init => JInv
  BY DEF Init, JInv, RejectionsJustified, AllTypes
<1>2. JInv => RejectionsJustified
  BY DEF JInv
<1> QED BY <1>1, <1>2, JustifiedStep, PTL DEF Spec
=============================================================================
