---------------------------- MODULE TypeCasting ----------------------------
(***************************************************************************)
(* Type conversions: the rules of the type checker                         *)
(* (analysis/implicit_cast.cpp), the places in analysis/type_check.cpp     *)
(* that ask for them, and the instructions the generator                   *)
(* (codegen/code_generator.cpp) emits for them.                            *)
(*                                                                         *)
(* An expression is built around a literal, one operator or use at a time. *)
(* A step is everything that happens to that operator: the checker accepts *)
(* or rejects it, the generator emits instructions for it, and the         *)
(* compiled program computes its value.  A value is the number its type    *)
(* gives the bits; floats are integers of an interval, pointers and        *)
(* strings are null or not.                                                *)
(***************************************************************************)
EXTENDS Integers

CONSTANTS
  Type,     \* the types of the literals and targets
  TopBit,   \* what the top bit of an integer of each size counts: 2^7 for 8
            \* bits, and less in an instance that scales the sizes down
  Limit     \* bound of the model: the largest float of each size

AllTypes == {"bool", "char", "i8", "u8", "i16", "u16", "i32", "u32", "i64",
             "u64", "f32", "f64", "pointer", "str"}
Sizes == {8, 16, 32, 64}

ASSUME TypeAssumption == Type \subseteq AllTypes
ASSUME TopBitAssumption ==
  /\ TopBit \in [Sizes -> Nat \ {0, 1}]
  /\ \A s, t \in Sizes : s < t => TopBit[s] < TopBit[t]
ASSUME LimitAssumption ==
  /\ Limit \in [{32, 64} -> Nat \ {0}]
  /\ Limit[32] < Limit[64]

VARIABLES
  pc,      \* "start", "value"; or how the expression ended: "rejected" and
           \* "unpromotable" (by the checker), "unconvertible" (by the
           \* generator), "malformed" (no such instruction), "returned", "looping"
  type,    \* the type of the expression
  value,   \* its value
  exact,   \* the number it stands for if no conversion loses anything
  kept,    \* "all", or "lost" if the conversions so far may have lost something
  pair     \* the types an expression was refused for

vars == <<pc, type, value, exact, kept, pair>>

(* The kinds of PrimitiveType, and its sizes: those of bool are not set.   *)
Signed == {"i8", "i16", "i32", "i64"}
Unsigned == {"char", "u8", "u16", "u32", "u64"}
Integer == Signed \cup Unsigned
Floating == {"f32", "f64"}
Num == Integer \cup Floating
Size(t) ==
  CASE t \in {"char", "i8", "u8"} -> 8
    [] t \in {"i16", "u16"} -> 16
    [] t \in {"i32", "u32", "f32"} -> 32
    [] t = "bool" -> 0
    [] OTHER -> 64

(* The numbers of each type: with a top bit that counts b an integer has   *)
(* 2 * b values.                                                           *)
Top(t) == IF t = "bool" THEN 1 ELSE TopBit[Size(t)]
AsUnsigned(v, b) == v % (2 * b)
AsSigned(v, b) == ((v + b) % (2 * b)) - b
Values(t) ==
  CASE t \in Unsigned \cup {"bool"} -> 0..(2 * Top(t) - 1)
    [] t \in Signed -> (-Top(t))..(Top(t) - 1)
    [] t \in Floating -> (-Limit[Size(t)])..Limit[Size(t)]
    [] OTHER -> 0..1

Init ==
  /\ pc = "start"
  /\ type = "bool"
  /\ value = 0
  /\ exact = 0
  /\ kept = "all"
  /\ pair = <<"bool", "bool">>

-----------------------------------------------------------------------------
(* The rules of the checker. *)

(* Slip: a string is taken for a pointer. *)
CanConvertString(from, to) ==
  \/ from = to
  \/ /\ from \in Integer /\ to \in Integer
     /\ IF (from \in Unsigned) = (to \in Unsigned)
        THEN Size(to) >= Size(from) ELSE Size(to) > Size(from)
  \/ from \in Floating /\ to \in Floating /\ Size(to) >= Size(from)
  \/ from \in Integer /\ to \in Floating
  \/ from = "bool" /\ to \in Num
  \/ from \in Num \cup {"pointer", "str"} /\ to = "bool"

(* Slip: types of one size are not convertible. *)
CanConvertBigger(from, to) ==
  \/ from = to
  \/ from \in Integer /\ to \in Integer /\ Size(to) > Size(from)
  \/ from \in Floating /\ to \in Floating /\ Size(to) > Size(from)
  \/ from \in Integer /\ to \in Floating
  \/ from = "bool" /\ to \in Num
  \/ from \in Num \cup {"pointer"} /\ to = "bool"

CanImplicitlyConvert(from, to) ==
  \/ from = to
  \/ /\ from \in Integer /\ to \in Integer
     /\ IF (from \in Unsigned) = (to \in Unsigned)
        THEN Size(to) >= Size(from) ELSE Size(to) > Size(from)
  \/ from \in Floating /\ to \in Floating /\ Size(to) >= Size(from)
  \/ from \in Integer /\ to \in Floating
  \/ from = "bool" /\ to \in Num
  \/ from \in Num \cup {"pointer"} /\ to = "bool"

(* The type two operands are promoted to; "none" is a null pointer.        *)
ImplicitTypePromote(t1, t2) ==
  LET bigger == IF Size(t1) >= Size(t2) THEN t1 ELSE t2 IN
  IF t1 = t2 THEN t1
  ELSE IF t1 \in Integer /\ t2 \in Integer
       THEN IF (t1 \in Unsigned) = (t2 \in Unsigned) \/ Size(t1) # Size(t2)
            THEN bigger ELSE "none"
  ELSE IF t1 \in Floating /\ t2 \in Floating THEN bigger
  ELSE IF t1 \in Floating /\ t2 \in Integer THEN t1
  ELSE IF t1 \in Integer /\ t2 \in Floating THEN t2
  ELSE IF t1 = "bool" /\ t2 \in Num \cup {"pointer"} THEN t2
  ELSE IF t1 \in Num \cup {"pointer"} /\ t2 = "bool" THEN t1
  ELSE "none"

-----------------------------------------------------------------------------
(* The instructions of the generator. *)

(* The bits of a number, read as a value of the type. *)
Read(n, t) ==
  CASE t \in Unsigned \cup {"bool"} -> AsUnsigned(n, Top(t))
    [] t \in Signed -> AsSigned(n, Top(t))
    [] OTHER -> n

(* An instruction between numbers with a float on one side.  A number      *)
(* outside the interval of a float type is rounded, and one outside the    *)
(* range of an integer type is undefined: any value.                       *)
Fit(n, t) == IF n \in Values(t) THEN {n} ELSE Values(t)

(* Slip: an integer is extended as a signed one. *)
ConvertedSigned(v, from, to) ==
  IF from = to THEN {v}
  ELSE IF from \in Integer /\ to \in Integer
       THEN {Read(AsSigned(v, Top(from)), to)}
  ELSE IF from \in Num /\ to \in Num THEN Fit(v, to)
  ELSE IF from = "bool" /\ to \in Num THEN {v}
  ELSE IF from \in Num \cup {"pointer"} /\ to = "bool" THEN {IF v = 0 THEN 0 ELSE 1}
  ELSE IF from = "str" /\ to = "pointer" THEN {v}
  ELSE {}

(* The values v may have after its conversion; none if the generator stops *)
(* with "Cannot perform type conversion".  An integer is extended the way  *)
(* the type it is converted to asks for.                                   *)
Converted(v, from, to) ==
  IF from = to THEN {v}
  ELSE IF from \in Integer /\ to \in Integer
       THEN {Read(IF to \in Unsigned THEN AsUnsigned(v, Top(from))
                  ELSE AsSigned(v, Top(from)), to)}
  ELSE IF from \in Num /\ to \in Num THEN Fit(v, to)
  ELSE IF from = "bool" /\ to \in Num THEN {v}
  ELSE IF from \in Num \cup {"pointer"} /\ to = "bool" THEN {IF v = 0 THEN 0 ELSE 1}
  ELSE IF from = "str" /\ to = "pointer" THEN {v}
  ELSE {}

(* The operand an instruction sees: the signedness comes from the type,    *)
(* and a bool is a signed integer of one bit.                              *)
Operand(v, t) == IF t = "bool" THEN AsSigned(v, 1) ELSE v

Abs(n) == IF n < 0 THEN -n ELSE n
Quotient(a, b) ==
  IF (a < 0) = (b < 0) THEN Abs(a) \div Abs(b) ELSE -(Abs(a) \div Abs(b))

ArithmeticOps == {"SUM", "SUBTRACT", "MULTIPLY", "DIVIDE", "MOD"}
LogicalOps == {"LAND", "LOR", "XOR"}
ComparisonOps == {"GT", "GE", "LT", "LE", "EQ", "NE"}

Arithmetic(op, a, b) ==
  CASE op = "SUM" -> a + b
    [] op = "SUBTRACT" -> a - b
    [] op = "MULTIPLY" -> a * b
    [] op = "DIVIDE" -> Quotient(a, b)
    [] op = "MOD" -> a - b * Quotient(a, b)

(* A division by zero or one that overflows is undefined; of floats, which *)
(* are integers here, the quotient is not modelled.                        *)
Undefined(op, x, y, t) ==
  /\ op \in {"DIVIDE", "MOD"}
  /\ \/ y = 0 \/ t \in Floating
     \/ t \in Signed \cup {"bool"} /\ y = -1 /\ x = -Top(t)

ArithmeticValues(op, a, b, t) ==
  LET x == Operand(a, t)
      y == Operand(b, t)
  IN  IF Undefined(op, x, y, t) THEN Values(t)
      ELSE IF t \in Floating THEN Fit(Arithmetic(op, x, y), t)
      ELSE {Read(Arithmetic(op, x, y), t)}

Compares(op, a, b) ==
  CASE op = "GT" -> a > b
    [] op = "GE" -> a >= b
    [] op = "LT" -> a < b
    [] op = "LE" -> a <= b
    [] op = "EQ" -> a = b
    [] op = "NE" -> a # b

Bool(b) == IF b THEN 1 ELSE 0
Logical(op, a, b) ==
  CASE op = "LAND" -> Bool(a = 1 /\ b = 1)
    [] op = "LOR" -> Bool(a = 1 \/ b = 1)
    [] op = "XOR" -> Bool(a # b)

-----------------------------------------------------------------------------
(* What a conversion may lose.  Nothing, when all numbers of one type are  *)
(* numbers of the other, unless an unsigned integer becomes a signed one:  *)
(* the generator extends that by its top bit.  Floats also have fractions, *)
(* which the model leaves out and no other type has.                       *)
Numeric == Num \cup {"bool"}
Contains(to, from) ==
  /\ from \in Numeric /\ to \in Numeric
  /\ from \in Floating => to \in Floating
  /\ Values(from) \subseteq Values(to)
Loss(from, to) ==
  IF from = to THEN "all"
  ELSE IF ~Contains(to, from) \/ (from \in Unsigned /\ to \in Signed) THEN "lost"
  ELSE "all"
After(loss) == IF kept = "all" THEN loss ELSE "lost"

(* The expression now has this type and value, and stands for number.      *)
Becomes(t, v, number, loss) ==
  /\ pc' = "value"
  /\ type' = t
  /\ value' = v
  /\ kept' = IF number \in Values(t) THEN After(loss) ELSE "lost"
  /\ exact' = IF kept' = "lost" THEN v ELSE number
  /\ UNCHANGED pair

Stops(outcome, from, to) ==
  /\ pc' = outcome
  /\ pair' = <<from, to>>
  /\ UNCHANGED <<type, value, exact, kept>>

(* The conversion of the expression to the type, in the generator.         *)
Convert(to) ==
  IF Converted(value, type, to) = {} THEN Stops("unconvertible", type, to)
  ELSE \E v \in Converted(value, type, to) :
         Becomes(to, v, exact, Loss(type, to))

Literal(t, v) ==
  /\ pc = "start"
  /\ pc' = "value"
  /\ type' = t
  /\ value' = v
  /\ exact' = v
  /\ UNCHANGED <<kept, pair>>

(* A cast the program asks for: the checker has no objection.              *)
Cast(to) == pc = "value" /\ Convert(to)

(* A conversion the checker inserts or allows: an assignment, an argument, *)
(* the condition of an if.                                                 *)
CreateImplicitConversion(to) ==
  /\ pc = "value"
  /\ IF CanImplicitlyConvert(type, to) THEN Convert(to)
     ELSE Stops("rejected", type, to)

LogicalNot ==
  /\ pc = "value"
  /\ IF CanImplicitlyConvert(type, "bool")
     THEN \E v \in Converted(value, type, "bool") :
            Becomes("bool", Bool(v = 0), Bool(exact = 0), "all")
     ELSE Stops("rejected", type, "bool")

(* Both operands of a logical operator become bools. *)
LogicalOperator(op, t, v) ==
  /\ pc = "value"
  /\ IF ~CanImplicitlyConvert(type, "bool") THEN Stops("rejected", type, "bool")
     ELSE IF ~CanImplicitlyConvert(t, "bool") THEN Stops("rejected", t, "bool")
     ELSE \E a \in Converted(value, type, "bool"), b \in Converted(v, t, "bool") :
            Becomes("bool", Logical(op, a, b),
                    Logical(op, Bool(exact # 0), Bool(v # 0)), "all")

(* An operator that promotes its operands: a cast to the promoted type     *)
(* takes the place of the left one if its type is another, of the right    *)
(* one otherwise.                                                          *)
PromotedOperands(lt, lv, rt, rv) ==
  LET t == ImplicitTypePromote(lt, rt) IN
  IF t = "none" THEN {}
  ELSE IF t # lt THEN Converted(lv, lt, t) \X {rv}
  ELSE {lv} \X Converted(rv, rt, t)

PromotionFails(lt, lv, rt, rv) ==
  /\ pc = "value"
  /\ PromotedOperands(lt, lv, rt, rv) = {}
  /\ IF ImplicitTypePromote(lt, rt) = "none" THEN Stops("unpromotable", lt, rt)
     ELSE Stops("unconvertible", lt, rt)

Worst(l, r) == IF l = "all" THEN r ELSE "lost"

(* An arithmetic operator; m and n are the numbers of the operands.        *)
ArithmeticOperator(op, lt, lv, m, rt, rv, n) ==
  \/ PromotionFails(lt, lv, rt, rv)
  \/ /\ pc = "value"
     /\ \E ab \in PromotedOperands(lt, lv, rt, rv) :
          LET t == ImplicitTypePromote(lt, rt) IN
          IF t \notin Numeric THEN Stops("malformed", lt, rt)
          ELSE \E r \in ArithmeticValues(op, ab[1], ab[2], t) :
                 IF t = "bool" \/ Undefined(op, m, n, t) THEN Becomes(t, r, r, "lost")
                 ELSE Becomes(t, r, Arithmetic(op, m, n), Worst(Loss(lt, t), Loss(rt, t)))

(* BAND and BOR: there is none on what is not an integer, and of its *)
(* value only the type is modelled.                                        *)
BitOperator(lt, lv, rt, rv) ==
  \/ PromotionFails(lt, lv, rt, rv)
  \/ /\ pc = "value"
     /\ PromotedOperands(lt, lv, rt, rv) # {}
     /\ LET t == ImplicitTypePromote(lt, rt) IN
          IF t \notin Integer \cup {"bool"} THEN Stops("malformed", lt, rt)
          ELSE \E r \in Values(t) : Becomes(t, r, r, "lost")

(* A comparison, whose type is bool.  Of two bools, true is the smaller.   *)
ComparisonOperator(op, lt, lv, m, rt, rv, n) ==
  \/ PromotionFails(lt, lv, rt, rv)
  \/ /\ pc = "value"
     /\ \E ab \in PromotedOperands(lt, lv, rt, rv) :
          LET t == ImplicitTypePromote(lt, rt)
              result == Compares(op, Operand(ab[1], t), Operand(ab[2], t))
              loss == IF t = "bool" THEN "lost" ELSE Worst(Loss(lt, t), Loss(rt, t))
          IN  Becomes("bool", Bool(result), Bool(Compares(op, m, n)), loss)

(* A return from a function that returns to: the value is checked and not  *)
(* converted.                                                              *)
Return(to) ==
  /\ pc = "value"
  /\ IF ~CanImplicitlyConvert(type, to) THEN Stops("rejected", type, to)
     ELSE Stops("returned", type, to)

(* The condition of a loop, which is neither checked nor converted.        *)
LoopPredicate ==
  /\ pc = "value"
  /\ Stops(IF type = "bool" THEN "looping" ELSE "malformed", type, "bool")

(* The expression is the left or the right operand.                        *)
BinaryOperator(t, v) ==
  \/ \E op \in ArithmeticOps :
       \/ ArithmeticOperator(op, type, value, exact, t, v, v)
       \/ ArithmeticOperator(op, t, v, v, type, value, exact)
  \/ BitOperator(type, value, t, v)
  \/ BitOperator(t, v, type, value)
  \/ \E op \in ComparisonOps :
       \/ ComparisonOperator(op, type, value, exact, t, v, v)
       \/ ComparisonOperator(op, t, v, v, type, value, exact)

Next ==
  \/ \E t \in Type : \E v \in Values(t) : Literal(t, v)
  \/ \E to \in Type : Cast(to)
  \/ \E to \in Type : CreateImplicitConversion(to)
  \/ LogicalNot
  \/ \E t \in Type : \E v \in Values(t) : \E op \in LogicalOps : LogicalOperator(op, t, v)
  \/ \E t \in Type : \E v \in Values(t) : BinaryOperator(t, v)
  \/ \E to \in Type : Return(to)
  \/ LoopPredicate

Spec == Init /\ [][Next]_vars

-----------------------------------------------------------------------------
TypeOK ==
  /\ pc \in {"start", "value", "rejected", "unpromotable", "unconvertible",
             "malformed", "returned", "looping"}
  /\ type \in Type \cup {"bool"}
  /\ value \in Values(type)
  /\ kept \in {"all", "lost"}
  /\ exact \in Values(type)
  /\ pair \in (Type \cup {"bool"}) \X (Type \cup {"bool"})

(* An expression has the value mathematics gives it as long as every       *)
(* conversion the checker put into it was to a type that has all numbers   *)
(* of the type before (and none took an unsigned integer to a signed one)  *)
(* and every result fits its type: comparisons, divisions and extensions   *)
(* take the signedness their operands have after promotion.                *)
KeepsNumbers == kept = "all" => value = exact

(* The checker rejects no conversion to a type that has all the numbers,   *)
(* nor two operands one of whose types has all numbers of the other; and   *)
(* only strings are not conditions.                                        *)
RejectionsJustified ==
  /\ pc \in {"rejected", "unpromotable"} => ~Contains(pair[2], pair[1])
  /\ pc = "unpromotable" => ~Contains(pair[1], pair[2])
  /\ pc = "rejected" /\ pair[2] = "bool" => pair[1] = "str"

(* What the checker lets through the generator can convert, but for one    *)
(* thing, a bool promoted to a pointer.  Casts of the program are not      *)
(* checked, and the generator refuses some.                                *)
GeneratorAccepts ==
  pc = "unconvertible" =>
    \/ {pair[1], pair[2]} = {"bool", "pointer"}
    \/ ~CanImplicitlyConvert(pair[1], pair[2])

=============================================================================
