---------------------- MODULE FunctionSymbols_proofs ----------------------
(***************************************************************************)
(* Proofs about FunctionSymbols, for all programs: its variables keep      *)
(* their types; a package whose functions are declared before they are     *)
(* called is generated as it is written, and every other one is not; names *)
(* mean what Means says; the generator runs out of stack for a function    *)
(* that calls itself, and otherwise ends; and in programs the linker can   *)
(* put together every call reaches the function it means.                  *)
(***************************************************************************)
EXTENDS FunctionSymbols, FiniteSetTheorems, SequenceTheorems,
        WellFoundedInduction, TLAPS

(* A set of natural numbers has a least one, a bounded one a greatest.     *)
LEMMA LeastNatural ==
  ASSUME NEW S \in SUBSET Nat, S # {}
  PROVE  \E m \in S : \A j \in S : m <= j
<1>1. PICK x \in S : \A y \in S : ~(<<y, x>> \in OpToRel(<, Nat))
  BY NatLessThanWellFounded, WFMin
<1>2. \A y \in S : ~(y < x)
  BY <1>1 DEF OpToRel
<1> QED BY <1>2

LEMMA GreatestExists ==
  ASSUME NEW n \in Nat, NEW S \in SUBSET (1..n), S # {}
  PROVE  Greatest(S) \in S
<1> DEFINE T == {n - j : j \in S}
<1>1. \A j \in S : j \in Int /\ 1 <= j /\ j <= n
  OBVIOUS
<1>2. T \in SUBSET Nat
  BY <1>1
<1>3. T # {}
  OBVIOUS
<1>4. PICK m \in T : \A j \in T : m <= j
  BY <1>2, <1>3, LeastNatural
<1>5. PICK i \in S : m = n - i
  BY <1>4
<1>6. \A j \in S : n - i <= n - j
  BY <1>4, <1>5
<1>7. \A j \in S : j <= i
  BY <1>1, <1>5, <1>6
<1> QED BY <1>7 DEF Greatest

-----------------------------------------------------------------------------
(* What the assumption says of the program at hand.                        *)
LEMMA ProgramFacts ==
  ASSUME program \in Programs
  PROVE  /\ program \in Seq(Seq(Item)) /\ Len(program) \in Nat \ {0}
         /\ Packages = 1..Len(program)
         /\ \A p \in Packages : program[p] \in Seq(Item)
         /\ \A p \in Packages : \A i \in DOMAIN program[p] :
              program[p][i].do = "import" => program[p][i].from \in 1..(p - 1)
         /\ NoDecl \notin Decl
         /\ IsFiniteSet(Decl)
<1>1. program \in Seq(Seq(Item)) /\ program # <<>>
  BY ProgramsAssumption
<1> QED BY <1>1, ProgramsAssumption DEF Packages, Decl

LEMMA DeclFacts ==
  ASSUME program \in Programs
  PROVE  /\ \A p \in Packages : \A i \in DOMAIN program[p] :
              program[p][i].do = "fn" => <<p, i>> \in Decl
         /\ \A d \in Decl :
              /\ d = <<d[1], d[2]>> /\ d[1] \in Packages /\ d[2] \in DOMAIN program[d[1]]
              /\ ItemOf(d).do = "fn"
              /\ ItemOf(d).name \in Name /\ ItemOf(d).calls \in Seq(Name)
              /\ ItemOf(d).pub \in BOOLEAN /\ ItemOf(d).ext \in BOOLEAN
<1>1. \A p \in Packages : \A i \in DOMAIN program[p] :
        program[p][i].do = "fn" => <<p, i>> \in Decl
  BY DEF Decl, DeclsOf, Packages
<1>2. ASSUME NEW d \in Decl
      PROVE  /\ d = <<d[1], d[2]>> /\ d[1] \in Packages /\ d[2] \in DOMAIN program[d[1]]
             /\ ItemOf(d).do = "fn"
  BY DEF Decl, DeclsOf, Packages, ItemOf
<1>3. ASSUME NEW d \in Decl
      PROVE  /\ ItemOf(d).name \in Name /\ ItemOf(d).calls \in Seq(Name)
             /\ ItemOf(d).pub \in BOOLEAN /\ ItemOf(d).ext \in BOOLEAN
  <2>1. ItemOf(d) \in Item
    BY <1>2, ProgramFacts DEF ItemOf
  <2>2. ItemOf(d).do = "fn"
    BY <1>2
  <2> QED BY <2>1, <2>2 DEF Item
<1> QED BY <1>1, <1>2, <1>3

-----------------------------------------------------------------------------
(* Type correctness. *)
Positions ==
  \A d \in Decl : cache[d] # 0 =>
    cache[d] \in DOMAIN Module /\ Module[cache[d]].of = d

Activations ==
  \A i \in DOMAIN stack :
    /\ ~ItemOf(stack[i].of).ext
    /\ stack[i].symbol \in DOMAIN Module /\ Module[stack[i].symbol].of = stack[i].of
    /\ insert \in DOMAIN Module

Resolved ==
  pc \in {"generate", "done", "overflow"} =>
    \A d \in Decl : \A k \in Calls(d) : Callee(d, k) # NoDecl

(* While packages are analysed there is nothing generated. *)
Analysing == pc \in {"register", "precheck", "check", "unknown"}
Idle ==
  Analysing => /\ modules = [p \in Packages |-> <<>>]
               /\ cache = [d \in Decl |-> 0]
               /\ stack = <<>>
               /\ insert = 0

(* TypeOK in two halves, one for each group of variables. *)
FrontOK ==
  /\ package \in Packages
  /\ item \in 1..(Len(program[package]) + 1)
  /\ context \in [Packages -> [Name -> Decl \cup {NoDecl}]]
  /\ DOMAIN imports = Packages
  /\ \A p \in Packages : imports[p] \in [DOMAIN program[p] -> SUBSET Decl]

BuilderOK ==
  /\ modules \in [Packages -> Seq(Symbol)]
  /\ cache \in [Decl -> 0..Len(Module)]
  /\ stack \in Seq(Activation)
  /\ insert \in 0..Len(Module)

PcOK ==
  pc \in {"register", "precheck", "check", "generate", "done", "unknown", "overflow"}

(* The values the variables have, and that none points out of its module. *)
Typed ==
  /\ program \in Programs
  /\ PcOK
  /\ FrontOK
  /\ BuilderOK
  /\ Positions
  /\ Activations
  /\ Resolved
  /\ Idle

LEMMA CalleeType ==
  ASSUME Typed, NEW d \in Decl, NEW k \in DOMAIN ItemOf(d).calls
  PROVE  Callee(d, k) \in Decl \cup {NoDecl}
<1>1. ItemOf(d).calls[k] \in Name
  BY DeclFacts DEF Typed
<1>2. d[1] \in Packages
  BY DeclFacts DEF Typed
<1> QED BY <1>1, <1>2 DEF Callee, Typed, FrontOK

LEMMA PrototypeType ==
  ASSUME Typed, NEW d \in Decl, NEW before \in Nat
  PROVE  /\ Prototype(d, before) \in Symbol
         /\ Prototype(d, before).of = d
         /\ Prototype(d, before).body = FALSE
         /\ Prototype(d, before).code = <<>>
<1>1. Module \in Seq(Symbol)
  BY DEF Typed, FrontOK, BuilderOK, Module
<1>2. IsFiniteSet(1..Len(Module))
  BY <1>1, FS_Interval
<1>3. {s \in DOMAIN Module : Module[s].suffix # 0} \subseteq 1..Len(Module)
  BY <1>1
<1>4. Renamed \in Nat
  BY <1>2, <1>3, FS_Subset, FS_CardinalityType DEF Renamed
<1>5. Renamed + before + 1 \in Nat
  BY <1>4
<1>6. <<>> \in Seq(Decl \X Nat)
  OBVIOUS
<1> QED BY <1>5, <1>6 DEF Prototype, Symbol

(* A function more in the module under way. *)
LEMMA DeclareType ==
  ASSUME Typed, NEW d \in Decl, NEW f \in Symbol, f.of = d,
         modules' = [modules EXCEPT ![package] = Append(@, f)],
         UNCHANGED <<program, package>>
  PROVE  /\ modules' \in [Packages -> Seq(Symbol)]
         /\ Module' \in Seq(Symbol)
         /\ Len(Module') = Len(Module) + 1
         /\ \A s \in DOMAIN Module : s \in DOMAIN Module' /\ Module'[s] = Module[s]
         /\ Len(Module) + 1 \in DOMAIN Module'
         /\ Module'[Len(Module) + 1] = f
         /\ \A p \in Packages : p # package => modules'[p] = modules[p]
<1>1. /\ Module \in Seq(Symbol) /\ package \in Packages
      /\ modules \in [Packages -> Seq(Symbol)]
  BY DEF Typed, FrontOK, BuilderOK, Module
<1>2. Module' = Append(Module, f)
  BY <1>1 DEF Module
<1> QED BY <1>1, <1>2

LEMMA TypedIsTypeOK == Typed => TypeOK
  BY ProgramFacts DEF Typed, TypeOK, PcOK, FrontOK, BuilderOK

LEMMA IdleTyped ==
  ASSUME program \in Programs, Idle, Analysing, package \in Packages
  PROVE  BuilderOK /\ Positions /\ Activations
<1>1. <<>> \in Seq(Symbol) /\ <<>> \in Seq(Activation) /\ Len(<<>>) = 0
  OBVIOUS
<1>2. modules \in [Packages -> Seq(Symbol)] /\ Module = <<>>
  BY <1>1 DEF Idle, Module
<1> QED BY <1>1, <1>2 DEF Idle, BuilderOK, Positions, Activations

LEMMA TypedInit == Init => Typed
<1> SUFFICES ASSUME Init
             PROVE  Typed
  OBVIOUS
<1>1. program \in Programs /\ PcOK /\ Resolved /\ Analysing
  BY DEF Init, PcOK, Resolved, Analysing
<1>2. FrontOK
  <2>1. package \in Packages /\ item \in 1..(Len(program[package]) + 1)
    BY <1>1, ProgramFacts DEF Init
  <2> QED BY <2>1 DEF Init, Packages, FrontOK
<1>3. Idle
  BY DEF Init, Idle, Packages, Decl
<1> QED BY <1>1, <1>2, <1>3, IdleTyped DEF Typed, FrontOK

-----------------------------------------------------------------------------
(* The steps of the analysis leave the generator idle. *)
LEMMA AnalysisTyped ==
  ASSUME Typed, Analysing, Analysing', PcOK', FrontOK',
         UNCHANGED <<program, builder>>
  PROVE  Typed'
<1>1. program' \in Programs /\ package' \in Packages'
  BY DEF Typed, FrontOK
<1>2. Idle'
  BY DEF Typed, Idle, builder, Packages, Decl
<1>3. Resolved'
  BY DEF Analysing, Resolved
<1>4. (BuilderOK /\ Positions /\ Activations)'
  <2>1. <<>> \in Seq(Symbol') /\ <<>> \in Seq(Activation') /\ Len(<<>>) = 0
    OBVIOUS
  <2>2. modules' \in [Packages' -> Seq(Symbol')] /\ Module' = <<>>
    BY <1>1, <1>2, <2>1 DEF Idle, Module
  <2> QED BY <1>2, <2>1, <2>2 DEF Idle, BuilderOK, Positions, Activations
<1> QED BY <1>1, <1>2, <1>3, <1>4 DEF Typed

LEMMA TypedRegister == Typed /\ RegisterFunctions => Typed'
<1> SUFFICES ASSUME Typed, RegisterFunctions
             PROVE  Typed'
  OBVIOUS
<1>1. ASSUME NEW n \in Name
      PROVE  LastOfName(package, n) \in Decl \cup {NoDecl}
  <2>1. /\ package \in Packages
        /\ program[package] \in Seq(Item) /\ Len(program[package]) \in Nat
    BY ProgramFacts DEF Typed, FrontOK
  <2>2. Own(package, n) \in SUBSET (1..Len(program[package]))
    BY <2>1 DEF Own
  <2>3. Own(package, n) # {} => Greatest(Own(package, n)) \in Own(package, n)
    BY <2>1, <2>2, GreatestExists
  <2> QED BY <2>1, <2>3, DeclFacts DEF LastOfName, Own, Typed
<1>2. context' \in [Packages -> [Name -> Decl \cup {NoDecl}]]
  BY <1>1 DEF RegisterFunctions, Typed, FrontOK
<1>3. FrontOK'
  BY <1>2 DEF RegisterFunctions, Typed, FrontOK, Packages, Decl
<1> QED BY <1>3, AnalysisTyped DEF RegisterFunctions, PcOK, Analysing

LEMMA TypedPrecheckImport == Typed /\ PrecheckImport => Typed'
<1> SUFFICES ASSUME Typed, PrecheckImport
             PROVE  Typed'
  OBVIOUS
<1> DEFINE new == Imported(package, item)
<1>1. /\ package \in Packages /\ item \in DOMAIN program[package]
      /\ program[package] \in Seq(Item)
      /\ program[package][item].from \in Packages
  <2>1. package \in Packages /\ item \in DOMAIN program[package]
    BY DEF Typed, FrontOK, PrecheckImport, Pending
  <2>2. program[package][item].from \in 1..(package - 1)
    BY <2>1, ProgramFacts DEF Typed, PrecheckImport, Here
  <2> QED BY <2>1, <2>2, ProgramFacts DEF Typed
<1>2. new \subseteq Decl
  <2>1. context[program[package][item].from] \in [Name -> Decl \cup {NoDecl}]
    BY <1>1 DEF Typed, FrontOK
  <2> QED BY <2>1 DEF Imported, Range
<1>3. context' \in [Packages -> [Name -> Decl \cup {NoDecl}]]
  <2> DEFINE C(n) == IF \E d \in new : ItemOf(d).name = n
                     THEN CHOOSE d \in new : ItemOf(d).name = n
                     ELSE context[package][n]
  <2>1. \A n \in Name : C(n) \in Decl \cup {NoDecl}
    BY <1>1, <1>2 DEF Typed, FrontOK
  <2>2. context' = [context EXCEPT ![package] = [n \in Name |-> C(n)]]
    BY <1>1 DEF PrecheckImport, Typed, FrontOK
  <2> HIDE DEF C
  <2> QED BY <2>1, <2>2, <1>1 DEF Typed, FrontOK
<1>4. /\ DOMAIN imports' = Packages
      /\ \A p \in Packages : imports'[p] \in [DOMAIN program[p] -> SUBSET Decl]
  <2>1. imports' = [imports EXCEPT ![package][item] = new]
    BY DEF PrecheckImport
  <2> HIDE DEF new
  <2> QED BY <2>1, <1>1, <1>2 DEF Typed, FrontOK
<1>5. item' \in 1..(Len(program[package]) + 1)
  BY <1>1 DEF PrecheckImport
<1>6. FrontOK'
  BY <1>3, <1>4, <1>5 DEF PrecheckImport, Typed, FrontOK, Packages, Decl
<1> QED BY <1>6, AnalysisTyped DEF PrecheckImport, PcOK, Analysing

LEMMA TypedPrecheckOther == Typed /\ (PrecheckFunction \/ PrecheckNext) => Typed'
<1> SUFFICES ASSUME Typed, PrecheckFunction \/ PrecheckNext
             PROVE  Typed'
  OBVIOUS
<1>1. /\ package \in Packages /\ Packages = 1..Len(program)
      /\ Len(program) \in Nat \ {0}
      /\ \A p \in Packages : program[p] \in Seq(Item)
  BY ProgramFacts DEF Typed, FrontOK
<1>2. CASE PrecheckFunction
  <2>1. item' \in 1..(Len(program[package]) + 1)
    BY <1>1, <1>2 DEF PrecheckFunction, Pending, Typed, FrontOK
  <2>2. FrontOK'
    BY <2>1, <1>2 DEF PrecheckFunction, Typed, FrontOK, Packages, Decl, front
  <2> QED BY <1>2, <2>2, AnalysisTyped DEF PrecheckFunction, PcOK, Analysing
<1>3. CASE PrecheckNext
  <2>1. package' \in Packages
    BY <1>1, <1>3 DEF PrecheckNext
  <2>2. item' \in 1..(Len(program[package']) + 1)
    BY <1>1, <2>1, <1>3 DEF PrecheckNext
  <2>3. FrontOK'
    BY <2>1, <2>2, <1>3 DEF PrecheckNext, Typed, FrontOK, Packages, Decl, front
  <2>4. pc' \in {"register", "check"}
    BY <1>3 DEF PrecheckNext
  <2> QED BY <1>3, <2>3, <2>4, AnalysisTyped DEF PrecheckNext, PcOK, Analysing
<1> QED BY <1>2, <1>3

-----------------------------------------------------------------------------
(* The steps of the generator. *)
LEMMA GeneratorTyped ==
  ASSUME Typed, pc = "generate", UNCHANGED <<program, package, front>>,
         pc' \in {"generate", "overflow"},
         item' \in 1..(Len(program[package]) + 1),
         (BuilderOK /\ Positions /\ Activations)'
  PROVE  Typed'
<1>1. PcOK' /\ FrontOK'
  BY DEF Typed, PcOK, FrontOK, front, Packages, Decl
<1>2. Resolved'
  BY DEF Typed, Resolved, front, Decl, Calls, Callee, ItemOf
<1>3. Idle'
  BY DEF Idle, Analysing
<1> QED BY <1>1, <1>2, <1>3 DEF Typed

LEMMA DeclareTyped ==
  ASSUME Typed, NEW d \in Decl, Declare(d), UNCHANGED <<program, package>>
  PROVE  (BuilderOK /\ Positions /\ Activations)'
<1> DEFINE f == Prototype(d, 0)
<1>1. f \in Symbol /\ f.of = d
  BY PrototypeType
<1>2. modules' = [modules EXCEPT ![package] = Append(@, f)]
  BY DEF Declare
<1>3. /\ modules' \in [Packages -> Seq(Symbol)]
      /\ Module' \in Seq(Symbol)
      /\ Len(Module') = Len(Module) + 1
      /\ \A s \in DOMAIN Module : s \in DOMAIN Module' /\ Module'[s] = Module[s]
      /\ Len(Module) + 1 \in DOMAIN Module'
      /\ Module'[Len(Module) + 1] = f
  <2> HIDE DEF f
  <2> QED BY <1>1, <1>2, DeclareType
<1>4. Module \in Seq(Symbol) /\ Len(Module) \in Nat
  BY DEF Typed, FrontOK, BuilderOK, Module
<1>5. /\ cache \in [Decl -> 0..Len(Module)] /\ stack \in Seq(Activation)
      /\ insert \in 0..Len(Module)
  BY DEF Typed, BuilderOK
<1>6. cache' = [cache EXCEPT ![d] = Len(Module) + 1] /\ UNCHANGED <<stack, insert>>
  BY DEF Declare
<1> HIDE DEF f
<1>7. cache' \in [Decl -> 0..Len(Module')] /\ insert' \in 0..Len(Module')
  BY <1>3, <1>4, <1>5, <1>6
<1>8. BuilderOK'
  BY <1>3, <1>5, <1>6, <1>7 DEF BuilderOK, Packages, Symbol, Activation, Decl
<1>9. Positions'
  BY <1>1, <1>3, <1>5, <1>6 DEF Typed, Positions, Decl
<1>10. Activations'
  BY <1>3, <1>6 DEF Typed, Activations, ItemOf
<1> QED BY <1>8, <1>9, <1>10

LEMMA EnterTyped ==
  ASSUME Typed, NEW d \in Decl, ~ItemOf(d).ext, Enter(d), UNCHANGED <<program, package>>
  PROVE  (BuilderOK /\ Positions /\ Activations)'
<1> DEFINE f == [Prototype(d, 0) EXCEPT !.body = TRUE]
           a == [of |-> d, symbol |-> Len(Module) + 1, next |-> 1]
<1>1. f \in Symbol /\ f.of = d
  <2>1. Prototype(d, 0) \in Symbol /\ Prototype(d, 0).of = d
    BY PrototypeType
  <2>2. \A g \in Symbol : /\ [g EXCEPT !.body = TRUE] \in Symbol
                         /\ [g EXCEPT !.body = TRUE].of = g.of
    BY DEF Symbol
  <2> QED BY <2>1, <2>2
<1>2. modules' = [modules EXCEPT ![package] = Append(@, f)]
  BY DEF Enter
<1>3. /\ modules' \in [Packages -> Seq(Symbol)]
      /\ Module' \in Seq(Symbol)
      /\ Len(Module') = Len(Module) + 1
      /\ \A s \in DOMAIN Module : s \in DOMAIN Module' /\ Module'[s] = Module[s]
      /\ Len(Module) + 1 \in DOMAIN Module'
      /\ Module'[Len(Module) + 1] = f
  <2> HIDE DEF f
  <2> QED BY <1>1, <1>2, DeclareType
<1>4. Module \in Seq(Symbol) /\ Len(Module) \in Nat
  BY DEF Typed, FrontOK, BuilderOK, Module
<1>5. /\ cache \in [Decl -> 0..Len(Module)] /\ stack \in Seq(Activation)
      /\ insert \in 0..Len(Module)
  BY DEF Typed, BuilderOK
<1>6. /\ stack' = Append(stack, a)
      /\ insert' = Len(Module) + 1 /\ cache' = cache
  BY DEF Enter
<1>7. a \in Activation /\ a.of = d /\ a.symbol = Len(Module) + 1
  BY <1>4 DEF Activation
<1> HIDE DEF f, a
<1>8. /\ stack' \in Seq(Activation) /\ DOMAIN stack' = 1..(Len(stack) + 1)
      /\ stack'[Len(stack) + 1] = a
      /\ \A i \in DOMAIN stack : stack'[i] = stack[i]
  BY <1>5, <1>6, <1>7
<1>9. cache' \in [Decl -> 0..Len(Module')] /\ insert' \in 0..Len(Module')
  BY <1>3, <1>4, <1>5, <1>6
<1>10. BuilderOK'
  BY <1>3, <1>8, <1>9 DEF BuilderOK, Packages, Symbol, Activation, Decl
<1>11. Positions'
  BY <1>3, <1>6 DEF Typed, Positions, Decl
<1>12. Activations'
  <2> SUFFICES ASSUME NEW i \in DOMAIN stack'
               PROVE  /\ ~ItemOf(stack'[i].of).ext
                      /\ stack'[i].symbol \in DOMAIN Module'
                      /\ Module'[stack'[i].symbol].of = stack'[i].of
                      /\ insert' \in DOMAIN Module'
    BY DEF Activations, ItemOf
  <2>1. CASE i = Len(stack) + 1
    BY <1>1, <1>3, <1>6, <1>7, <1>8, <2>1
  <2>2. CASE i \in DOMAIN stack
    BY <1>3, <1>6, <1>8, <2>2 DEF Typed, Activations
  <2> QED BY <1>5, <1>8, <2>1, <2>2
<1> QED BY <1>10, <1>11, <1>12

LEMMA TopFacts ==
  ASSUME Typed, stack # <<>>
  PROVE  /\ stack \in Seq(Activation) /\ Len(stack) \in Nat \ {0}
         /\ Len(stack) \in DOMAIN stack /\ DOMAIN stack = 1..Len(stack)
         /\ Top = stack[Len(stack)] /\ Top \in Activation
         /\ Top.of \in Decl /\ Top.symbol \in Nat /\ Top.next \in Nat
         /\ insert \in DOMAIN Module
         /\ Top.symbol \in DOMAIN Module /\ Module[Top.symbol].of = Top.of
<1>1. stack \in Seq(Activation)
  BY DEF Typed, BuilderOK
<1>2. /\ Len(stack) \in Nat \ {0} /\ Len(stack) \in DOMAIN stack
      /\ DOMAIN stack = 1..Len(stack)
      /\ stack[Len(stack)] \in Activation
  BY <1>1
<1>3. Top = stack[Len(stack)]
  BY DEF Top, Last
<1> QED BY <1>1, <1>2, <1>3 DEF Typed, Activations, Activation

(* An instruction more at the insertion point. *)
LEMMA PutType ==
  ASSUME Typed, insert \in DOMAIN Module, NEW instruction \in Decl \X Nat,
         Put(instruction), UNCHANGED <<program, package>>
  PROVE  /\ modules' \in [Packages -> Seq(Symbol)]
         /\ Module' \in Seq(Symbol)
         /\ DOMAIN Module' = DOMAIN Module /\ Len(Module') = Len(Module)
         /\ \A s \in DOMAIN Module : /\ Module'[s].of = Module[s].of
                                     /\ Module'[s].body = Module[s].body
                                     /\ s # insert => Module'[s] = Module[s]
         /\ Module'[insert].code = Append(Module[insert].code, instruction)
         /\ \A p \in Packages : p # package => modules'[p] = modules[p]
<1> DEFINE f == [Module[insert] EXCEPT !.code = Append(Module[insert].code, instruction)]
<1>1. /\ Module \in Seq(Symbol) /\ package \in Packages
      /\ modules \in [Packages -> Seq(Symbol)]
  BY DEF Typed, FrontOK, BuilderOK, Module
<1>2. Module[insert] \in Symbol
  BY <1>1
<1>3. Append(Module[insert].code, instruction) \in Seq(Decl \X Nat)
  BY <1>2 DEF Symbol
<1>4. /\ f \in Symbol /\ f.of = Module[insert].of /\ f.body = Module[insert].body
      /\ f.code = Append(Module[insert].code, instruction)
  BY <1>2, <1>3 DEF Symbol
<1>5. modules' = [modules EXCEPT ![package] = [Module EXCEPT ![insert] = f]]
  BY <1>1 DEF Put, Module
<1> HIDE DEF f
<1>6. [Module EXCEPT ![insert] = f] \in Seq(Symbol)
  BY <1>1, <1>4
<1>7. Module' = [Module EXCEPT ![insert] = f]
  BY <1>1, <1>5 DEF Module
<1>8. modules' \in [Packages -> Seq(Symbol)]
  BY <1>1, <1>5, <1>6
<1>9. \A p \in Packages : p # package => modules'[p] = modules[p]
  BY <1>1, <1>5
<1> QED BY <1>1, <1>4, <1>6, <1>7, <1>8, <1>9

(* The callee of the call under way. *)
LEMMA CalledFacts ==
  ASSUME Typed, Calling
  PROVE  Called \in Decl /\ Top.next \in Calls(Top.of) /\ Called = Callee(Top.of, Top.next)
<1>1. stack # <<>> /\ pc = "generate" /\ Top.next \in DOMAIN ItemOf(Top.of).calls
  BY DEF Calling
<1>2. Top.of \in Decl /\ ~ItemOf(Top.of).ext
  BY <1>1, TopFacts DEF Typed, Activations
<1>3. Callee(Top.of, Top.next) \in Decl \cup {NoDecl}
  BY <1>1, <1>2, CalleeType
<1>4. Top.next \in Calls(Top.of)
  BY <1>1, <1>2 DEF Calls
<1> QED BY <1>1, <1>2, <1>3, <1>4 DEF Typed, Resolved, Called

LEMMA EmitTyped == Typed /\ EmitCall => Typed'
<1> SUFFICES ASSUME Typed, EmitCall
             PROVE  Typed'
  OBVIOUS
<1>1. stack # <<>> /\ pc = "generate"
  BY DEF EmitCall, Calling
<1>2. Called \in Decl
  BY CalledFacts DEF EmitCall
<1>3. /\ UNCHANGED <<program, package, front>>
      /\ pc' = pc /\ item' = item /\ cache' = cache /\ insert' = insert
  BY DEF EmitCall
<1>4. /\ cache \in [Decl -> 0..Len(Module)] /\ Len(Module) \in Nat
      /\ insert \in 0..Len(Module)
  <2>1. Module \in Seq(Symbol)
    BY DEF Typed, FrontOK, BuilderOK, Module
  <2> QED BY <2>1 DEF Typed, BuilderOK
<1>5. <<Top.of, cache[Called]>> \in Decl \X Nat
  BY <1>1, <1>2, <1>4, TopFacts
<1>6. /\ modules' \in [Packages -> Seq(Symbol)]
      /\ DOMAIN Module' = DOMAIN Module /\ Len(Module') = Len(Module)
      /\ \A s \in DOMAIN Module : Module'[s].of = Module[s].of
  BY <1>1, <1>5, TopFacts, PutType DEF EmitCall
<1>7. /\ stack' \in Seq(Activation) /\ DOMAIN stack' = DOMAIN stack
      /\ \A i \in DOMAIN stack : stack'[i].of = stack[i].of /\ stack'[i].symbol = stack[i].symbol
  <2> DEFINE t == [Top EXCEPT !.next = @ + 1]
  <2>1. t \in Activation /\ t.of = Top.of /\ t.symbol = Top.symbol
    BY <1>1, TopFacts DEF Activation
  <2>2. stack' = [stack EXCEPT ![Len(stack)] = t]
    BY <1>1, TopFacts DEF EmitCall
  <2> HIDE DEF t
  <2>3. stack \in Seq(Activation) /\ Len(stack) \in DOMAIN stack /\ Top = stack[Len(stack)]
    BY <1>1, TopFacts
  <2> QED BY <2>1, <2>2, <2>3
<1>8. cache' \in [Decl -> 0..Len(Module')] /\ insert' \in 0..Len(Module')
  <2>1. Len(Module') = Len(Module)
    BY <1>6
  <2> QED BY <1>3, <1>4, <2>1
<1>9. BuilderOK'
  BY <1>3, <1>6, <1>7, <1>8 DEF BuilderOK, Packages, Symbol, Activation, Decl
<1>10. Positions'
  BY <1>3, <1>6 DEF Typed, Positions, Decl
<1>11. Activations'
  BY <1>3, <1>6, <1>7 DEF Typed, Activations, ItemOf
<1>12. item' \in 1..(Len(program[package]) + 1)
  BY <1>3 DEF Typed, FrontOK
<1> QED BY <1>1, <1>3, <1>9, <1>10, <1>11, <1>12, GeneratorTyped

LEMMA LeaveTyped == Typed /\ LeaveFunction => Typed'
<1> SUFFICES ASSUME Typed, LeaveFunction
             PROVE  Typed'
  OBVIOUS
<1>1. stack # <<>> /\ pc = "generate"
  BY DEF LeaveFunction
<1>2. /\ UNCHANGED <<program, package, front>>
      /\ pc' = pc /\ item' = item /\ insert' = insert
      /\ cache' = [cache EXCEPT ![Top.of] = Top.symbol]
  BY DEF LeaveFunction
<1>3. <<Top.of, 0>> \in Decl \X Nat
  BY <1>1, TopFacts
<1>4. /\ modules' \in [Packages -> Seq(Symbol)]
      /\ DOMAIN Module' = DOMAIN Module /\ Len(Module') = Len(Module)
      /\ \A s \in DOMAIN Module : Module'[s].of = Module[s].of
  BY <1>1, <1>3, TopFacts, PutType DEF LeaveFunction
<1>5. /\ stack' \in Seq(Activation) /\ DOMAIN stack' \subseteq DOMAIN stack
      /\ \A i \in DOMAIN stack' : stack'[i] = stack[i]
  BY <1>1, TopFacts DEF LeaveFunction
<1>6. /\ cache \in [Decl -> 0..Len(Module)] /\ Top.symbol \in 1..Len(Module)
      /\ Len(Module) \in Nat /\ insert \in 0..Len(Module)
  <2>1. Module \in Seq(Symbol)
    BY DEF Typed, FrontOK, BuilderOK, Module
  <2> QED BY <1>1, <2>1, TopFacts DEF Typed, BuilderOK
<1>7. cache' \in [Decl -> 0..Len(Module')] /\ insert' \in 0..Len(Module')
  <2>1. Len(Module') = Len(Module)
    BY <1>4
  <2>2. \A d \in Decl : cache'[d] \in 0..Len(Module)
    BY <1>2, <1>6
  <2>3. cache' \in [Decl -> 0..Len(Module)]
    BY <1>2, <1>6, <2>2
  <2> QED BY <1>2, <1>6, <2>1, <2>3
<1>8. BuilderOK'
  BY <1>2, <1>4, <1>5, <1>7 DEF BuilderOK, Packages, Symbol, Activation, Decl
<1>9. Positions'
  BY <1>1, <1>2, <1>4, <1>6, TopFacts DEF Typed, Positions, Decl
<1>10. Activations'
  BY <1>2, <1>4, <1>5 DEF Typed, Activations, ItemOf
<1>11. item' \in 1..(Len(program[package]) + 1)
  BY <1>2 DEF Typed, FrontOK
<1> QED BY <1>1, <1>2, <1>8, <1>9, <1>10, <1>11, GeneratorTyped

(* The prototypes of an import statement, in any order. *)
LEMMA ImportTyped ==
  ASSUME Typed, NEW S \in SUBSET Decl, NEW order \in Orders(S),
         modules' = [modules EXCEPT ![package] =
            @ \o [k \in DOMAIN order |->
                    Prototype(order[k], Cardinality({j \in 1..(k - 1) : Taken(order[j])}))]],
         cache' \in [Decl -> Nat],
         \A d \in S : \E k \in DOMAIN order :
           order[k] = d /\ cache'[d] = Len(Module) + k,
         \A d \in Decl \ S : cache'[d] = cache[d],
         UNCHANGED <<program, package, stack, insert>>
  PROVE  /\ (BuilderOK /\ Positions /\ Activations)'
         /\ Module' \in Seq(Symbol)
         /\ \A s \in DOMAIN Module : s \in DOMAIN Module' /\ Module'[s] = Module[s]
         /\ \A s \in DOMAIN Module' \ DOMAIN Module : ~Module'[s].body
         /\ \A p \in Packages : p # package => modules'[p] = modules[p]
         /\ \A d \in S : cache'[d] # 0
         /\ \A d \in Decl : cache[d] # 0 => cache'[d] # 0
<1> DEFINE n == Cardinality(S)
           B(k) == Cardinality({j \in 1..(k - 1) : Taken(order[j])})
           P(k) == Prototype(order[k], B(k))
           new == [k \in DOMAIN order |-> P(k)]
<1>1. n \in Nat
  BY ProgramFacts, FS_Subset, FS_CardinalityType DEF Typed
<1>2. /\ order \in [1..n -> S] /\ DOMAIN order = 1..n
      /\ \A d \in S : \E k \in 1..n : order[k] = d
  BY DEF Orders, Bijection, Surjection, Injection
<1> HIDE DEF n
<1>3. ASSUME NEW k \in 1..n
      PROVE  B(k) \in Nat
  <2>1. PICK m \in Int : m = k - 1
    BY <1>1
  <2>2. IsFiniteSet(1..(k - 1))
    <3>1. \A a, b \in Int : IsFiniteSet(a..b)
      BY ONLY FS_Interval
    <3> QED BY <2>1, <3>1
  <2>3. {j \in 1..(k - 1) : Taken(order[j])} \subseteq 1..(k - 1)
    OBVIOUS
  <2> QED BY <2>2, <2>3, FS_Subset, FS_CardinalityType
<1> HIDE DEF B
<1>4. \A k \in 1..n : P(k) \in Symbol /\ P(k).of = order[k] /\ ~P(k).body
  BY <1>2, <1>3, PrototypeType
<1> HIDE DEF P
<1>5. /\ new \in Seq(Symbol) /\ DOMAIN new = 1..n /\ Len(new) = n
      /\ \A k \in 1..n : new[k].of = order[k] /\ ~new[k].body
  <2>1. new \in [1..n -> Symbol] /\ \A k \in 1..n : new[k] = P(k)
    BY <1>2, <1>4
  <2> HIDE DEF new
  <2>2. new \in Seq(Symbol)
    BY <1>1, <2>1
  <2>3. DOMAIN new = 1..n /\ Len(new) = n
    BY <1>1, <2>1, <2>2
  <2> QED BY <1>4, <2>1, <2>2, <2>3
<1>6. /\ Module \in Seq(Symbol) /\ package \in Packages /\ Len(Module) \in Nat
      /\ modules \in [Packages -> Seq(Symbol)]
      /\ cache \in [Decl -> 0..Len(Module)] /\ insert \in 0..Len(Module)
      /\ stack \in Seq(Activation)
  BY DEF Typed, FrontOK, BuilderOK, Module
<1>7. modules' = [modules EXCEPT ![package] = Module \o new]
  BY <1>6 DEF Module, P, B
<1> HIDE DEF new
<1>8. /\ Module \o new \in Seq(Symbol) /\ Len(Module \o new) = Len(Module) + n
      /\ \A s \in 1..Len(Module) : (Module \o new)[s] = Module[s]
      /\ \A k \in 1..n : (Module \o new)[Len(Module) + k] = new[k]
  <2>1. \A i \in 1..(Len(Module) + Len(new)) :
          (Module \o new)[i] = IF i <= Len(Module) THEN Module[i] ELSE new[i - Len(Module)]
    BY <1>5, <1>6, ConcatProperties
  <2>2. Module \o new \in Seq(Symbol) /\ Len(Module \o new) = Len(Module) + Len(new)
    <3>1. new \in Seq(Symbol) /\ Module \in Seq(Symbol)
      BY <1>5, <1>6
    <3> QED BY ONLY <3>1, ConcatProperties
  <2> QED BY <1>1, <1>5, <1>6, <2>1, <2>2
<1>9. Module' = Module \o new
  BY <1>6, <1>7 DEF Module
<1>10. /\ modules' \in [Packages -> Seq(Symbol)]
       /\ \A p \in Packages : p # package => modules'[p] = modules[p]
  BY <1>6, <1>7, <1>8
<1>11. /\ Module' \in Seq(Symbol) /\ Len(Module') = Len(Module) + n
       /\ \A s \in DOMAIN Module : s \in DOMAIN Module' /\ Module'[s] = Module[s]
       /\ \A k \in 1..n : /\ Len(Module) + k \in DOMAIN Module'
                          /\ Module'[Len(Module) + k] = new[k]
  BY <1>1, <1>6, <1>8, <1>9
<1>12. \A s \in DOMAIN Module' \ DOMAIN Module : ~Module'[s].body
  <2> SUFFICES ASSUME NEW s \in DOMAIN Module' \ DOMAIN Module
               PROVE  ~Module'[s].body
    OBVIOUS
  <2>1. s - Len(Module) \in 1..n /\ s = Len(Module) + (s - Len(Module))
    BY <1>1, <1>6, <1>11
  <2> QED BY <1>5, <1>11, <2>1
<1>13. ASSUME NEW d \in S
       PROVE  /\ cache'[d] \in 1..Len(Module')
              /\ Module'[cache'[d]].of = d
  <2>1. PICK k \in 1..n : order[k] = d /\ cache'[d] = Len(Module) + k
    BY <1>2
  <2> QED BY <1>1, <1>5, <1>6, <1>11, <2>1
<1>14. \A d \in Decl \ S : cache'[d] = cache[d]
  OBVIOUS
<1>15. cache' \in [Decl -> 0..Len(Module')] /\ insert' \in 0..Len(Module')
  <2>1. \A d \in Decl : cache'[d] \in 0..Len(Module')
    <3>1. \A d \in S : cache'[d] \in 0..Len(Module')
      BY <1>1, <1>6, <1>11, <1>13
    <3>2. \A d \in Decl \ S : cache'[d] \in 0..Len(Module')
      <4>1. \A d \in Decl : cache[d] \in 0..Len(Module)
        BY <1>6
      <4>2. Len(Module) <= Len(Module') /\ Len(Module') \in Nat
        BY <1>1, <1>6, <1>11
      <4> QED BY <1>6, <1>14, <4>1, <4>2
    <3> QED BY <3>1, <3>2
  <2> QED BY <1>1, <1>6, <1>11, <2>1
<1>16. BuilderOK'
  BY <1>6, <1>10, <1>15 DEF BuilderOK, Packages, Symbol, Activation, Decl
<1>17. Positions'
  <2> SUFFICES ASSUME NEW d \in Decl, cache'[d] # 0
               PROVE  cache'[d] \in DOMAIN Module' /\ Module'[cache'[d]].of = d
    BY DEF Positions, Decl
  <2>1. CASE d \in S
    BY <1>11, <1>13, <2>1
  <2>2. CASE d \notin S
    BY <1>11, <1>14, <2>2 DEF Typed, Positions
  <2> QED BY <2>1, <2>2
<1>18. Activations'
  BY <1>11 DEF Typed, Activations, ItemOf
<1>19. /\ \A d \in S : cache'[d] # 0
       /\ \A d \in Decl : cache[d] # 0 => cache'[d] # 0
  BY <1>13, <1>14
<1> QED BY <1>10, <1>11, <1>12, <1>16, <1>17, <1>18, <1>19

(* The item looked at, and the one after it. *)
LEMMA HereFacts ==
  ASSUME Typed, Pending
  PROVE  /\ item \in DOMAIN program[package] /\ item + 1 \in 1..(Len(program[package]) + 1)
         /\ Here.do = "fn" => /\ <<package, item>> \in Decl
                              /\ ItemOf(<<package, item>>) = Here
         /\ imports[package][item] \in SUBSET Decl
<1>1. package \in Packages /\ item \in DOMAIN program[package]
  BY DEF Typed, FrontOK, Pending
<1>2. program[package] \in Seq(Item)
  BY <1>1, ProgramFacts DEF Typed
<1>3. Here.do = "fn" => <<package, item>> \in Decl
  BY <1>1, DeclFacts DEF Typed, Here
<1>4. imports[package][item] \in SUBSET Decl
  BY <1>1 DEF Typed, FrontOK
<1> QED BY <1>1, <1>2, <1>3, <1>4 DEF ItemOf, Here

LEMMA ImportFacts ==
  ASSUME Typed, VisitImport
  PROVE  /\ (BuilderOK /\ Positions /\ Activations)'
         /\ Module' \in Seq(Symbol)
         /\ \A s \in DOMAIN Module : s \in DOMAIN Module' /\ Module'[s] = Module[s]
         /\ \A s \in DOMAIN Module' \ DOMAIN Module : ~Module'[s].body
         /\ \A p \in Packages : p # package => modules'[p] = modules[p]
         /\ \A d \in imports[package][item] : cache'[d] # 0
         /\ \A d \in Decl : cache[d] # 0 => cache'[d] # 0
<1> DEFINE S == imports[package][item]
<1>1. S \in SUBSET Decl
  BY HereFacts DEF VisitImport, Generating
<1>2. PICK order \in Orders(S) :
        /\ modules' = [modules EXCEPT ![package] =
             @ \o [k \in DOMAIN order |->
                     Prototype(order[k], Cardinality({j \in 1..(k - 1) : Taken(order[j])}))]]
        /\ cache' = [d \in Decl |->
             IF d \in S THEN Len(Module) + CHOOSE k \in DOMAIN order : order[k] = d
             ELSE cache[d]]
  BY DEF VisitImport
<1>3. Len(Module) \in Nat /\ cache \in [Decl -> 0..Len(Module)]
  <2>1. Module \in Seq(Symbol)
    BY DEF Typed, FrontOK, BuilderOK, Module
  <2> QED BY <2>1 DEF Typed, BuilderOK
<1>4. DOMAIN order = 1..Cardinality(S) /\ Cardinality(S) \in Nat
  BY <1>1, ProgramFacts, FS_Subset, FS_CardinalityType
     DEF Typed, Orders, Bijection, Surjection, Injection
<1>5. ASSUME NEW d \in S
      PROVE  \E k \in DOMAIN order : order[k] = d /\ cache'[d] = Len(Module) + k
  <2> DEFINE k == CHOOSE i \in DOMAIN order : order[i] = d
  <2>1. k \in DOMAIN order /\ order[k] = d
    BY DEF Orders, Bijection, Surjection, Injection
  <2>2. cache'[d] = Len(Module) + k
    BY <1>1, <1>2
  <2> HIDE DEF k
  <2> QED BY <2>1, <2>2
<1>6. \A d \in Decl \ S : cache'[d] = cache[d]
  BY <1>2
<1>7. cache' \in [Decl -> Nat]
  <2>1. DOMAIN cache' = Decl /\ cache' = [d \in Decl |-> cache'[d]]
    BY <1>2
  <2>2. \A d \in Decl : cache'[d] \in Nat
    BY <1>3, <1>4, <1>5, <1>6
  <2> QED BY <2>1, <2>2
<1>8. UNCHANGED <<program, package, stack, insert>>
  BY DEF VisitImport
<1>9. modules' = [modules EXCEPT ![package] =
        @ \o [k \in DOMAIN order |->
                Prototype(order[k], Cardinality({j \in 1..(k - 1) : Taken(order[j])}))]]
  BY <1>2
<1>10. S = imports[package][item]
  OBVIOUS
<1> HIDE DEF S
<1> QED BY ZenonT(40), <1>1, <1>5, <1>6, <1>7, <1>8, <1>9, <1>10, ImportTyped

LEMMA VisitTyped ==
  Typed /\ (VisitImport \/ VisitExternal \/ VisitFunction \/ VisitCached) => Typed'
<1> SUFFICES ASSUME Typed, VisitImport \/ VisitExternal \/ VisitFunction \/ VisitCached
             PROVE  Typed'
  OBVIOUS
<1>1. Pending /\ pc = "generate"
  BY DEF VisitImport, VisitExternal, VisitFunction, VisitCached, Generating
<1>2. /\ UNCHANGED <<program, package, front>>
      /\ pc' = pc /\ item' = item + 1
  BY DEF VisitImport, VisitExternal, VisitFunction, VisitCached
<1>3. (BuilderOK /\ Positions /\ Activations)'
  <2>1. CASE VisitImport
    BY <1>1, <2>1, ImportFacts
  <2>2. CASE VisitExternal
    BY <1>1, <1>2, <2>2, HereFacts, DeclareTyped DEF VisitExternal
  <2>3. CASE VisitFunction
    BY <1>1, <1>2, <2>3, HereFacts, EnterTyped DEF VisitFunction
  <2>4. CASE VisitCached
    BY <1>2, <2>4 DEF VisitCached, Typed, BuilderOK, Positions, Activations, builder,
                      Packages, Decl, Symbol, Activation, Module, ItemOf
  <2> QED BY <2>1, <2>2, <2>3, <2>4
<1>4. item' \in 1..(Len(program[package]) + 1)
  BY <1>1, <1>2, HereFacts
<1> QED BY <1>1, <1>2, <1>3, <1>4, GeneratorTyped

LEMMA CallTyped ==
  Typed /\ (DeclareCalled \/ EnterCalled \/ Overflow) => Typed'
<1> SUFFICES ASSUME Typed, DeclareCalled \/ EnterCalled \/ Overflow
             PROVE  Typed'
  OBVIOUS
<1>1. Calling /\ pc = "generate" /\ Called \in Decl
  BY CalledFacts DEF DeclareCalled, EnterCalled, Overflow, Calling
<1>2. /\ UNCHANGED <<program, package, front>>
      /\ pc' \in {"generate", "overflow"} /\ item' = item
  BY <1>1 DEF DeclareCalled, EnterCalled, Overflow
<1>3. (BuilderOK /\ Positions /\ Activations)'
  <2>1. CASE DeclareCalled
    BY <1>1, <1>2, <2>1, DeclareTyped DEF DeclareCalled
  <2>2. CASE EnterCalled
    BY <1>1, <1>2, <2>2, EnterTyped DEF EnterCalled
  <2>3. CASE Overflow
    BY <1>2, <2>3 DEF Overflow, Typed, BuilderOK, Positions, Activations, builder,
                      Packages, Decl, Symbol, Activation, Module, ItemOf
  <2> QED BY <2>1, <2>2, <2>3
<1>4. item' \in 1..(Len(program[package]) + 1)
  BY <1>2 DEF Typed, FrontOK
<1> QED BY <1>1, <1>2, <1>3, <1>4, GeneratorTyped

LEMMA TypedCheckCalls == Typed /\ CheckCalls => Typed'
<1> SUFFICES ASSUME Typed, CheckCalls
             PROVE  Typed'
  OBVIOUS
<1>1. /\ UNCHANGED <<program, package, item, front, builder>>
      /\ pc = "check" /\ pc' \in {"generate", "unknown"}
      /\ pc' = "generate" => \A d \in Decl : \A k \in Calls(d) : Callee(d, k) # NoDecl
  BY DEF CheckCalls
<1>2. FrontOK' /\ PcOK' /\ (BuilderOK /\ Positions /\ Activations)'
  BY <1>1 DEF Typed, PcOK, FrontOK, BuilderOK, Positions, Activations, front, builder,
              Packages, Decl, Symbol, Activation, Module, ItemOf
<1>3. Resolved'
  BY <1>1 DEF Resolved, front, Decl, Calls, Callee, ItemOf
<1>4. Idle'
  BY <1>1 DEF Typed, Idle, Analysing, builder, Packages, Decl
<1> QED BY <1>1, <1>2, <1>3, <1>4 DEF Typed

LEMMA TypedNextPackage == Typed /\ NextPackage => Typed'
<1> SUFFICES ASSUME Typed, NextPackage
             PROVE  Typed'
  OBVIOUS
<1>1. /\ UNCHANGED <<program, front, modules, stack>>
      /\ pc = "generate" /\ pc' \in {"generate", "done"} /\ stack = <<>>
      /\ package' \in {package, package + 1} /\ (package' = package + 1 => package < Len(program))
      /\ item' = 1 /\ insert' = 0 /\ cache' = [d \in Decl |-> 0]
  <2>1. /\ UNCHANGED <<program, front, modules, stack>>
        /\ pc = "generate" /\ stack = <<>>
        /\ item' = 1 /\ insert' = 0 /\ cache' = [d \in Decl |-> 0]
    BY DEF NextPackage
  <2>2. package \in Int
    BY ProgramFacts DEF Typed, FrontOK
  <2>3. /\ pc' \in {"generate", "done"} /\ package' \in {package, package + 1}
        /\ (package' = package + 1 => package < Len(program))
    BY <2>2 DEF NextPackage
  <2> QED BY <2>1, <2>3
<1>2. package' \in Packages
  BY <1>1, ProgramFacts DEF Typed, FrontOK
<1>3. item' \in 1..(Len(program[package']) + 1)
  BY <1>1, <1>2, ProgramFacts DEF Typed
<1>4. FrontOK' /\ PcOK'
  BY <1>1, <1>2, <1>3 DEF Typed, FrontOK, PcOK, front, Packages, Decl
<1>5. Module' \in Seq(Symbol) /\ Len(Module') \in Nat
  BY <1>1, <1>2 DEF Typed, BuilderOK, Module
<1>6. BuilderOK'
  <2>1. \A n \in Nat : 0 \in 0..n /\ cache' \in [Decl -> 0..n]
    BY <1>1
  <2>2. cache' \in [Decl -> 0..Len(Module')] /\ insert' \in 0..Len(Module')
    BY <1>1, <1>5, <2>1
  <2>3. modules \in [Packages -> Seq(Symbol)] /\ stack \in Seq(Activation)
    BY DEF Typed, BuilderOK
  <2> QED BY <1>1, <2>2, <2>3 DEF BuilderOK, Packages, Symbol, Activation, Decl
<1>7. Positions' /\ Activations'
  BY <1>1 DEF Positions, Activations, Decl
<1>8. Resolved'
  BY <1>1 DEF Typed, Resolved, front, Decl, Calls, Callee, ItemOf
<1>9. Idle'
  BY <1>1 DEF Idle, Analysing
<1> QED BY <1>1, <1>4, <1>6, <1>7, <1>8, <1>9 DEF Typed

LEMMA TypedNext == Typed /\ [Next]_vars => Typed'
<1> SUFFICES ASSUME Typed, [Next]_vars
             PROVE  Typed'
  OBVIOUS
<1>1. CASE UNCHANGED vars
  BY <1>1 DEF Typed, PcOK, FrontOK, BuilderOK, Positions, Activations, Resolved, Idle,
              Analysing, vars, front, builder, Packages, Decl, Symbol, Activation, Module,
              ItemOf, Calls, Callee
<1>2. CASE Next
  BY <1>2, TypedRegister, TypedPrecheckImport, TypedPrecheckOther, TypedCheckCalls,
     VisitTyped, CallTyped, EmitTyped, LeaveTyped, TypedNextPackage DEF Next
<1> QED BY <1>1, <1>2

(* Whatever the packages are, the variables keep their types: the context  *)
(* holds declarations of the program, and neither the value cache, nor an  *)
(* activation, nor the insertion point leads out of the module under way   *)
(* (context.cpp, code_generator.cpp:1142-1255).                            *)
THEOREM TypeCorrect == Spec => []TypeOK
<1>1. Spec => []Typed
  BY TypedInit, TypedNext, PTL DEF Spec
<1> QED BY <1>1, TypedIsTypeOK, PTL
-----------------------------------------------------------------------------
(* What the generator keeps for a package whose functions are declared     *)
(* before they are called.                                                 *)
IsPart(f, p, n) ==
  /\ Len(f.code) = n
  /\ \A k \in 1..n :
       /\ f.code[k][1] = f.of
       /\ f.code[k][2] \in DOMAIN modules[p]
       /\ modules[p][f.code[k][2]].of = Callee(f.of, k)

(* The cache knows every item that was visited, but the function whose     *)
(* body is under way.                                                      *)
Seen ==
  \A j \in 1..(item - 1) :
    /\ program[package][j].do = "fn" =>
         cache[<<package, j>>] # 0 \/ (stack # <<>> /\ j = item - 1)
    /\ program[package][j].do = "import" =>
         \A d \in imports[package][j] : cache[d] # 0

(* There is at most one activation, of the last item, and the builder is   *)
(* in its block.                                                           *)
UnderWay ==
  /\ Len(stack) = 1
  /\ stack[1].of = <<package, item - 1>>
  /\ insert = stack[1].symbol
  /\ Module[insert].body
  /\ stack[1].next \in 1..(Len(ItemOf(stack[1].of).calls) + 1)
  /\ IsPart(Module[insert], package, stack[1].next - 1)

RestWhole ==
  \A s \in DOMAIN Module :
    Module[s].body /\ (stack # <<>> => s # stack[1].symbol) => IsWhole(Module[s], package)

Current ==
  pc = "generate" /\ DeclaredFirst(package) =>
    Seen /\ RestWhole /\ (stack # <<>> => UnderWay)

Past == \A p \in Packages : Generated(p) /\ DeclaredFirst(p) => Whole(p)
Over == pc = "overflow" => ~DeclaredFirst(package)

(* The modules of packages to come are empty. *)
Fresh ==
  /\ pc = "check" => item = 1
  /\ pc = "generate" => \A p \in Packages : p > package => modules[p] = <<>>

Orderly == Fresh /\ Current /\ Past /\ Over

(* The module under way only grows. *)
Grown ==
  /\ \A s \in DOMAIN Module : s \in DOMAIN Module' /\ Module'[s] = Module[s]
  /\ \A p \in Packages : p # package => modules'[p] = modules[p]
  /\ \A d \in Decl : cache[d] # 0 => cache'[d] # 0

LEMMA DeclareGrows ==
  ASSUME Typed, NEW d \in Decl, Declare(d), UNCHANGED <<program, package>>
  PROVE  /\ Grown
         /\ \A s \in DOMAIN Module' \ DOMAIN Module : ~Module'[s].body
         /\ cache'[d] # 0
<1> DEFINE f == Prototype(d, 0)
<1>1. f \in Symbol /\ f.of = d /\ ~f.body
  BY PrototypeType
<1>2. modules' = [modules EXCEPT ![package] = Append(@, f)]
  BY DEF Declare
<1> HIDE DEF f
<1>3. /\ Module' \in Seq(Symbol) /\ Len(Module') = Len(Module) + 1
      /\ \A s \in DOMAIN Module : s \in DOMAIN Module' /\ Module'[s] = Module[s]
      /\ Module'[Len(Module) + 1] = f
      /\ \A p \in Packages : p # package => modules'[p] = modules[p]
  BY <1>1, <1>2, DeclareType
<1>4. Module \in Seq(Symbol) /\ Len(Module) \in Nat /\ cache \in [Decl -> 0..Len(Module)]
  BY DEF Typed, FrontOK, BuilderOK, Module
<1>5. cache' = [cache EXCEPT ![d] = Len(Module) + 1]
  BY DEF Declare
<1>6. \A s \in DOMAIN Module' \ DOMAIN Module : s = Len(Module) + 1
  BY <1>3, <1>4
<1>7. Grown
  BY <1>3, <1>4, <1>5 DEF Grown
<1> QED BY <1>1, <1>3, <1>4, <1>5, <1>6, <1>7

LEMMA EnterGrows ==
  ASSUME Typed, NEW d \in Decl, Enter(d), UNCHANGED <<program, package>>
  PROVE  /\ Grown
         /\ Len(Module) + 1 \in DOMAIN Module'
         /\ \A s \in DOMAIN Module' \ DOMAIN Module : s = Len(Module) + 1
         /\ Module'[Len(Module) + 1].of = d
         /\ Module'[Len(Module) + 1].body
         /\ Module'[Len(Module) + 1].code = <<>>
<1> DEFINE f == [Prototype(d, 0) EXCEPT !.body = TRUE]
<1>1. f \in Symbol /\ f.of = d /\ f.body /\ f.code = <<>>
  <2>1. /\ Prototype(d, 0) \in Symbol /\ Prototype(d, 0).of = d
        /\ Prototype(d, 0).code = <<>>
    BY PrototypeType
  <2>2. \A g \in Symbol : /\ [g EXCEPT !.body = TRUE] \in Symbol
                         /\ [g EXCEPT !.body = TRUE].of = g.of
                         /\ [g EXCEPT !.body = TRUE].body
                         /\ [g EXCEPT !.body = TRUE].code = g.code
    BY DEF Symbol
  <2> QED BY <2>1, <2>2
<1>2. modules' = [modules EXCEPT ![package] = Append(@, f)] /\ cache' = cache
  BY DEF Enter
<1> HIDE DEF f
<1>3. /\ Module' \in Seq(Symbol) /\ Len(Module') = Len(Module) + 1
      /\ \A s \in DOMAIN Module : s \in DOMAIN Module' /\ Module'[s] = Module[s]
      /\ Len(Module) + 1 \in DOMAIN Module' /\ Module'[Len(Module) + 1] = f
      /\ \A p \in Packages : p # package => modules'[p] = modules[p]
  BY <1>1, <1>2, DeclareType
<1>4. Module \in Seq(Symbol) /\ Len(Module) \in Nat
  BY DEF Typed, FrontOK, BuilderOK, Module
<1>5. \A s \in DOMAIN Module' \ DOMAIN Module : s = Len(Module) + 1
  BY <1>3, <1>4
<1>6. Grown
  BY <1>2, <1>3 DEF Grown
<1> QED BY <1>1, <1>3, <1>5, <1>6

(* What the analysis found stays as it is while code is generated. *)
LEMMA FrontKept ==
  ASSUME UNCHANGED <<program, front>>
  PROVE  /\ Packages' = Packages
         /\ \A p : DeclaredFirst(p)' <=> DeclaredFirst(p)
         /\ \A d : ItemOf(d)' = ItemOf(d)
         /\ \A d, k : Callee(d, k)' = Callee(d, k)
<1>1. program' = program /\ context' = context /\ imports' = imports
  BY DEF front
<1>2. \A d : ItemOf(d)' = ItemOf(d)
  BY <1>1 DEF ItemOf
<1>3. \A d, k : Callee(d, k)' = Callee(d, k)
  BY <1>1 DEF ItemOf, Callee
<1>4. \A p : DeclaredFirst(p)' <=> DeclaredFirst(p)
  BY <1>1 DEF DeclaredFirst, ItemOf, Callee, Calls
<1> QED BY <1>1, <1>2, <1>3, <1>4 DEF Packages

(* As long as symbols stay what they are, whole bodies stay whole. *)
LEMMA BodiesKept ==
  ASSUME UNCHANGED <<program, package, front>>,
         \A s \in DOMAIN Module : s \in DOMAIN Module' /\ Module'[s].of = Module[s].of
  PROVE  \A s \in DOMAIN Module :
           /\ s \in DOMAIN Module'
           /\ Module'[s] = Module[s] /\ IsWhole(Module[s], package)
              => IsWhole(Module[s], package)'
<1> SUFFICES ASSUME NEW s \in DOMAIN Module,
                    Module'[s] = Module[s], IsWhole(Module[s], package)
             PROVE  IsWhole(Module[s], package)'
  OBVIOUS
<1>1. program' = program /\ context' = context /\ package' = package
  BY DEF front
<1>2. /\ modules[package] = Module /\ modules'[package] = Module'
  BY <1>1 DEF Module
<1> DEFINE f == Module[s]
           calls == ItemOf(f.of).calls
<1>3. /\ Len(f.code) = Len(calls) + 1
      /\ f.code[Len(calls) + 1] = <<f.of, 0>>
      /\ \A k \in DOMAIN calls :
           /\ f.code[k][1] = f.of
           /\ f.code[k][2] \in DOMAIN Module
           /\ Module[f.code[k][2]].of = Callee(f.of, k)
  BY <1>2 DEF IsWhole
<1>4. /\ f' = f /\ calls' = calls
      /\ \A k : Callee(f.of, k)' = Callee(f.of, k)
  BY <1>1 DEF ItemOf, Callee
<1>5. \A k \in DOMAIN calls :
        /\ f.code[k][2] \in DOMAIN Module'
        /\ Module'[f.code[k][2]].of = Callee(f.of, k)
  BY <1>3
<1>6. (/\ Len(f.code) = Len(calls) + 1
       /\ f.code[Len(calls) + 1] = <<f.of, 0>>
       /\ \A k \in DOMAIN calls :
            /\ f.code[k][1] = f.of
            /\ f.code[k][2] \in DOMAIN modules[package]
            /\ modules[package][f.code[k][2]].of = Callee(f.of, k))'
  <2> HIDE DEF f, calls
  <2>1. /\ Len(f'.code) = Len(calls') + 1
        /\ f'.code[Len(calls') + 1] = <<f'.of, 0>>
    BY <1>3, <1>4
  <2>2. ASSUME NEW k \in DOMAIN calls'
        PROVE  /\ f'.code[k][1] = f'.of
               /\ f'.code[k][2] \in DOMAIN modules'[package']
               /\ modules'[package'][f'.code[k][2]].of = Callee(f.of, k)'
    BY <1>2, <1>3, <1>4, <1>5, <1>1, <2>2
  <2> QED BY <2>1, <2>2
<1> QED BY <1>6 DEF IsWhole

LEMMA WholeKept ==
  ASSUME UNCHANGED <<program, front, modules>>
  PROVE  \A p : Whole(p) => Whole(p)'
<1>1. program' = program /\ context' = context /\ modules' = modules
  BY DEF front
<1>2. \A p, f : IsWhole(f, p) => IsWhole(f, p)'
  BY <1>1 DEF IsWhole, ItemOf, Callee
<1> QED BY <1>1, <1>2 DEF Whole

LEMMA PastKept ==
  ASSUME Typed, Orderly, pc = "generate", pc' = "generate",
         UNCHANGED <<program, package, front>>,
         \A p \in Packages : p # package => modules'[p] = modules[p]
  PROVE  Past' /\ Over' /\ Fresh'
<1>1. Over'
  BY DEF Over
<1>2. Fresh'
  <2>1. \A p \in Packages : p > package => p # package
    BY ProgramFacts DEF Typed, FrontOK
  <2> QED BY <2>1 DEF Orderly, Fresh, Packages
<1>3. Past'
  <2> SUFFICES ASSUME NEW p \in Packages, Generated(p)', DeclaredFirst(p)'
               PROVE  Whole(p)'
    BY DEF Past, Packages
  <2>1. p < package /\ p # package
    BY ProgramFacts DEF Generated, Typed, FrontOK
  <2>2. Whole(p)
    BY <2>1, FrontKept DEF Orderly, Past, Generated
  <2>3. modules'[p] = modules[p] /\ program' = program /\ context' = context
    BY <2>1 DEF front
  <2>4. \A f : IsWhole(f, p) => IsWhole(f, p)'
    BY <2>3 DEF IsWhole, ItemOf, Callee
  <2> QED BY <2>2, <2>3, <2>4 DEF Whole
<1> QED BY <1>1, <1>2, <1>3

(* The key step: a function that is called is external, or the cache knows *)
(* it.                                                                     *)
LEMMA CalledIsKnown ==
  ASSUME Typed, Orderly, Calling, DeclaredFirst(package)
  PROVE  ItemOf(Called).ext \/ cache[Called] # 0
<1>1. Seen /\ UnderWay /\ stack # <<>>
  BY DEF Orderly, Current, Calling
<1>2. Top = stack[1] /\ Top.of \in Decl
  BY <1>1, TopFacts DEF UnderWay
<1> DEFINE i == item - 1
<1>3. Top.of = <<package, i>> /\ i \in DOMAIN program[package]
  BY <1>1, <1>2, DeclFacts DEF UnderWay, Typed
<1>4. program[package][i].do = "fn"
  BY <1>2, <1>3, DeclFacts DEF ItemOf, Typed
<1>5. Called \in Decl /\ Top.next \in Calls(<<package, i>>) /\ Called = Callee(<<package, i>>, Top.next)
  BY <1>3, CalledFacts
<1>6. package \in Packages /\ package \in DOMAIN program /\ i \in Nat /\ item \in Nat
  <2>1. program[package] \in Seq(Item) /\ item \in 1..(Len(program[package]) + 1)
    BY ProgramFacts DEF Typed, FrontOK
  <2> QED BY <1>3, <2>1 DEF Typed, FrontOK, Packages
<1>7. \/ ItemOf(Called).ext
      \/ Called[1] = package /\ Called[2] < i
      \/ \E j \in 1..(i - 1) : program[package][j].do = "import" /\ Called \in imports[package][j]
  BY <1>3, <1>4, <1>5 DEF DeclaredFirst
<1>8. CASE Called[1] = package /\ Called[2] < i
  <2>1. /\ Called = <<package, Called[2]>> /\ Called[2] \in DOMAIN program[package]
        /\ program[package][Called[2]].do = "fn"
    BY <1>5, <1>8, DeclFacts DEF ItemOf, Typed
  <2>2. Called[2] \in 1..(item - 1) /\ Called[2] # item - 1
    <3>1. program[package] \in Seq(Item)
      BY <1>6, ProgramFacts DEF Typed
    <3> QED BY <1>6, <1>8, <2>1, <3>1
  <2> QED BY <1>1, <2>1, <2>2 DEF Seen
<1>9. CASE \E j \in 1..(i - 1) : program[package][j].do = "import" /\ Called \in imports[package][j]
  <2>1. PICK j \in 1..(i - 1) : program[package][j].do = "import" /\ Called \in imports[package][j]
    BY <1>9
  <2>2. j \in 1..(item - 1)
    BY <1>6, <2>1
  <2> QED BY <1>1, <2>1, <2>2 DEF Seen
<1> QED BY <1>7, <1>8, <1>9

LEMMA OrderlyVisit ==
  Typed /\ Orderly /\ (VisitImport \/ VisitExternal \/ VisitFunction \/ VisitCached) => Orderly'
<1> SUFFICES ASSUME Typed, Orderly,
                    VisitImport \/ VisitExternal \/ VisitFunction \/ VisitCached
             PROVE  Orderly'
  OBVIOUS
<1>1. Pending /\ pc = "generate" /\ stack = <<>>
  BY DEF VisitImport, VisitExternal, VisitFunction, VisitCached, Generating
<1>2. /\ UNCHANGED <<program, package, front>>
      /\ pc' = "generate" /\ item' = item + 1
  BY <1>1 DEF VisitImport, VisitExternal, VisitFunction, VisitCached
<1>3. program' = program /\ package' = package /\ imports' = imports
  BY <1>2 DEF front
<1>4. /\ item \in Nat \ {0} /\ item \in DOMAIN program[package]
      /\ Here.do = "fn" => <<package, item>> \in Decl /\ ItemOf(<<package, item>>) = Here
  <2>1. program[package] \in Seq(Item)
    BY ProgramFacts DEF Typed, FrontOK
  <2> QED BY <1>1, <2>1, HereFacts
<1>5. Grown
  <2>1. CASE VisitImport
    BY <2>1, ImportFacts DEF Grown
  <2>2. CASE VisitExternal
    BY <1>2, <1>4, <2>2, DeclareGrows DEF VisitExternal
  <2>3. CASE VisitFunction
    BY <1>2, <1>4, <2>3, EnterGrows DEF VisitFunction
  <2>4. CASE VisitCached
    BY <1>3, <2>4 DEF VisitCached, Grown, builder, Module
  <2> QED BY <2>1, <2>2, <2>3, <2>4
<1>6. Past' /\ Over' /\ Fresh'
  BY <1>1, <1>2, <1>5, PastKept DEF Grown
<1>7. ASSUME DeclaredFirst(package)'
      PROVE  (Seen /\ RestWhole /\ (stack # <<>> => UnderWay))'
  <2>1. Seen /\ RestWhole
    <3>1. DeclaredFirst(package)
      BY <1>2, <1>7, FrontKept
    <3> QED BY <1>1, <3>1 DEF Orderly, Current
  <2>2. \A s \in DOMAIN Module : Module[s].body => IsWhole(Module[s], package)'
    <3>1. \A s \in DOMAIN Module : Module[s].body => IsWhole(Module[s], package)
      BY <1>1, <2>1 DEF RestWhole
    <3>2. \A s \in DOMAIN Module : s \in DOMAIN Module' /\ Module'[s] = Module[s]
      BY <1>5 DEF Grown
    <3>3. \A s \in DOMAIN Module : IsWhole(Module[s], package) => IsWhole(Module[s], package)'
      BY <1>2, <3>2, BodiesKept
    <3> QED BY <3>1, <3>3
  <2>3. ASSUME NEW j \in 1..(item - 1)
        PROVE  /\ program[package][j].do = "fn" => cache'[<<package, j>>] # 0
               /\ program[package][j].do = "import" =>
                    \A d \in imports[package][j] : cache'[d] # 0
    <3>1. j \in DOMAIN program[package] /\ package \in Packages
      <4>1. program[package] \in Seq(Item) /\ package \in Packages
        BY ProgramFacts DEF Typed, FrontOK
      <4> QED BY <1>4, <4>1
    <3>2. /\ program[package][j].do = "fn" => <<package, j>> \in Decl
          /\ imports[package][j] \in SUBSET Decl
      BY <3>1, DeclFacts DEF Typed, FrontOK
    <3>3. \A d \in Decl : cache[d] # 0 => cache'[d] # 0
      BY <1>5 DEF Grown
    <3> QED BY <1>1, <2>1, <3>2, <3>3 DEF Seen
  <2>4. ASSUME /\ program[package][item].do = "fn" =>
                     cache'[<<package, item>>] # 0 \/ stack' # <<>>
               /\ program[package][item].do = "import" =>
                     \A d \in imports[package][item] : cache'[d] # 0
        PROVE  Seen'
    <3>1. \A j \in 1..(item' - 1) : j \in 1..(item - 1) \/ j = item
      BY <1>2, <1>4
    <3>2. item' - 1 = item
      BY <1>2, <1>4
    <3> QED BY <1>3, <2>3, <2>4, <3>1, <3>2 DEF Seen
  <2>5. CASE VisitFunction
    <3> DEFINE a == [of |-> <<package, item>>, symbol |-> Len(Module) + 1, next |-> 1]
               d == <<package, item>>
    <3>1. /\ stack' = Append(stack, a) /\ insert' = Len(Module) + 1
          /\ Here.do = "fn"
      BY <2>5 DEF VisitFunction, Enter
    <3>2. /\ d \in Decl /\ Enter(d)
      BY <1>4, <2>5 DEF VisitFunction
    <3>3. /\ Len(Module) + 1 \in DOMAIN Module'
          /\ \A s \in DOMAIN Module' \ DOMAIN Module : s = Len(Module) + 1
          /\ Module'[Len(Module) + 1].body
          /\ Module'[Len(Module) + 1].code = <<>>
      BY <1>2, <3>2, EnterGrows
    <3>4. stack' = <<a>>
      BY <1>1, <3>1
    <3>5. Len(stack') = 1 /\ stack'[1] = a /\ stack' # <<>>
      BY <3>4
    <3>6. a.of = d /\ a.symbol = Len(Module) + 1 /\ a.next = 1
      OBVIOUS
    <3> HIDE DEF a
    <3>7. Seen'
      <4>1. program[package][item].do = "fn"
        BY <3>1 DEF Here
      <4> QED BY <2>4, <3>5, <4>1
    <3>8. RestWhole'
      <4> SUFFICES ASSUME NEW s \in DOMAIN Module', Module'[s].body, s # stack'[1].symbol
                   PROVE  IsWhole(Module[s], package)'
        BY <3>5 DEF RestWhole
      <4>1. s \in DOMAIN Module
        BY <3>3, <3>5, <3>6
      <4>2. Module[s].body
        BY <1>5, <4>1 DEF Grown
      <4> QED BY <2>2, <4>1, <4>2
    <3>9. UnderWay'
      <4>1. ItemOf(d).calls \in Seq(Name)
        BY <3>2, DeclFacts DEF Typed
      <4>2. Len(ItemOf(d).calls) + 1 \in Nat /\ 1 \in 1..(Len(ItemOf(d).calls) + 1)
        BY <4>1
      <4>3. item' - 1 = item
        BY <1>2, <1>4
      <4>4. stack'[1].of = d /\ stack'[1].next = 1 /\ stack'[1].symbol = insert'
        BY <3>1, <3>5, <3>6
      <4>5. (IsPart(Module[insert], package, stack[1].next - 1))'
        <5>1. Len(<<>>) = 0 /\ 1..0 = {} /\ 1 - 1 = 0
          OBVIOUS
        <5>2. Module'[insert'].code = <<>> /\ stack'[1].next - 1 = 0
          BY <3>1, <3>3, <4>4, <5>1
        <5> QED BY <5>1, <5>2 DEF IsPart
      <4>6. (stack[1].next \in 1..(Len(ItemOf(stack[1].of).calls) + 1))'
        BY <1>3, <4>2, <4>4 DEF ItemOf
      <4>7. Module'[insert'].body
        BY <3>1, <3>3
      <4> QED BY <1>3, <3>5, <4>3, <4>4, <4>5, <4>6, <4>7 DEF UnderWay
    <3> QED BY <3>7, <3>8, <3>9
  <2>6. CASE VisitImport \/ VisitExternal \/ VisitCached
    <3>1. stack' = <<>>
      BY <1>1, <2>6 DEF VisitImport, VisitExternal, VisitCached, Declare, builder
    <3>2. \A s \in DOMAIN Module' \ DOMAIN Module : ~Module'[s].body
      <4>1. CASE VisitImport
        BY <4>1, ImportFacts
      <4>2. CASE VisitExternal
        BY <1>2, <1>4, <4>2, DeclareGrows DEF VisitExternal
      <4>3. CASE VisitCached
        BY <1>3, <4>3 DEF VisitCached, builder, Module
      <4> QED BY <2>6, <4>1, <4>2, <4>3
    <3>3. RestWhole'
      <4> SUFFICES ASSUME NEW s \in DOMAIN Module', Module'[s].body
                   PROVE  IsWhole(Module[s], package)'
        BY DEF RestWhole
      <4>1. s \in DOMAIN Module
        BY <3>2
      <4>2. Module[s].body
        BY <1>5, <4>1 DEF Grown
      <4> QED BY <2>2, <4>1, <4>2
    <3>4. Seen'
      <4>1. CASE VisitImport
        <5>1. \A d \in imports[package][item] : cache'[d] # 0
          BY <4>1, ImportFacts
        <5>2. program[package][item].do = "import"
          BY <4>1 DEF VisitImport, Here
        <5> QED BY <2>4, <5>1, <5>2
      <4>2. CASE VisitExternal
        <5>1. cache'[<<package, item>>] # 0 /\ program[package][item].do = "fn"
          BY <1>2, <1>4, <4>2, DeclareGrows DEF VisitExternal, Here
        <5> QED BY <2>4, <5>1
      <4>3. CASE VisitCached
        <5>1. cache'[<<package, item>>] # 0 /\ program[package][item].do = "fn"
          BY <4>3 DEF VisitCached, Here, builder
        <5> QED BY <2>4, <5>1
      <4> QED BY <2>6, <4>1, <4>2, <4>3
    <3> QED BY <3>1, <3>3, <3>4
  <2> QED BY <2>5, <2>6
<1>8. Current'
  BY <1>7 DEF Current
<1> QED BY <1>6, <1>8 DEF Orderly

(* What is known in the midst of the body of an item. *)
LEMMA UnderWayFacts ==
  ASSUME Typed, Orderly, pc = "generate", stack # <<>>, DeclaredFirst(package)
  PROVE  /\ Seen /\ RestWhole /\ UnderWay
         /\ Len(stack) = 1 /\ Top = stack[1] /\ Top \in Activation
         /\ Top.of \in Decl /\ Top.symbol = insert /\ insert \in DOMAIN Module
         /\ Top.next \in Nat /\ ItemOf(Top.of).calls \in Seq(Name)
         /\ Module[insert].of = Top.of /\ Module[insert].code \in Seq(Decl \X Nat)
         /\ Len(Module[insert].code) = Top.next - 1
         /\ Top.next \in 1..(Len(ItemOf(Top.of).calls) + 1)
         /\ \A k \in 1..(Top.next - 1) :
              /\ Module[insert].code[k][1] = Top.of
              /\ Module[insert].code[k][2] \in DOMAIN Module
              /\ Module[Module[insert].code[k][2]].of = Callee(Top.of, k)
<1>1. Seen /\ RestWhole /\ UnderWay
  BY DEF Orderly, Current
<1>2. /\ Len(stack) = 1 /\ Top = stack[1] /\ Top \in Activation /\ Top.of \in Decl
      /\ Top.symbol = insert /\ insert \in DOMAIN Module /\ Top.next \in Nat
      /\ Module[insert].of = Top.of
  BY <1>1, TopFacts DEF UnderWay
<1>3. Module[insert] \in Symbol
  BY <1>2 DEF Typed, FrontOK, BuilderOK, Module
<1>4. Module[insert].code \in Seq(Decl \X Nat)
  BY <1>3 DEF Symbol
<1>5. ItemOf(Top.of).calls \in Seq(Name)
  BY <1>2, DeclFacts DEF Typed
<1>6. Top.next \in 1..(Len(ItemOf(Top.of).calls) + 1)
  BY <1>1, <1>2 DEF UnderWay
<1>7. IsPart(Module[insert], package, Top.next - 1)
  BY <1>1, <1>2 DEF UnderWay
<1>8. /\ Len(Module[insert].code) = Top.next - 1
      /\ \A k \in 1..(Top.next - 1) :
           /\ Module[insert].code[k][1] = Top.of
           /\ Module[insert].code[k][2] \in DOMAIN Module
           /\ Module[Module[insert].code[k][2]].of = Callee(Top.of, k)
  BY <1>2, <1>7 DEF IsPart, Module
<1> QED BY <1>1, <1>2, <1>4, <1>5, <1>6, <1>8

LEMMA OrderlyEmit == Typed /\ Orderly /\ EmitCall => Orderly'
<1> SUFFICES ASSUME Typed, Orderly, EmitCall
             PROVE  Orderly'
  OBVIOUS
<1> DEFINE new == <<Top.of, cache[Called]>>
<1>1. /\ pc = "generate" /\ pc' = "generate" /\ stack # <<>> /\ Calling
      /\ UNCHANGED <<program, package, front, item, cache, insert>>
      /\ Top.next \in DOMAIN ItemOf(Top.of).calls
  BY DEF EmitCall, Calling
<1>2. program' = program /\ package' = package /\ imports' = imports /\ context' = context
  BY <1>1 DEF front
<1>3. /\ Called \in Decl /\ Called = Callee(Top.of, Top.next)
      /\ cache[Called] \in DOMAIN Module /\ Module[cache[Called]].of = Called
      /\ cache[Called] \in Nat
  <2>1. Called \in Decl /\ Called = Callee(Top.of, Top.next)
    BY <1>1, CalledFacts
  <2>2. Module \in Seq(Symbol)
    BY DEF Typed, FrontOK, BuilderOK, Module
  <2> QED BY <2>1, <2>2 DEF EmitCall, Typed, Positions
<1>4. new \in Decl \X Nat
  BY <1>1, <1>3, TopFacts
<1>5. Put(new)
  BY DEF EmitCall
<1> HIDE DEF new
<1>6. /\ DOMAIN Module' = DOMAIN Module
      /\ \A s \in DOMAIN Module : /\ Module'[s].of = Module[s].of
                                  /\ Module'[s].body = Module[s].body
                                  /\ s # insert => Module'[s] = Module[s]
      /\ Module'[insert].code = Append(Module[insert].code, new)
      /\ \A p \in Packages : p # package => modules'[p] = modules[p]
  BY <1>1, <1>4, <1>5, TopFacts, PutType
<1>7. Past' /\ Over' /\ Fresh'
  BY <1>1, <1>6, PastKept
<1>8. ASSUME DeclaredFirst(package)'
      PROVE  (Seen /\ RestWhole /\ UnderWay)'
  <2>1. DeclaredFirst(package)
    BY <1>1, <1>8, FrontKept
  <2>2. /\ Seen /\ RestWhole /\ UnderWay
        /\ Len(stack) = 1 /\ Top = stack[1] /\ Top \in Activation
        /\ Top.symbol = insert /\ insert \in DOMAIN Module /\ Top.next \in Nat
        /\ ItemOf(Top.of).calls \in Seq(Name)
        /\ Module[insert].of = Top.of /\ Module[insert].code \in Seq(Decl \X Nat)
        /\ Len(Module[insert].code) = Top.next - 1
        /\ \A k \in 1..(Top.next - 1) :
             /\ Module[insert].code[k][1] = Top.of
             /\ Module[insert].code[k][2] \in DOMAIN Module
             /\ Module[Module[insert].code[k][2]].of = Callee(Top.of, k)
    BY <1>1, <2>1, UnderWayFacts
  <2>3. /\ stack' # <<>> /\ Len(stack') = 1
        /\ stack'[1].of = Top.of /\ stack'[1].symbol = Top.symbol
        /\ stack'[1].next = Top.next + 1
    <3> DEFINE t == [Top EXCEPT !.next = @ + 1]
    <3>1. t.of = Top.of /\ t.symbol = Top.symbol /\ t.next = Top.next + 1 /\ t \in Activation
      BY <2>2 DEF Activation
    <3>2. stack' = [stack EXCEPT ![1] = t]
      BY <2>2 DEF EmitCall
    <3> HIDE DEF t
    <3>3. stack \in Seq(Activation)
      BY DEF Typed, BuilderOK
    <3>4. Len(stack') = 1 /\ stack'[1] = t
      BY <2>2, <3>1, <3>2, <3>3
    <3>5. stack' # <<>>
      <4>1. Len(<<>>) = 0
        OBVIOUS
      <4> QED BY <3>4, <4>1
    <3> QED BY <3>1, <3>4, <3>5
  <2>4. Seen'
    BY <1>1, <1>2, <2>2, <2>3 DEF Seen
  <2>5. RestWhole'
    <3> SUFFICES ASSUME NEW s \in DOMAIN Module', Module'[s].body, s # stack'[1].symbol
                 PROVE  IsWhole(Module[s], package)'
      BY <2>3 DEF RestWhole
    <3>1. s \in DOMAIN Module /\ s # stack[1].symbol /\ Module'[s] = Module[s]
      BY <1>6, <2>2, <2>3
    <3>2. IsWhole(Module[s], package)
      BY <2>2, <3>1 DEF RestWhole
    <3> QED BY <1>1, <1>6, <3>1, <3>2, BodiesKept
  <2>6. UnderWay'
    <3>1. /\ Len(Module'[insert].code) = Top.next
          /\ Module'[insert].code[Top.next] = new
          /\ \A k \in 1..(Top.next - 1) : Module'[insert].code[k] = Module[insert].code[k]
      BY <1>4, <1>6, <2>2
    <3>2. ASSUME NEW k \in 1..Top.next
          PROVE  /\ Module'[insert].code[k][1] = Top.of
                 /\ Module'[insert].code[k][2] \in DOMAIN Module'
                 /\ Module'[Module'[insert].code[k][2]].of = Callee(Top.of, k)
      <4>1. CASE k = Top.next
        BY <1>3, <1>6, <3>1, <4>1 DEF new
      <4>2. CASE k \in 1..(Top.next - 1)
        BY ZenonT(40), <1>6, <2>2, <3>1, <4>2
      <4> QED BY <2>2, <4>1, <4>2
    <3>3. \A k : Callee(Top.of, k) = context'[Top.of[1]][(program'[Top.of[1]][Top.of[2]]).calls[k]]
      BY <1>2 DEF Callee, ItemOf
    <3>4. Module'[insert].of = Top.of
      BY <1>6, <2>2
    <3>5. (IsPart(Module[insert], package, stack[1].next - 1))'
      <4>1. /\ stack'[1].next - 1 = Top.next /\ insert' = insert
            /\ modules'[package'] = Module'
        BY <1>1, <2>2, <2>3 DEF Module
      <4> QED BY ZenonT(40), <3>1, <3>2, <3>3, <3>4, <4>1 DEF IsPart, Callee, ItemOf
    <3>6. (stack[1].next \in 1..(Len(ItemOf(stack[1].of).calls) + 1))'
      <4>1. Top.next + 1 \in 1..(Len(ItemOf(Top.of).calls) + 1)
        BY <1>1, <2>2
      <4> QED BY <1>2, <2>3, <4>1 DEF ItemOf
    <3>7. /\ stack'[1].of = <<package', item' - 1>> /\ insert' = stack'[1].symbol
          /\ Module'[insert'].body
      BY <1>1, <1>6, <2>2, <2>3 DEF UnderWay
    <3> QED BY <2>3, <3>5, <3>6, <3>7 DEF UnderWay
  <2> QED BY <2>4, <2>5, <2>6
<1>9. Current'
  BY <1>8 DEF Current
<1> QED BY <1>7, <1>9 DEF Orderly

LEMMA OrderlyLeave == Typed /\ Orderly /\ LeaveFunction => Orderly'
<1> SUFFICES ASSUME Typed, Orderly, LeaveFunction
             PROVE  Orderly'
  OBVIOUS
<1> DEFINE new == <<Top.of, 0>>
<1>1. /\ pc = "generate" /\ pc' = "generate" /\ stack # <<>>
      /\ UNCHANGED <<program, package, front, item, insert>>
      /\ Top.next > Len(ItemOf(Top.of).calls)
      /\ cache' = [cache EXCEPT ![Top.of] = Top.symbol]
  BY DEF LeaveFunction
<1>2. program' = program /\ package' = package /\ imports' = imports /\ context' = context
  BY <1>1 DEF front
<1>3. new \in Decl \X Nat
  BY <1>1, TopFacts
<1>4. Put(new)
  BY DEF LeaveFunction
<1> HIDE DEF new
<1>5. /\ DOMAIN Module' = DOMAIN Module
      /\ \A s \in DOMAIN Module : /\ Module'[s].of = Module[s].of
                                  /\ Module'[s].body = Module[s].body
                                  /\ s # insert => Module'[s] = Module[s]
      /\ Module'[insert].code = Append(Module[insert].code, new)
      /\ \A p \in Packages : p # package => modules'[p] = modules[p]
  BY <1>1, <1>3, <1>4, TopFacts, PutType
<1>6. Past' /\ Over' /\ Fresh'
  BY <1>1, <1>5, PastKept
<1>7. ASSUME DeclaredFirst(package)'
      PROVE  (Seen /\ RestWhole)' /\ stack' = <<>>
  <2>1. DeclaredFirst(package)
    BY <1>1, <1>7, FrontKept
  <2>2. /\ Seen /\ RestWhole /\ UnderWay
        /\ Len(stack) = 1 /\ Top = stack[1] /\ Top.of \in Decl
        /\ Top.symbol = insert /\ insert \in DOMAIN Module /\ Top.next \in Nat
        /\ ItemOf(Top.of).calls \in Seq(Name)
        /\ Module[insert].of = Top.of /\ Module[insert].code \in Seq(Decl \X Nat)
        /\ Len(Module[insert].code) = Top.next - 1
        /\ Top.next \in 1..(Len(ItemOf(Top.of).calls) + 1)
        /\ \A k \in 1..(Top.next - 1) :
             /\ Module[insert].code[k][1] = Top.of
             /\ Module[insert].code[k][2] \in DOMAIN Module
             /\ Module[Module[insert].code[k][2]].of = Callee(Top.of, k)
    BY <1>1, <2>1, UnderWayFacts
  <2>3. stack' = <<>>
    <3>1. stack \in Seq(Activation)
      BY DEF Typed, BuilderOK
    <3>2. stack' = SubSeq(stack, 1, 0)
      BY <2>2 DEF LeaveFunction
    <3> QED BY <3>1, <3>2
  <2>4. Seen'
    <3>1. cache' \in [Decl -> Nat] /\ cache \in [Decl -> Nat] /\ insert # 0
      <4>1. Module \in Seq(Symbol)
        BY DEF Typed, FrontOK, BuilderOK, Module
      <4> QED BY <1>1, <2>2, <4>1 DEF Typed, BuilderOK
    <3>2. /\ cache'[<<package, item - 1>>] # 0
          /\ \A d \in Decl : cache[d] # 0 => cache'[d] # 0
      BY <1>1, <2>2, <3>1 DEF UnderWay
    <3>3. ASSUME NEW j \in 1..(item - 1)
          PROVE  /\ program[package][j].do = "fn" => cache'[<<package, j>>] # 0
                 /\ program[package][j].do = "import" =>
                      \A d \in imports[package][j] : cache'[d] # 0
      <4>1. j \in DOMAIN program[package] /\ package \in Packages
        <5>1. /\ program[package] \in Seq(Item) /\ package \in Packages
              /\ item \in 1..(Len(program[package]) + 1)
          BY ProgramFacts DEF Typed, FrontOK
        <5> QED BY <5>1
      <4>2. /\ program[package][j].do = "fn" => <<package, j>> \in Decl
            /\ imports[package][j] \in SUBSET Decl
        BY <4>1, DeclFacts DEF Typed, FrontOK
      <4>3. /\ program[package][j].do = "fn" => cache[<<package, j>>] # 0 \/ j = item - 1
            /\ program[package][j].do = "import" =>
                 \A d \in imports[package][j] : cache[d] # 0
        BY <2>2 DEF Seen
      <4> QED BY <3>2, <4>2, <4>3
    <3> QED BY <1>1, <1>2, <3>3 DEF Seen
  <2>5. IsWhole(Module[insert], package)'
    <3> DEFINE calls == ItemOf(Top.of).calls
    <3>1. Top.next = Len(calls) + 1 /\ DOMAIN calls = 1..(Top.next - 1)
      BY <1>1, <2>2
    <3>2. /\ Len(Module'[insert].code) = Len(calls) + 1
          /\ Module'[insert].code[Len(calls) + 1] = new
          /\ \A k \in DOMAIN calls : Module'[insert].code[k] = Module[insert].code[k]
      BY <1>3, <1>5, <2>2, <3>1
    <3>3. ASSUME NEW k \in DOMAIN calls
          PROVE  /\ Module'[insert].code[k][1] = Top.of
                 /\ Module'[insert].code[k][2] \in DOMAIN Module'
                 /\ Module'[Module'[insert].code[k][2]].of = Callee(Top.of, k)
      BY SMTT(30), <1>5, <2>2, <3>1, <3>2
    <3>4. Module'[insert].of = Top.of
      BY <1>5, <2>2
    <3>5. \A k : Callee(Top.of, k) = context'[Top.of[1]][(program'[Top.of[1]][Top.of[2]]).calls[k]]
      BY <1>2 DEF Callee, ItemOf
    <3>6. calls = (program'[Top.of[1]][Top.of[2]]).calls
      BY <1>2 DEF ItemOf
    <3>7. insert' = insert /\ modules'[package'] = Module'
      BY <1>1 DEF Module
    <3>8. new = <<Module'[insert].of, 0>>
      BY <3>4 DEF new
    <3>9. (ItemOf(Module[insert].of).calls)' = calls
      BY <1>2, <3>4, <3>7 DEF ItemOf
    <3>10. \A k : Callee(Module[insert].of, k)' = Callee(Top.of, k)
      BY <3>4, <3>5, <3>7 DEF Callee, ItemOf
    <3> HIDE DEF calls
    <3>11. (/\ Len(Module[insert].code) = Len(ItemOf(Module[insert].of).calls) + 1
            /\ Module[insert].code[Len(ItemOf(Module[insert].of).calls) + 1]
                 = <<Module[insert].of, 0>>
            /\ \A k \in DOMAIN ItemOf(Module[insert].of).calls :
                 /\ Module[insert].code[k][1] = Module[insert].of
                 /\ Module[insert].code[k][2] \in DOMAIN modules[package]
                 /\ modules[package][Module[insert].code[k][2]].of
                      = Callee(Module[insert].of, k))'
      BY <3>2, <3>3, <3>4, <3>7, <3>8, <3>9, <3>10
    <3> QED BY <3>11 DEF IsWhole
  <2>6. RestWhole'
    <3> SUFFICES ASSUME NEW s \in DOMAIN Module', Module'[s].body
                 PROVE  IsWhole(Module[s], package)'
      BY DEF RestWhole
    <3>1. CASE s = insert
      <4>1. Module'[s] = Module'[insert']
        BY <1>1, <3>1
      <4> QED BY <2>5, <4>1 DEF IsWhole
    <3>2. CASE s # insert
      <4>1. s \in DOMAIN Module /\ s # stack[1].symbol /\ Module'[s] = Module[s]
        BY <1>5, <2>2, <3>2
      <4>2. IsWhole(Module[s], package)
        BY <2>2, <4>1 DEF RestWhole
      <4> QED BY <1>1, <1>5, <4>1, <4>2, BodiesKept
    <3> QED BY <3>1, <3>2
  <2> QED BY <2>3, <2>4, <2>6
<1>8. Current'
  BY <1>7 DEF Current
<1> QED BY <1>6, <1>8 DEF Orderly

LEMMA OrderlyCall ==
  Typed /\ Orderly /\ (DeclareCalled \/ EnterCalled \/ Overflow) => Orderly'
<1> SUFFICES ASSUME Typed, Orderly, DeclareCalled \/ EnterCalled \/ Overflow
             PROVE  Orderly'
  OBVIOUS
<1>1. /\ Calling /\ pc = "generate" /\ stack # <<>> /\ Called \in Decl /\ cache[Called] = 0
      /\ UNCHANGED <<program, package, front, item>>
  BY CalledFacts DEF DeclareCalled, EnterCalled, Overflow, Calling
<1>2. program' = program /\ package' = package /\ imports' = imports /\ context' = context
  BY <1>1 DEF front
<1>3. CASE DeclareCalled
  <2>1. /\ Grown
        /\ \A s \in DOMAIN Module' \ DOMAIN Module : ~Module'[s].body
    BY <1>1, <1>3, DeclareGrows DEF DeclareCalled
  <2>2. /\ pc' = "generate" /\ stack' = stack /\ insert' = insert
        /\ item' = item
    BY <1>1, <1>3 DEF DeclareCalled, Declare
  <2>3. Past' /\ Over' /\ Fresh'
    BY <1>1, <2>1, <2>2, PastKept DEF Grown
  <2>4. ASSUME DeclaredFirst(package)'
        PROVE  (Seen /\ RestWhole /\ UnderWay)'
    <3>1. DeclaredFirst(package)
      BY <1>1, <2>4, FrontKept
    <3>2. /\ Seen /\ RestWhole /\ UnderWay
          /\ Len(stack) = 1 /\ Top = stack[1] /\ insert \in DOMAIN Module
          /\ Module[insert].of = Top.of
          /\ Len(Module[insert].code) = Top.next - 1
          /\ \A k \in 1..(Top.next - 1) :
               /\ Module[insert].code[k][1] = Top.of
               /\ Module[insert].code[k][2] \in DOMAIN Module
               /\ Module[Module[insert].code[k][2]].of = Callee(Top.of, k)
      BY <1>1, <3>1, UnderWayFacts
    <3>3. /\ \A s \in DOMAIN Module : s \in DOMAIN Module' /\ Module'[s] = Module[s]
          /\ \A d \in Decl : cache[d] # 0 => cache'[d] # 0
      BY <2>1 DEF Grown
    <3>4. Seen'
      <4>1. ASSUME NEW j \in 1..(item - 1)
            PROVE  /\ program[package][j].do = "fn" =>
                        cache'[<<package, j>>] # 0 \/ (stack' # <<>> /\ j = item - 1)
                   /\ program[package][j].do = "import" =>
                        \A d \in imports[package][j] : cache'[d] # 0
        <5>1. j \in DOMAIN program[package] /\ package \in Packages
          <6>1. /\ program[package] \in Seq(Item) /\ package \in Packages
                /\ item \in 1..(Len(program[package]) + 1)
            BY ProgramFacts DEF Typed, FrontOK
          <6> QED BY <6>1
        <5>2. /\ program[package][j].do = "fn" => <<package, j>> \in Decl
              /\ imports[package][j] \in SUBSET Decl
          BY <5>1, DeclFacts DEF Typed, FrontOK
        <5> QED BY <1>1, <2>2, <3>2, <3>3, <5>2 DEF Seen
      <4> QED BY <1>2, <2>2, <4>1 DEF Seen
    <3>5. RestWhole'
      <4> SUFFICES ASSUME NEW s \in DOMAIN Module', Module'[s].body, s # stack[1].symbol
                   PROVE  IsWhole(Module[s], package)'
        BY <1>1, <2>2 DEF RestWhole
      <4>1. s \in DOMAIN Module /\ Module'[s] = Module[s]
        BY <2>1, <3>3
      <4>2. IsWhole(Module[s], package)
        BY <3>2, <4>1 DEF RestWhole
      <4> QED BY <1>1, <3>3, <4>1, <4>2, BodiesKept
    <3>6. UnderWay'
      <4>1. /\ Module'[insert'] = Module[insert] /\ modules'[package'] = Module'
            /\ stack'[1] = Top
        BY <2>2, <3>2, <3>3 DEF Module
      <4>2. \A k : Callee(Module[insert].of, k)' = Callee(Top.of, k)
        BY <1>2, <3>2, <4>1 DEF Callee, ItemOf
      <4>3. (/\ Len(Module[insert].code) = stack[1].next - 1
             /\ \A k \in 1..(stack[1].next - 1) :
                  /\ Module[insert].code[k][1] = Module[insert].of
                  /\ Module[insert].code[k][2] \in DOMAIN modules[package]
                  /\ modules[package][Module[insert].code[k][2]].of
                       = Callee(Module[insert].of, k))'
        BY <3>2, <3>3, <4>1, <4>2
      <4>4. IsPart(Module[insert], package, stack[1].next - 1)'
        BY <4>3 DEF IsPart
      <4>5. (stack[1].next \in 1..(Len(ItemOf(stack[1].of).calls) + 1))'
        BY <1>2, <3>2, <2>2 DEF UnderWay, ItemOf
      <4>6. /\ Len(stack') = 1 /\ stack'[1].of = <<package', item' - 1>>
            /\ insert' = stack'[1].symbol /\ Module'[insert'].body
        BY <1>2, <2>2, <3>2, <4>1 DEF UnderWay
      <4> QED BY <4>4, <4>5, <4>6 DEF UnderWay
    <3> QED BY <3>4, <3>5, <3>6
  <2>5. Current'
    BY <2>4 DEF Current
  <2> QED BY <2>3, <2>5 DEF Orderly
<1>4. CASE EnterCalled \/ Overflow
  <2>1. ~ItemOf(Called).ext
    BY <1>4 DEF EnterCalled, Overflow
  <2>2. ~DeclaredFirst(package)
    BY <1>1, <2>1, CalledIsKnown
  <2>3. ~DeclaredFirst(package)'
    BY <1>1, <2>2, FrontKept
  <2>4. CASE EnterCalled
    <3>1. pc' = "generate" /\ Grown
      BY <1>1, <2>4, EnterGrows DEF EnterCalled
    <3>2. Past' /\ Over' /\ Fresh'
      BY <1>1, <3>1, PastKept DEF Grown
    <3> QED BY <2>3, <3>2 DEF Orderly, Current
  <2>5. CASE Overflow
    <3>1. pc' = "overflow" /\ modules' = modules
      BY <2>5 DEF Overflow, builder
    <3>2. Current' /\ Over' /\ Fresh'
      BY <2>3, <3>1 DEF Current, Over, Fresh
    <3>3. Past'
      <4> SUFFICES ASSUME NEW p \in Packages, Generated(p)', DeclaredFirst(p)'
                   PROVE  Whole(p)'
        BY <1>2 DEF Past, Packages
      <4>1. Generated(p) /\ DeclaredFirst(p)
        BY <1>1, <1>2, <3>1, FrontKept DEF Generated
      <4>2. Whole(p)
        BY <4>1 DEF Orderly, Past
      <4> QED BY <1>1, <3>1, <4>2, WholeKept
    <3> QED BY <3>2, <3>3 DEF Orderly
  <2> QED BY <1>4, <2>4, <2>5
<1> QED BY <1>3, <1>4

LEMMA OrderlyNextPackage == Typed /\ Orderly /\ NextPackage => Orderly'
<1> SUFFICES ASSUME Typed, Orderly, NextPackage
             PROVE  Orderly'
  OBVIOUS
<1>1. /\ pc = "generate" /\ stack = <<>> /\ ~Pending
      /\ UNCHANGED <<program, front, modules, stack>> /\ item' = 1
  BY DEF NextPackage
<1>2. program' = program /\ imports' = imports /\ context' = context
  BY <1>1 DEF front
<1>3. package \in 1..Len(program) /\ Packages = 1..Len(program) /\ Len(program) \in Nat
  BY ProgramFacts DEF Typed, FrontOK
<1>4. \/ pc' = "generate" /\ package' = package + 1 /\ package' \in Packages
      \/ pc' = "done" /\ package' = package /\ package = Len(program)
  BY <1>1, <1>3 DEF NextPackage
<1>5. DeclaredFirst(package) => Whole(package)
  <2> SUFFICES ASSUME DeclaredFirst(package)
               PROVE  Whole(package)
    OBVIOUS
  <2>1. RestWhole
    BY <1>1 DEF Orderly, Current
  <2> QED BY <1>1, <2>1 DEF RestWhole, Whole, Module
<1>6. ASSUME NEW p \in Packages, DeclaredFirst(p), p <= package
      PROVE  Whole(p)
  <2>1. CASE p = package
    BY <1>5, <1>6, <2>1
  <2>2. CASE p < package
    BY <1>1, <1>6, <2>2 DEF Orderly, Past, Generated
  <2> QED BY <1>3, <1>6, <2>1, <2>2
<1>7. Past'
  <2> SUFFICES ASSUME NEW p \in Packages, Generated(p)', DeclaredFirst(p)'
               PROVE  Whole(p)'
    BY <1>2 DEF Past, Packages
  <2>1. p <= package
    BY <1>3, <1>4 DEF Generated
  <2>2. DeclaredFirst(p)
    BY <1>1, FrontKept
  <2>3. Whole(p)
    BY <1>6, <2>1, <2>2
  <2> QED BY <1>1, <2>3, WholeKept
<1>8. Over'
  BY <1>4 DEF Over
<1>9. Fresh'
  <2>1. \A p \in Packages : p > package' => p > package
    BY <1>3, <1>4
  <2> QED BY <1>1, <1>2, <1>4, <2>1 DEF Orderly, Fresh, Packages
<1>10. Current'
  <2> SUFFICES ASSUME pc' = "generate"
               PROVE  (Seen /\ RestWhole /\ (stack # <<>> => UnderWay))'
    BY DEF Current
  <2>1. Seen'
    BY <1>1 DEF Seen
  <2>2. Module' = <<>>
    <3>1. package' > package /\ package' \in Packages
      BY <1>3, <1>4
    <3> QED BY <1>1, <3>1 DEF Orderly, Fresh, Module
  <2>3. RestWhole'
    BY <2>2 DEF RestWhole
  <2> QED BY <1>1, <2>1, <2>3
<1> QED BY <1>7, <1>8, <1>9, <1>10 DEF Orderly

(* Before code is generated there are no bodies. *)
LEMMA IdleOrderly ==
  ASSUME Typed, Analysing, pc = "check" => item = 1
  PROVE  Orderly
<1>1. \A p \in Packages : ~Generated(p)
  BY DEF Analysing, Generated
<1> QED BY <1>1 DEF Analysing, Orderly, Fresh, Current, Past, Over

LEMMA OrderlyCheckCalls == Typed /\ Orderly /\ CheckCalls => Orderly'
<1> SUFFICES ASSUME Typed, Orderly, CheckCalls
             PROVE  Orderly'
  OBVIOUS
<1>1. /\ UNCHANGED <<program, package, item, front, builder>>
      /\ pc = "check" /\ pc' \in {"generate", "unknown"} /\ item = 1
  BY DEF CheckCalls, Orderly, Fresh
<1>2. /\ modules' = [p \in Packages |-> <<>>] /\ stack' = <<>>
      /\ program' = program /\ package' \in Packages
  BY <1>1 DEF Typed, Idle, Analysing, builder, FrontOK
<1>3. Past'
  <2> SUFFICES ASSUME NEW p \in Packages
               PROVE  Whole(p)'
    BY <1>2 DEF Past, Packages
  <2> QED BY <1>2 DEF Whole
<1>4. Over' /\ Fresh'
  BY <1>1, <1>2 DEF Over, Fresh, Packages
<1>5. Current'
  <2>1. Seen'
    BY <1>1 DEF Seen
  <2>2. RestWhole'
    BY <1>2 DEF RestWhole, Module
  <2> QED BY <1>2, <2>1, <2>2 DEF Current
<1> QED BY <1>3, <1>4, <1>5 DEF Orderly

LEMMA OrderlyNext == Typed /\ Orderly /\ [Next]_vars => Orderly'
<1> SUFFICES ASSUME Typed, Orderly, [Next]_vars
             PROVE  Orderly'
  OBVIOUS
<1>1. Typed'
  BY TypedNext
<1>2. CASE UNCHANGED vars
  <2>1. /\ UNCHANGED <<program, front, modules, package, item, cache, stack, insert, pc>>
        /\ imports' = imports /\ program' = program /\ context' = context
    BY <1>2 DEF vars, front, builder
  <2>2. \A p : (DeclaredFirst(p)' <=> DeclaredFirst(p)) /\ (Generated(p)' <=> Generated(p))
    BY <2>1, FrontKept DEF Generated
  <2>3. Past'
    BY <2>1, <2>2, WholeKept DEF Orderly, Past, Packages
  <2>4. Over' /\ Fresh'
    BY <2>1, <2>2 DEF Orderly, Over, Fresh, Packages
  <2>5. Seen => Seen'
    BY <2>1 DEF Seen
  <2>6. Module' = Module
    BY <2>1 DEF Module
  <2>7. RestWhole => RestWhole'
    <3> SUFFICES ASSUME RestWhole, NEW s \in DOMAIN Module, Module[s].body,
                        stack # <<>> => s # stack[1].symbol
                 PROVE  IsWhole(Module[s], package)'
      BY <2>1, <2>6 DEF RestWhole
    <3>1. IsWhole(Module[s], package)
      BY DEF RestWhole
    <3> QED BY <2>1, <2>6, <3>1, BodiesKept
  <2>8. UnderWay => UnderWay'
    <3>1. /\ \A d : ItemOf(d)' = ItemOf(d)
          /\ \A d, k : Callee(d, k)' = Callee(d, k)
      BY <2>1 DEF ItemOf, Callee
    <3>2. ASSUME NEW f, NEW n, IsPart(f, package, n)
          PROVE  IsPart(f, package, n)'
      BY <2>1, <3>1, <3>2 DEF IsPart
    <3> QED BY <2>1, <2>6, <3>1, <3>2 DEF UnderWay
  <2>9. Current'
    BY <2>1, <2>2, <2>5, <2>7, <2>8 DEF Orderly, Current
  <2> QED BY <2>3, <2>4, <2>9 DEF Orderly
<1>3. CASE RegisterFunctions \/ PrecheckImport \/ PrecheckFunction \/ PrecheckNext
  <2>1. Analysing' /\ (pc' = "check" => item' = 1)
    BY <1>3 DEF RegisterFunctions, PrecheckImport, PrecheckFunction, PrecheckNext, Analysing
  <2>2. \A p \in Packages' : ~Generated(p)'
    BY <2>1 DEF Analysing, Generated
  <2> QED BY <2>1, <2>2 DEF Analysing, Orderly, Fresh, Current, Past, Over
<1> QED BY <1>2, <1>3, OrderlyCheckCalls, OrderlyVisit, OrderlyCall, OrderlyEmit,
           OrderlyLeave, OrderlyNextPackage DEF Next

LEMMA OrderlyInit == Init => Orderly
  BY TypedInit, IdleOrderly DEF Init, Analysing

(* Whatever the packages are: a package whose functions are declared       *)
(* before they are called is generated to the end, and then its module     *)
(* says what the source says, although its visitors share one insertion    *)
(* point that nobody restores (code_generator.cpp:1142-1226).              *)
THEOREM DeclaredFirstSuffices == Spec => []DeclaredFirstIsWhole
<1>1. Typed /\ Orderly => DeclaredFirstIsWhole
  BY DEF Orderly, Past, Over, DeclaredFirstIsWhole
<1>2. Spec => [](Typed /\ Orderly)
  <2>1. Init => Typed /\ Orderly
    BY TypedInit, OrderlyInit
  <2>2. (Typed /\ Orderly) /\ [Next]_vars => (Typed /\ Orderly)'
    BY TypedNext, OrderlyNext
  <2> QED BY <2>1, <2>2, PTL DEF Spec
<1> QED BY <1>1, <1>2, PTL

-----------------------------------------------------------------------------
(* What names mean.  Means is a recursive function: it is the only         *)
(* function that is what its packages say, as packages import packages     *)
(* before them, and contexts end as such a function.                       *)
LeastOf(S) == CHOOSE i \in S : \A j \in S : i <= j

(* What the name n means in the package p, whose imports before its item m *)
(* were looked at, if c are the meanings in the packages before.           *)
KnowingBefore(c, p, n, m) == {i \in Knowing(p, n, c) : i < m}
Meaning(c, p, n, m) ==
  IF Own(p, n) # {} THEN LastOfName(p, n)
  ELSE IF KnowingBefore(c, p, n, m) = {} THEN NoDecl
  ELSE c[program[p][LeastOf(KnowingBefore(c, p, n, m))].from][n]

(* What it means when all of them were.                                    *)
Entire(p) == Len(program[p]) + 1
FinalMeaning(c, p, n) ==
  IF Own(p, n) # {} THEN LastOfName(p, n)
  ELSE IF Knowing(p, n, c) = {} THEN NoDecl
  ELSE c[program[p][CHOOSE i \in Knowing(p, n, c) :
                      \A j \in Knowing(p, n, c) : i <= j].from][n]

(* The meaning depends on the packages before only.                        *)
LEMMA SameMeaning ==
  ASSUME program \in Programs, NEW c, NEW d, NEW p \in Packages, NEW m \in Nat,
         \A q \in 1..(p - 1) : c[q] = d[q]
  PROVE  \A n : Meaning(c, p, n, m) = Meaning(d, p, n, m)
<1> SUFFICES ASSUME NEW n PROVE Meaning(c, p, n, m) = Meaning(d, p, n, m)
  OBVIOUS
<1>1. \A i \in DOMAIN program[p] : program[p][i].do = "import" =>
        c[program[p][i].from] = d[program[p][i].from]
  BY ProgramFacts
<1>2. Knowing(p, n, c) = Knowing(p, n, d)
  BY <1>1 DEF Knowing
<1>3. KnowingBefore(c, p, n, m) = KnowingBefore(d, p, n, m)
  BY <1>2 DEF KnowingBefore
<1>4. PICK S : S = KnowingBefore(c, p, n, m)
  OBVIOUS
<1>5. S \subseteq Nat /\ \A i \in S : i \in DOMAIN program[p] /\ program[p][i].do = "import"
  <2>1. DOMAIN program[p] = 1..Len(program[p]) /\ Len(program[p]) \in Nat
    BY ProgramFacts
  <2> QED BY <1>4, <2>1 DEF KnowingBefore, Knowing
<1>6. S # {} => LeastOf(S) \in S
  BY <1>5, LeastNatural DEF LeastOf
<1>7. S # {} => c[program[p][LeastOf(S)].from] = d[program[p][LeastOf(S)].from]
  BY <1>1, <1>5, <1>6
<1> QED BY <1>3, <1>4, <1>7 DEF Meaning

(* The end of the package is behind all its items.                         *)
LEMMA FinalMeaningIs ==
  ASSUME program \in Programs, NEW c, NEW p \in Packages, NEW n
  PROVE  FinalMeaning(c, p, n) = Meaning(c, p, n, Entire(p))
<1>1. DOMAIN program[p] = 1..Len(program[p]) /\ Len(program[p]) \in Nat
  BY ProgramFacts
<1>2. KnowingBefore(c, p, n, Entire(p)) = Knowing(p, n, c)
  BY <1>1 DEF KnowingBefore, Knowing, Entire
<1> QED BY <1>2 DEF FinalMeaning, Meaning, LeastOf

(* There is one such function only: where two differ first they agree on   *)
(* all packages imported.                                                  *)
LEMMA MeansIs ==
  ASSUME program \in Programs, NEW c,
         c = [p \in Packages |-> [n \in Name |-> FinalMeaning(c, p, n)]]
  PROVE  Means = c
<1> DEFINE F(g) == [p \in Packages |-> [n \in Name |-> FinalMeaning(g, p, n)]]
<1>1. Means = CHOOSE g : g = F(g)
  BY DEF Means, FinalMeaning
<1>2. Means = F(Means)
  BY <1>1
<1>3. \A p \in Packages : Means[p] = c[p]
  <2> DEFINE D == {p \in Packages : Means[p] # c[p]}
  <2> SUFFICES ASSUME D # {} PROVE FALSE
    OBVIOUS
  <2>1. D \in SUBSET Nat
    BY ProgramFacts
  <2>2. PICK p \in D : \A q \in D : p <= q
    BY <2>1, LeastNatural
  <2>3. p \in Packages /\ p \in Nat /\ Packages = 1..Len(program)
    BY <2>2, ProgramFacts
  <2>4. \A q \in 1..(p - 1) : Means[q] = c[q]
    BY <2>2, <2>3
  <2>5. \A n : FinalMeaning(Means, p, n) = FinalMeaning(c, p, n)
    <3>1. PICK m \in Nat : m = Entire(p)
      <4>1. Len(program[p]) \in Nat
        BY <2>3, ProgramFacts
      <4> QED BY <4>1 DEF Entire
    <3>2. PICK g : g = Means
      OBVIOUS
    <3>3. \A q \in 1..(p - 1) : g[q] = c[q]
      BY <2>4, <3>2
    <3>4. \A n : Meaning(g, p, n, m) = Meaning(c, p, n, m)
      <4> HIDE DEF D
      <4> QED BY ZenonT(40), <2>3, <3>3, SameMeaning
    <3> QED BY <2>3, <3>1, <3>2, <3>4, FinalMeaningIs
  <2>6. Means[p] = [n \in Name |-> FinalMeaning(Means, p, n)]
    BY <1>2, <2>3
  <2>7. c[p] = [n \in Name |-> FinalMeaning(c, p, n)]
    BY <2>3
  <2> QED BY <2>2, <2>5, <2>6, <2>7
<1> QED BY <1>2, <1>3
-----------------------------------------------------------------------------
(* What the contexts hold while they are filled: functions of the name     *)
(* they stand for, and of each package the meanings of the names as far as *)
(* its imports were looked at.                                             *)
Named(c) == \A p \in Packages : \A n \in Name :
  c[p][n] # NoDecl => ItemOf(c[p][n]).name = n
SoFar(c, p, m) == \A n \in Name : c[p][n] = Meaning(c, p, n, m)

Filling == {"register", "precheck"}
Filled(c, x, p, i) ==
  /\ Named(c)
  /\ x = "register" => i = 1
  /\ x = "check" \/ x \in Filling => \A q \in Packages :
       q < p \/ x \notin Filling => SoFar(c, q, Entire(q))
  /\ x = "precheck" => SoFar(c, p, i)
Nearest ==
  /\ pc \in Filling \cup {"check"} => Filled(context, pc, package, item)
  /\ pc \notin Filling => \A q \in Packages : SoFar(context, q, Entire(q))

(* In the next state it is said of the same program.                       *)
LEMMA NearestNext ==
  ASSUME program' = program,
         pc' \in Filling \cup {"check"} => Filled(context', pc', package', item'),
         pc' \notin Filling => \A q \in Packages : SoFar(context', q, Entire(q))
  PROVE  Nearest'
<1>1. /\ Packages' = Packages
      /\ \A d : ItemOf(d)' = ItemOf(d)
      /\ \A q : Entire(q)' = Entire(q)
  BY DEF Packages, ItemOf, Entire
<1>2. \A q, n : LastOfName(q, n)' = LastOfName(q, n) /\ Own(q, n)' = Own(q, n)
  BY DEF LastOfName, Own
<1>3. \A q, m : SoFar(context, q, m)' <=> SoFar(context', q, m)
  <2>1. \A q, n : Knowing(q, n, context)' = Knowing(q, n, context')
    BY DEF Knowing, ItemOf
  <2>2. \A q, n, m : KnowingBefore(context, q, n, m)' = KnowingBefore(context', q, n, m)
    BY <2>1 DEF KnowingBefore
  <2>3. \A q, n, m : Meaning(context, q, n, m)' = Meaning(context', q, n, m)
    BY <1>2, <2>2 DEF Meaning
  <2> QED BY <2>3 DEF SoFar
<1>4. Named(context)' <=> Named(context')
  BY DEF Named, Packages, ItemOf
<1>5. Filled(context, pc, package, item)' <=> Filled(context', pc', package', item')
  BY <1>1, <1>3, <1>4 DEF Filled
<1> QED BY <1>1, <1>3, <1>5 DEF Nearest

(* The function of a name is the last one of the package.                  *)
LEMMA LastFacts ==
  ASSUME program \in Programs, NEW p \in Packages, NEW n \in Name
  PROVE  /\ LastOfName(p, n) # NoDecl => ItemOf(LastOfName(p, n)).name = n
         /\ Own(p, n) # {} => LastOfName(p, n) # NoDecl
         /\ LastOfName(p, n) # NoDecl => Own(p, n) # {}
         /\ LastOfName(p, n) # NoDecl => LastOfName(p, n)[1] = p
<1>1. program[p] \in Seq(Item) /\ Len(program[p]) \in Nat
  BY ProgramFacts
<1>2. Own(p, n) \in SUBSET (1..Len(program[p]))
  BY <1>1 DEF Own
<1>3. Own(p, n) # {} => Greatest(Own(p, n)) \in Own(p, n)
  BY <1>1, <1>2, GreatestExists
<1>4. CASE Own(p, n) # {}
  <2>1. PICK i : i = Greatest(Own(p, n)) /\ i \in Own(p, n)
    BY <1>3, <1>4
  <2>2. i \in DOMAIN program[p] /\ program[p][i].do = "fn" /\ program[p][i].name = n
    BY <2>1 DEF Own
  <2>3. LastOfName(p, n) = <<p, i>>
    BY <1>4, <2>1 DEF LastOfName
  <2>4. <<p, i>> \in Decl /\ <<p, i>> # NoDecl
    BY <2>2, DeclFacts, ProgramFacts
  <2> QED BY <1>4, <2>2, <2>3, <2>4 DEF ItemOf
<1>5. CASE Own(p, n) = {}
  BY <1>5 DEF LastOfName
<1> QED BY <1>4, <1>5

(* Before any import was looked at a name means what the package declares. *)
LEMMA MeaningFirst ==
  ASSUME program \in Programs, NEW p \in Packages, NEW c, NEW n
  PROVE  Meaning(c, p, n, 1) = LastOfName(p, n)
<1>1. DOMAIN program[p] = 1..Len(program[p]) /\ Len(program[p]) \in Nat
  BY ProgramFacts
<1>2. \A i \in Knowing(p, n, c) : i \in 1..Len(program[p])
  BY <1>1 DEF Knowing
<1>3. \A i \in Knowing(p, n, c) : ~(i < 1)
  BY <1>1, <1>2
<1>4. KnowingBefore(c, p, n, 1) = {}
  BY <1>3 DEF KnowingBefore
<1> QED BY <1>4 DEF Meaning, LastOfName

(* Imports that know a name are items.                                     *)
LEMMA KnowingItems ==
  ASSUME program \in Programs, NEW p \in Packages, NEW c, NEW n
  PROVE  /\ Knowing(p, n, c) \subseteq DOMAIN program[p]
         /\ Knowing(p, n, c) \subseteq Nat /\ DOMAIN program[p] \subseteq Nat
<1>1. DOMAIN program[p] = 1..Len(program[p]) /\ Len(program[p]) \in Nat
  BY ProgramFacts
<1>2. DOMAIN program[p] \subseteq Nat
  BY <1>1
<1>3. Knowing(p, n, c) \subseteq DOMAIN program[p]
  BY DEF Knowing
<1> QED BY <1>2, <1>3

(* The least of a set.                                                     *)
LEMMA LeastIs ==
  ASSUME NEW S \in SUBSET Nat, NEW a \in S, \A j \in S : a <= j
  PROVE  LeastOf(S) = a
<1>1. \A i \in S : (\A j \in S : i <= j) => i = a
  OBVIOUS
<1> QED BY <1>1 DEF LeastOf

(* An item that does not know a name does not change what it means, nor    *)
(* does one behind an import that knows it.                                *)
LEMMA MeaningLater ==
  ASSUME program \in Programs, NEW p \in Packages, NEW m \in DOMAIN program[p],
         NEW c, NEW n,
         \/ m \notin Knowing(p, n, c)
         \/ Own(p, n) # {}
         \/ KnowingBefore(c, p, n, m) # {}
  PROVE  Meaning(c, p, n, m + 1) = Meaning(c, p, n, m)
<1>1. m \in Nat /\ Knowing(p, n, c) \subseteq Nat
  BY KnowingItems
<1>2. CASE Own(p, n) # {}
  BY <1>2 DEF Meaning
<1>3. CASE m \notin Knowing(p, n, c)
  <2>1. KnowingBefore(c, p, n, m + 1) = KnowingBefore(c, p, n, m)
    BY <1>1, <1>3 DEF KnowingBefore
  <2> QED BY <2>1 DEF Meaning
<1>4. CASE KnowingBefore(c, p, n, m) # {}
  <2>1. PICK S : S = KnowingBefore(c, p, n, m)
    OBVIOUS
  <2>2. PICK T : T = KnowingBefore(c, p, n, m + 1)
    OBVIOUS
  <2>3. S \subseteq T /\ (\A i \in T : i \in S \/ i = m) /\ (\A i \in S : i < m)
    BY <1>1, <2>1, <2>2 DEF KnowingBefore
  <2>4. S \subseteq Nat /\ T \subseteq Nat /\ S # {}
    BY <1>1, <1>4, <2>1, <2>2 DEF KnowingBefore
  <2>5. PICK a \in S : \A j \in S : a <= j
    BY <2>4, LeastNatural
  <2>6. \A j \in T : a <= j
    BY <1>1, <2>3, <2>4, <2>5
  <2>7. LeastOf(S) = a
    BY <2>4, <2>5, LeastIs
  <2>8. LeastOf(T) = a
    BY <2>3, <2>4, <2>5, <2>6, LeastIs
  <2> QED BY <2>1, <2>2, <2>4, <2>3, <2>5, <2>7, <2>8 DEF Meaning
<1> QED BY <1>2, <1>3, <1>4

(* The first import that knows a name says what it means.                  *)
LEMMA MeaningFound ==
  ASSUME program \in Programs, NEW p \in Packages, NEW m \in DOMAIN program[p],
         NEW c, NEW n,
         m \in Knowing(p, n, c), Own(p, n) = {}, KnowingBefore(c, p, n, m) = {}
  PROVE  Meaning(c, p, n, m + 1) = c[program[p][m].from][n]
<1>1. m \in Nat /\ Knowing(p, n, c) \subseteq Nat
  BY KnowingItems
<1>2. KnowingBefore(c, p, n, m + 1) = {m}
  BY <1>1 DEF KnowingBefore
<1>3. LeastOf({m}) = m
  BY <1>1 DEF LeastOf
<1> QED BY <1>2, <1>3 DEF Meaning

(* A name has a meaning so far exactly if the package declares it or an    *)
(* import before knows it.                                                 *)
LEMMA MeaningNone ==
  ASSUME program \in Programs, NEW p \in Packages, NEW m, NEW c, NEW n \in Name
  PROVE  Meaning(c, p, n, m) = NoDecl
           <=> Own(p, n) = {} /\ KnowingBefore(c, p, n, m) = {}
<1>1. CASE Own(p, n) # {}
  BY <1>1, LastFacts DEF Meaning
<1>2. CASE Own(p, n) = {} /\ KnowingBefore(c, p, n, m) = {}
  BY <1>2 DEF Meaning
<1>3. CASE Own(p, n) = {} /\ KnowingBefore(c, p, n, m) # {}
  <2>1. DOMAIN program[p] = 1..Len(program[p]) /\ Len(program[p]) \in Nat
    BY ProgramFacts
  <2>2. PICK S : S = KnowingBefore(c, p, n, m) /\ S # {}
    BY <1>3
  <2>3. S \subseteq Nat
    BY SMTT(30), <2>1, <2>2 DEF KnowingBefore, Knowing
  <2>4. PICK a : a = LeastOf(S) /\ a \in S
    BY <2>2, <2>3, LeastNatural DEF LeastOf
  <2>5. c[program[p][a].from][n] # NoDecl
    BY <2>2, <2>4 DEF KnowingBefore, Knowing
  <2> QED BY <1>3, <2>2, <2>4, <2>5 DEF Meaning
<1> QED BY <1>1, <1>2, <1>3
(* A context that is filled later does not matter to the packages before.  *)
LEMMA SoFarKept ==
  ASSUME program \in Programs, NEW c, NEW d, NEW p \in Packages, NEW q \in Packages,
         q < p, \A r \in Packages : r # p => c[r] = d[r], SoFar(c, q, Entire(q))
  PROVE  SoFar(d, q, Entire(q))
<1>1. Packages = 1..Len(program) /\ Len(program) \in Nat
  BY ProgramFacts
<1>2. PICK m \in Nat : m = Entire(q)
  <2>1. Len(program[q]) \in Nat
    BY ProgramFacts
  <2> QED BY <2>1 DEF Entire
<1>3. \A r \in 1..(q - 1) : c[r] = d[r]
  BY <1>1
<1>4. \A n : Meaning(c, q, n, m) = Meaning(d, q, n, m)
  BY <1>3, SameMeaning
<1>5. c[q] = d[q]
  BY <1>1
<1> QED BY <1>2, <1>4, <1>5 DEF SoFar

(* The functions of a package are entered.                                 *)
LEMMA NearestRegister == Typed /\ Nearest /\ RegisterFunctions => Nearest'
<1> SUFFICES ASSUME Typed, Nearest, RegisterFunctions PROVE Nearest'
  OBVIOUS
<1>1. /\ program \in Programs /\ package \in Packages
      /\ context \in [Packages -> [Name -> Decl \cup {NoDecl}]]
      /\ pc = "register" /\ Packages = 1..Len(program) /\ Len(program) \in Nat
  BY ProgramFacts DEF Typed, FrontOK, RegisterFunctions
<1>2. Filled(context, pc, package, item)
  BY <1>1 DEF Nearest, Filling
<1>3. PICK c : c = context'
  OBVIOUS
<1>4. /\ c[package] = [n \in Name |-> LastOfName(package, n)]
      /\ \A r \in Packages : r # package => context[r] = c[r]
  BY <1>1, <1>3 DEF RegisterFunctions
<1>5. Named(c)
  <2>1. ASSUME NEW p \in Packages, NEW n \in Name, c[p][n] # NoDecl
        PROVE  ItemOf(c[p][n]).name = n
    <3>1. CASE p = package
      BY <1>1, <1>4, <2>1, <3>1, LastFacts
    <3>2. CASE p # package
      <4>1. c[p] = context[p]
        BY <1>4, <3>2
      <4> QED BY <1>2, <2>1, <4>1 DEF Filled, Named
    <3> QED BY <3>1, <3>2
  <2> QED BY <2>1 DEF Named
<1>6. \A q \in Packages : q < package => SoFar(c, q, Entire(q))
  <2>1. \A q \in Packages : q < package => SoFar(context, q, Entire(q))
    BY <1>1, <1>2 DEF Filled, Filling
  <2> QED BY <1>1, <1>4, <2>1, SoFarKept
<1>7. SoFar(c, package, 1)
  BY <1>1, <1>4, MeaningFirst DEF SoFar
<1>8. item = 1 /\ item' = item /\ package' = package /\ pc' = "precheck" /\ program' = program
  BY <1>1, <1>2 DEF Filled, RegisterFunctions
<1>9. Filled(c, pc', package', item')
  BY <1>5, <1>6, <1>7, <1>8 DEF Filled, Filling
<1> QED BY <1>3, <1>8, <1>9, NearestNext DEF Filling

(* What an import statement brings under a name.                           *)
LEMMA BroughtIs ==
  ASSUME program \in Programs, NEW p \in Packages, NEW i \in DOMAIN program[p],
         program[p][i].do = "import",
         context \in [Packages -> [Name -> Decl \cup {NoDecl}]], Named(context),
         NEW n \in Name
  PROVE  /\ (\E d \in Imported(p, i) : ItemOf(d).name = n)
              <=> i \in Knowing(p, n, context) /\ context[p][n] = NoDecl
         /\ \A d \in Imported(p, i) :
              ItemOf(d).name = n => d = context[program[p][i].from][n]
<1>1. PICK q \in Packages : q = program[p][i].from
  BY ProgramFacts
<1>2. context[q] \in [Name -> Decl \cup {NoDecl}]
  BY <1>1
<1>3. \A d \in Range(context[q]) \ {NoDecl} :
        ItemOf(d).name \in Name /\ d = context[q][ItemOf(d).name]
  BY <1>2 DEF Named, Range
<1>4. ASSUME NEW d \in Imported(p, i), ItemOf(d).name = n
      PROVE  d = context[q][n] /\ i \in Knowing(p, n, context) /\ context[p][n] = NoDecl
  <2>1. /\ d \in Range(context[q]) \ {NoDecl}
        /\ ItemOf(d).pub \/ ItemOf(d).ext
        /\ context[p][ItemOf(d).name] = NoDecl
    BY <1>1 DEF Imported
  <2>2. d = context[q][n] /\ d # NoDecl
    BY <1>3, <1>4, <2>1
  <2> QED BY <1>1, <1>4, <2>1, <2>2 DEF Knowing
<1>5. ASSUME i \in Knowing(p, n, context), context[p][n] = NoDecl
      PROVE  \E d \in Imported(p, i) : ItemOf(d).name = n
  <2>1. PICK d : d = context[q][n]
    OBVIOUS
  <2>2. d # NoDecl /\ (ItemOf(d).pub \/ ItemOf(d).ext)
    BY <1>1, <1>5, <2>1 DEF Knowing
  <2>3. d \in Range(context[q]) \ {NoDecl}
    BY <1>2, <2>1, <2>2 DEF Range
  <2>4. ItemOf(d).name = n
    BY <1>1, <2>1, <2>2 DEF Named
  <2>5. d \in Imported(p, i)
    BY <1>1, <1>5, <2>2, <2>3, <2>4 DEF Imported
  <2> QED BY <2>4, <2>5
<1> QED BY <1>1, <1>4, <1>5

(* An import statement gives the names it knows their meaning.             *)
LEMMA NearestImport == Typed /\ Nearest /\ PrecheckImport => Nearest'
<1> SUFFICES ASSUME Typed, Nearest, PrecheckImport PROVE Nearest'
  OBVIOUS
<1>1. /\ program \in Programs /\ package \in Packages
      /\ context \in [Packages -> [Name -> Decl \cup {NoDecl}]]
      /\ pc = "precheck" /\ Packages = 1..Len(program) /\ Len(program) \in Nat
  BY ProgramFacts DEF Typed, FrontOK, PrecheckImport
<1>2. /\ item \in DOMAIN program[package]
      /\ program[package][item].do = "import"
      /\ program[package][item].from \in 1..(package - 1)
  BY <1>1, ProgramFacts DEF PrecheckImport, Pending, Here
<1>3. Filled(context, pc, package, item)
  BY <1>1 DEF Nearest, Filling
<1>4. PICK q \in Packages : q = program[package][item].from /\ q # package
  BY <1>1, <1>2
<1>5. PICK new : new = Imported(package, item)
  OBVIOUS
<1>6. PICK c : c = context'
  OBVIOUS
<1>7. /\ \A r \in Packages : r # package => context[r] = c[r]
      /\ \A n \in Name : c[package][n] =
           IF \E d \in new : ItemOf(d).name = n
           THEN CHOOSE d \in new : ItemOf(d).name = n ELSE context[package][n]
  BY <1>1, <1>5, <1>6 DEF PrecheckImport
<1>8. ASSUME NEW n \in Name
      PROVE  c[package][n] = IF item \in Knowing(package, n, context)
                                /\ context[package][n] = NoDecl
                             THEN context[q][n] ELSE context[package][n]
  <2>1. /\ (\E d \in new : ItemOf(d).name = n)
             <=> item \in Knowing(package, n, context) /\ context[package][n] = NoDecl
        /\ \A d \in new : ItemOf(d).name = n => d = context[q][n]
    BY <1>1, <1>2, <1>3, <1>4, <1>5, BroughtIs DEF Filled
  <2>2. CASE \E d \in new : ItemOf(d).name = n
    <3>1. PICK d : d = CHOOSE e \in new : ItemOf(e).name = n
      OBVIOUS
    <3>2. d \in new /\ ItemOf(d).name = n
      BY <2>2, <3>1
    <3> QED BY <1>7, <2>1, <2>2, <3>1, <3>2
  <2>3. CASE ~\E d \in new : ItemOf(d).name = n
    BY <1>7, <2>1, <2>3
  <2> QED BY <2>2, <2>3
<1>9. Named(c)
  <2>1. ASSUME NEW p \in Packages, NEW n \in Name, c[p][n] # NoDecl
        PROVE  ItemOf(c[p][n]).name = n
    <3>1. CASE p = package
      BY <1>1, <1>3, <1>4, <1>8, <2>1, <3>1 DEF Filled, Named
    <3>2. CASE p # package
      <4>1. c[p] = context[p]
        BY <1>7, <3>2
      <4> QED BY <1>3, <2>1, <4>1 DEF Filled, Named
    <3> QED BY <3>1, <3>2
  <2> QED BY <2>1 DEF Named
<1>10. \A r \in Packages : r < package => SoFar(c, r, Entire(r))
  <2>1. \A r \in Packages : r < package => SoFar(context, r, Entire(r))
    BY <1>1, <1>3 DEF Filled, Filling
  <2> SUFFICES ASSUME NEW r \in Packages, r < package
               PROVE  SoFar(c, r, Entire(r))
    OBVIOUS
  <2>2. \A x \in Packages : x # package => context[x] = c[x]
    BY <1>7
  <2>3. program \in Programs /\ package \in Packages
    BY <1>1, <1>3 DEF Filled, Filling
  <2> QED BY <2>1, <2>2, <2>3, SoFarKept
<1>11. SoFar(c, package, item + 1)
  <2> SUFFICES ASSUME NEW n \in Name
               PROVE  c[package][n] = Meaning(c, package, n, item + 1)
    BY DEF SoFar
  <2>1. item + 1 \in Nat
    BY SMTT(30), <1>1, <1>2, KnowingItems
  <2>2. \A r \in 1..(package - 1) : context[r] = c[r]
    BY <1>1, <1>7
  <2>3. Meaning(c, package, n, item + 1) = Meaning(context, package, n, item + 1)
    <3>1. \A m \in Nat : \A k : Meaning(context, package, k, m) = Meaning(c, package, k, m)
      BY ZenonT(40), <1>1, <2>2, SameMeaning
    <3> QED BY <2>1, <3>1, Zenon
  <2>4. context[package][n] = Meaning(context, package, n, item)
    BY <1>1, <1>3 DEF Filled, SoFar
  <2>5. CASE item \in Knowing(package, n, context) /\ context[package][n] = NoDecl
    <3>1. Own(package, n) = {} /\ KnowingBefore(context, package, n, item) = {}
      BY <1>1, <2>4, <2>5, MeaningNone
    <3>2. Meaning(context, package, n, item + 1) = context[q][n]
      BY <1>1, <1>2, <1>4, <2>5, <3>1, MeaningFound
    <3> QED BY <1>8, <2>3, <2>5, <3>2
  <2>6. CASE ~(item \in Knowing(package, n, context) /\ context[package][n] = NoDecl)
    <3>1. \/ item \notin Knowing(package, n, context)
          \/ Own(package, n) # {}
          \/ KnowingBefore(context, package, n, item) # {}
      BY <1>1, <2>4, <2>6, MeaningNone
    <3>2. Meaning(context, package, n, item + 1) = Meaning(context, package, n, item)
      BY <1>1, <1>2, <3>1, MeaningLater
    <3> QED BY <1>8, <2>3, <2>4, <2>6, <3>2
  <2> QED BY <2>5, <2>6
<1>12. /\ item' = item + 1 /\ package' = package /\ pc' = "precheck"
       /\ program' = program
  BY <1>1 DEF PrecheckImport
<1>13. Filled(c, pc', package', item')
  BY <1>9, <1>10, <1>11, <1>12 DEF Filled, Filling
<1> QED BY <1>6, <1>12, <1>13, NearestNext DEF Filling

(* The other steps leave the contexts.                                     *)
LEMMA NearestOther ==
  Typed /\ Nearest /\ (PrecheckFunction \/ PrecheckNext) => Nearest'
<1> SUFFICES ASSUME Typed, Nearest, PrecheckFunction \/ PrecheckNext PROVE Nearest'
  OBVIOUS
<1>1. /\ program \in Programs /\ package \in Packages
      /\ pc = "precheck" /\ Packages = 1..Len(program) /\ Len(program) \in Nat
      /\ program' = program /\ context' = context
  BY ProgramFacts DEF Typed, FrontOK, PrecheckFunction, PrecheckNext, front
<1>2. /\ DOMAIN program[package] = 1..Len(program[package])
      /\ Len(program[package]) \in Nat
      /\ item \in 1..(Len(program[package]) + 1)
  BY <1>1, ProgramFacts DEF Typed, FrontOK
<1>3. Filled(context, pc, package, item)
  BY <1>1 DEF Nearest, Filling
<1>4. CASE PrecheckFunction
  <2>1. /\ item \in DOMAIN program[package] /\ program[package][item].do = "fn"
        /\ item' = item + 1 /\ package' = package /\ pc' = "precheck"
    BY <1>1, <1>4 DEF PrecheckFunction, Pending, Here
  <2>2. \A n : item \notin Knowing(package, n, context)
    BY <2>1 DEF Knowing
  <2>3. \A n : Meaning(context, package, n, item + 1) = Meaning(context, package, n, item)
    BY <1>1, <2>1, <2>2, MeaningLater
  <2>4. SoFar(context, package, item + 1)
    BY <1>1, <1>3, <2>3 DEF Filled, SoFar
  <2>5. Filled(context', pc', package', item')
    BY <1>1, <1>3, <2>1, <2>4 DEF Filled, Filling
  <2> QED BY <1>1, <2>1, <2>5, NearestNext DEF Filling
<1>5. CASE PrecheckNext
  <2>1. item = Entire(package)
    BY <1>2, <1>5 DEF PrecheckNext, Pending, Entire
  <2>2. \A q \in Packages : q <= package => SoFar(context, q, Entire(q))
    BY <1>1, <1>3, <2>1 DEF Filled, Filling
  <2>3. CASE package < Len(program)
    <3>1. pc' = "register" /\ package' = package + 1 /\ item' = 1
      BY <1>5, <2>3 DEF PrecheckNext
    <3>2. \A q \in Packages : q < package' => q <= package
      BY <1>1, <3>1
    <3>3. Filled(context', pc', package', item')
      BY <1>1, <1>3, <2>2, <3>1, <3>2 DEF Filled, Filling
    <3> QED BY <1>1, <3>1, <3>3, NearestNext DEF Filling
  <2>4. CASE ~(package < Len(program))
    <3>1. pc' = "check" /\ package' = 1 /\ item' = 1
      BY <1>5, <2>4 DEF PrecheckNext
    <3>2. \A q \in Packages : q <= package
      BY <1>1, <2>4
    <3>3. \A q \in Packages : SoFar(context', q, Entire(q))
      BY <1>1, <2>2, <3>2
    <3>4. Filled(context', pc', package', item')
      BY <1>1, <1>3, <3>1, <3>3 DEF Filled, Filling
    <3> QED BY <1>1, <3>1, <3>3, <3>4, NearestNext DEF Filling
  <2> QED BY <2>3, <2>4
<1> QED BY <1>4, <1>5

(* Every step keeps it: the generator does not touch the contexts.         *)
LEMMA NearestStep == Typed /\ Nearest /\ [Next]_vars => Nearest'
<1> SUFFICES ASSUME Typed, Nearest, [Next]_vars PROVE Nearest'
  OBVIOUS
<1>1. CASE RegisterFunctions
  BY <1>1, NearestRegister
<1>2. CASE PrecheckImport
  BY <1>2, NearestImport
<1>3. CASE PrecheckFunction \/ PrecheckNext
  BY <1>3, NearestOther
<1>4. CASE UNCHANGED vars
  <2>1. /\ program' = program /\ context' = context /\ pc' = pc
        /\ package' = package /\ item' = item
    BY <1>4 DEF vars, front
  <2> QED BY <2>1, NearestNext DEF Nearest
<1>5. CASE \/ CheckCalls \/ VisitImport \/ VisitExternal \/ VisitFunction \/ VisitCached
           \/ EmitCall \/ DeclareCalled \/ EnterCalled \/ Overflow \/ LeaveFunction
           \/ NextPackage
  <2>1. program' = program /\ context' = context
        /\ pc \in {"check", "generate"} /\ pc' \in {"unknown", "generate", "overflow", "done"}
    BY <1>5 DEF CheckCalls, VisitImport, VisitExternal, VisitFunction, VisitCached,
         EmitCall, DeclareCalled, EnterCalled, Overflow, LeaveFunction, NextPackage,
         Generating, Calling, front
  <2>2. pc \notin Filling /\ pc' \notin Filling \cup {"check"}
    BY <2>1 DEF Filling
  <2> QED BY <2>1, <2>2, NearestNext DEF Nearest
<1> QED BY <1>1, <1>2, <1>3, <1>4, <1>5 DEF Next

LEMMA NearestInit == Init => Nearest
<1> SUFFICES ASSUME Init PROVE Nearest
  OBVIOUS
<1>1. Typed
  BY TypedInit
<1>2. Named(context)
  BY DEF Init, Named, Packages
<1>3. Packages = 1..Len(program) /\ Len(program) \in Nat
  BY <1>1, ProgramFacts DEF Typed
<1>4. Filled(context, pc, package, item)
  BY <1>2, <1>3 DEF Init, Filled, Filling
<1> QED BY <1>4 DEF Init, Nearest, Filling

(* In every program of packages that import packages before them, and in   *)
(* whichever order and along whichever ways: a name means in the end the   *)
(* last function of its own package, or else what the first import that    *)
(* knows one it may see means by it.                                       *)
THEOREM NamesAreNearest == Spec => []NamesMeanNearest
<1>1. Init => Nearest
  BY NearestInit
<1>2. Typed /\ Nearest => NamesMeanNearest
  <2> SUFFICES ASSUME Typed, Nearest, pc \in {"check", "generate", "done"}
               PROVE  \A p \in Packages : \A n \in Name : context[p][n] = Means[p][n]
    BY DEF NamesMeanNearest
  <2>1. \A q \in Packages : SoFar(context, q, Entire(q))
    BY DEF Nearest, Filling
  <2>2. context \in [Packages -> [Name -> Decl \cup {NoDecl}]] /\ program \in Programs
    BY DEF Typed, FrontOK
  <2>3. \A q \in Packages : \A n \in Name : context[q][n] = FinalMeaning(context, q, n)
    BY <2>1, <2>2, FinalMeaningIs DEF SoFar
  <2>4. context = [q \in Packages |-> [n \in Name |-> FinalMeaning(context, q, n)]]
    BY <2>2, <2>3
  <2> QED BY <2>2, <2>4, MeansIs
<1>3. Spec => [](Typed /\ Nearest)
  <2>1. Init => Typed /\ Nearest
    BY <1>1, TypedInit
  <2>2. (Typed /\ Nearest) /\ [Next]_vars => (Typed /\ Nearest)'
    BY TypedNext, NearestStep
  <2> QED BY <2>1, <2>2, PTL DEF Spec
<1> QED BY <1>2, <1>3, PTL

-----------------------------------------------------------------------------
(* Names come from the package itself and from those before it.            *)
Backward ==
  /\ \A p \in Packages : \A n \in Name : context[p][n] # NoDecl => context[p][n][1] <= p
  /\ \A p \in Packages : \A j \in DOMAIN program[p] : \A d \in imports[p][j] : d[1] < p

(* The calls are checked from the first package on.                        *)
FirstChecked == pc = "check" => package = 1

(* Names come from packages before, whatever is imported.                  *)
LEMMA BackwardNext == Typed /\ Backward /\ [Next]_vars => Backward'
<1> SUFFICES ASSUME Typed, Backward, [Next]_vars PROVE Backward'
  OBVIOUS
<1>1. /\ program' = program /\ Packages' = Packages /\ package \in Packages
      /\ Packages = 1..Len(program) /\ Len(program) \in Nat
  <2>1. program' = program
    BY DEF Next, vars, RegisterFunctions, PrecheckImport, PrecheckFunction, PrecheckNext,
           CheckCalls, VisitImport, VisitExternal, VisitFunction, VisitCached, EmitCall,
           DeclareCalled, EnterCalled, Overflow, LeaveFunction, NextPackage
  <2> QED BY <2>1, ProgramFacts DEF Packages, Typed, FrontOK
<1>2. CASE RegisterFunctions
  <2>1. \A n \in Name : LastOfName(package, n) = NoDecl \/ LastOfName(package, n)[1] <= package
    BY <1>1 DEF LastOfName
  <2>2. \A p \in Packages : \A n \in Name :
          context'[p][n] = IF p = package THEN LastOfName(package, n) ELSE context[p][n]
    BY <1>1, <1>2 DEF RegisterFunctions, Typed, FrontOK
  <2>3. imports' = imports
    BY <1>2 DEF RegisterFunctions
  <2> QED BY <1>1, <2>1, <2>2, <2>3 DEF Backward
<1>3. CASE PrecheckImport
  <2>1. PICK new : new = Imported(package, item)
    OBVIOUS
  <2>2. /\ item \in DOMAIN program[package]
        /\ program[package][item].from \in 1..(package - 1)
    <3>1. item \in DOMAIN program[package] /\ program[package][item].do = "import"
      BY <1>3 DEF PrecheckImport, Pending, Here
    <3> QED BY <1>1, <3>1, ProgramFacts DEF Typed
  <2>3. PICK q \in Packages : q = program[package][item].from /\ q < package
    BY <1>1, <2>2
  <2>4. ASSUME NEW d \in new
        PROVE  d[1] < package
    <3>1. PICK n \in Name : d = context[q][n] /\ d # NoDecl
      <4>1. DOMAIN context[q] = Name
        BY DEF Typed, FrontOK
      <4> QED BY <2>1, <2>3, <4>1 DEF Imported, Range
    <3>2. d[1] <= q /\ d \in Decl
      BY <3>1 DEF Backward, Typed, FrontOK
    <3>3. d[1] \in Packages
      BY <3>2, DeclFacts DEF Typed
    <3> QED BY <1>1, <2>3, <3>2, <3>3
  <2>5. /\ imports' = [imports EXCEPT ![package][item] = new]
        /\ \A p \in Packages : p # package => context'[p] = context[p]
        /\ \A n \in Name : context'[package][n] \in new \cup {context[package][n]}
    <3>1. imports' = [imports EXCEPT ![package][item] = new]
      BY <1>3, <2>1 DEF PrecheckImport
    <3>2. context' = [context EXCEPT ![package] =
            [n \in Name |-> IF \E d \in new : ItemOf(d).name = n
                            THEN CHOOSE d \in new : ItemOf(d).name = n
                            ELSE @[n]]]
      BY <1>3, <2>1 DEF PrecheckImport
    <3>3. DOMAIN context = Packages
      BY DEF Typed, FrontOK
    <3>4. \A n : (\E d \in new : ItemOf(d).name = n)
                   => (CHOOSE d \in new : ItemOf(d).name = n) \in new
      OBVIOUS
    <3> QED BY <1>1, <3>1, <3>2, <3>3, <3>4
  <2>6. ASSUME NEW p \in Packages, NEW n \in Name, context'[p][n] # NoDecl
        PROVE  context'[p][n][1] <= p
    <3>1. CASE p = package /\ context'[p][n] \in new
      <4>1. PICK d \in new : d = context'[p][n]
        BY <3>1
      <4>2. d[1] \in Int
        <5>1. d \in Decl
          <6>1. context[q] \in [Name -> Decl \cup {NoDecl}]
            BY DEF Typed, FrontOK
          <6> QED BY <2>1, <2>3, <6>1 DEF Imported, Range
        <5> QED BY <1>1, <5>1, DeclFacts DEF Typed
      <4> QED BY <1>1, <2>4, <3>1, <4>1, <4>2
    <3>2. CASE context'[p][n] = context[p][n]
      BY <2>6, <3>2 DEF Backward
    <3> QED BY <2>5, <3>1, <3>2
  <2>7. ASSUME NEW p \in Packages, NEW j \in DOMAIN program[p], NEW d \in imports'[p][j]
        PROVE  d[1] < p
    <3>1. imports'[p][j] = IF p = package /\ j = item THEN new ELSE imports[p][j]
      BY <2>5 DEF Typed, FrontOK
    <3> QED BY <2>4, <2>7, <3>1 DEF Backward
  <2> QED BY <1>1, <2>6, <2>7 DEF Backward
<1>4. CASE UNCHANGED front
  BY <1>1, <1>4 DEF front, Backward
<1> QED
  BY <1>2, <1>3, <1>4
     DEF Next, vars, PrecheckFunction, PrecheckNext, CheckCalls, VisitImport, VisitExternal,
         VisitFunction, VisitCached, EmitCall, DeclareCalled, EnterCalled, Overflow,
         LeaveFunction, NextPackage

LEMMA FirstCheckedNext == FirstChecked /\ [Next]_vars => FirstChecked'
  BY DEF FirstChecked, Next, vars, RegisterFunctions, PrecheckImport, PrecheckFunction,
         PrecheckNext, CheckCalls, VisitImport, VisitExternal, VisitFunction, VisitCached,
         EmitCall, DeclareCalled, EnterCalled, Overflow, LeaveFunction, NextPackage,
         Generating, Calling

-----------------------------------------------------------------------------
(* Functions that call themselves, and functions from which all calls come *)
(* back.                                                                   *)
Reach(d) == CalledFrom({d})
Recursive(d) == d \in Reach(d)
Tame(d) == ~Recursive(d) /\ \A e \in Reach(d) : ~Recursive(e)

(* Every call means a function.                                            *)
AllResolved == \A d \in Decl : \A k \in Calls(d) : Callee(d, k) \in Decl

LEMMA CalleesAre ==
  ASSUME NEW S
  PROVE  /\ \A d \in S : \A k \in Calls(d) : Callee(d, k) \in Callees(S)
         /\ \A e \in Callees(S) : \E d \in S : \E k \in Calls(d) : e = Callee(d, k)
  BY DEF Callees

LEMMA ReachFacts ==
  ASSUME AllResolved, NEW d \in Decl
  PROVE  /\ Reach(d) \in SUBSET Decl
         /\ \A k \in Calls(d) : Callee(d, k) \in Reach(d)
         /\ \A e \in Reach(d) : \A k \in Calls(e) : Callee(e, k) \in Reach(d)
<1>1. Reach(d) \in SUBSET Decl
  BY DEF Reach, CalledFrom
<1>2. ASSUME NEW k \in Calls(d) PROVE Callee(d, k) \in Reach(d)
  <2>1. Callee(d, k) \in Decl
    BY <1>2 DEF AllResolved
  <2>2. Callee(d, k) \in Callees({d})
    BY <1>2, CalleesAre
  <2> QED BY <2>1, <2>2 DEF Reach, CalledFrom
<1>3. ASSUME NEW e \in Reach(d), NEW k \in Calls(e) PROVE Callee(e, k) \in Reach(d)
  <2>1. Callee(e, k) \in Decl
    BY <1>1, <1>3 DEF AllResolved
  <2>2. ASSUME NEW T \in SUBSET Decl, Callees({d}) \subseteq T, Callees(T) \subseteq T
        PROVE  Callee(e, k) \in T
    <3>1. e \in T
      BY <2>2 DEF Reach, CalledFrom
    <3> QED BY <2>2, <3>1, CalleesAre
  <2> QED BY <2>1, <2>2 DEF Reach, CalledFrom
<1> QED BY <1>1, <1>2, <1>3

(* It is the least such set.                                               *)
LEMMA ReachLeast ==
  ASSUME NEW d \in Decl, NEW T \in SUBSET Decl,
         \A k \in Calls(d) : Callee(d, k) \in T,
         \A e \in T : \A k \in Calls(e) : Callee(e, k) \in T
  PROVE  Reach(d) \subseteq T
<1>1. Callees({d}) \subseteq T
  BY CalleesAre
<1>2. Callees(T) \subseteq T
  BY CalleesAre
<1> QED BY <1>1, <1>2 DEF Reach, CalledFrom

LEMMA ReachThrough ==
  ASSUME AllResolved, NEW d \in Decl, NEW e \in Reach(d)
  PROVE  e \in Decl /\ Reach(e) \subseteq Reach(d)
<1>1. e \in Decl /\ Reach(d) \in SUBSET Decl
  BY ReachFacts
<1>2. /\ \A k \in Calls(e) : Callee(e, k) \in Reach(d)
      /\ \A c \in Reach(d) : \A k \in Calls(c) : Callee(c, k) \in Reach(d)
  BY ReachFacts
<1> QED BY <1>1, <1>2, ReachLeast

(* A function comes back if all it calls do.                               *)
LEMMA TameStep ==
  ASSUME AllResolved, NEW d \in Decl, \A k \in Calls(d) : Tame(Callee(d, k))
  PROVE  Tame(d)
<1> DEFINE Direct == {e \in Decl : \E k \in Calls(d) : e = Callee(d, k)}
           T == {e \in Decl : e \in Direct \/ \E c \in Direct : e \in Reach(c)}
<1>1. Reach(d) \subseteq T
  <2>1. \A k \in Calls(d) : Callee(d, k) \in T
    BY DEF AllResolved
  <2>2. ASSUME NEW e \in T, NEW k \in Calls(e)
        PROVE  Callee(e, k) \in T
    <3>1. Callee(e, k) \in Decl
      BY <2>2 DEF AllResolved
    <3>2. CASE e \in Direct
      BY <2>2, <3>1, <3>2, ReachFacts
    <3>3. CASE \E c \in Direct : e \in Reach(c)
      <4>1. PICK c \in Direct : e \in Reach(c)
        BY <3>3
      <4>2. Callee(e, k) \in Reach(c)
        BY <2>2, <4>1, ReachFacts
      <4> QED BY <3>1, <4>2
    <3> QED BY <3>2, <3>3
  <2>3. T \in SUBSET Decl
    OBVIOUS
  <2> HIDE DEF T
  <2> QED BY <2>1, <2>2, <2>3, ReachLeast
<1>2. \A c \in Direct : Tame(c)
  OBVIOUS
<1>3. ~Recursive(d)
  <2> SUFFICES ASSUME Recursive(d) PROVE FALSE
    OBVIOUS
  <2>1. d \in T /\ d \in Reach(d)
    BY <1>1 DEF Recursive
  <2>2. CASE d \in Direct
    BY <1>2, <2>1, <2>2 DEF Tame, Recursive
  <2>3. CASE \E c \in Direct : d \in Reach(c)
    <3>1. PICK c \in Direct : d \in Reach(c)
      BY <2>3
    <3>2. c \in Reach(d)
      BY <3>1, ReachFacts
    <3>3. c \in Reach(c)
      BY <3>1, <3>2, ReachThrough
    <3> QED BY <1>2, <3>3 DEF Tame, Recursive
  <2> QED BY <2>1, <2>2, <2>3
<1>4. ASSUME NEW e \in Reach(d) PROVE ~Recursive(e)
  BY <1>1, <1>2, <1>4 DEF Tame
<1> QED BY <1>3, <1>4 DEF Tame

-----------------------------------------------------------------------------
(* What the generator keeps.  All it has behind it comes back, and every   *)
(* activation is reached from those below it.                              *)
Behind(d) == stack # <<>> => stack[1].of # d
Settled ==
  /\ \A d \in Decl : cache[d] # 0 => Tame(d)
  /\ \A d \in Decl : d[1] < package => Tame(d)
  /\ \A d \in Decl : d[1] = package /\ d[2] < item /\ Behind(d) => Tame(d)
  /\ \A i \in DOMAIN stack : \A k \in Calls(stack[i].of) :
       k < stack[i].next => Tame(Callee(stack[i].of, k))
Chained ==
  \A j \in DOMAIN stack :
    /\ stack[j].of[1] <= package
    /\ \A i \in 1..(j - 1) : stack[j].of \in Reach(stack[i].of)
Terminating ==
  /\ pc = "generate" => Settled /\ Chained
  /\ pc = "overflow" => \E d \in Decl : d[1] = package /\ Recursive(d)
  /\ pc = "done" => \A d \in Decl : Tame(d)

LEMMA ResolvedAll ==
  ASSUME Typed, pc \in {"generate", "done", "overflow"}
  PROVE  AllResolved
<1> SUFFICES ASSUME NEW d \in Decl, NEW k \in Calls(d)
             PROVE  Callee(d, k) \in Decl
  BY DEF AllResolved
<1>1. k \in DOMAIN ItemOf(d).calls
  BY DEF Calls
<1> QED BY <1>1, CalleeType DEF Typed, Resolved

(* What reaches what does not change any more.                             *)
LEMMA ReachKept ==
  ASSUME UNCHANGED <<program, front>>
  PROVE  /\ Decl' = Decl
         /\ \A d : Calls(d)' = Calls(d)
         /\ \A d, k : Callee(d, k)' = Callee(d, k)
         /\ \A d : Reach(d)' = Reach(d)
         /\ \A d : Tame(d)' <=> Tame(d)
         /\ \A d : Recursive(d)' <=> Recursive(d)
<1>1. program' = program /\ context' = context
  BY DEF front
<1>2. /\ Decl' = Decl
      /\ \A d : Calls(d)' = Calls(d)
      /\ \A d, k : Callee(d, k)' = Callee(d, k)
  BY <1>1 DEF Decl, Calls, Callee, ItemOf
<1>3. \A S : Callees(S)' = Callees(S)
  BY <1>2 DEF Callees
<1>4. \A d : Reach(d)' = Reach(d)
  BY <1>2, <1>3 DEF Reach, CalledFrom
<1>5. \A d : Recursive(d)' <=> Recursive(d)
  BY <1>4 DEF Recursive
<1>6. \A d : Tame(d)' <=> Tame(d)
  BY <1>4, <1>5 DEF Tame
<1> QED BY <1>2, <1>4, <1>5, <1>6

(* An external function calls nothing.                                     *)
LEMMA ExternalIsTame ==
  ASSUME AllResolved, NEW d \in Decl, ItemOf(d).ext
  PROVE  Tame(d)
  BY TameStep DEF Calls

(* A declaration is in its package, at its position.                       *)
LEMMA PlaceFacts ==
  ASSUME Typed, NEW d \in Decl
  PROVE  /\ d[1] \in Nat /\ d[2] \in Nat \ {0} /\ d = <<d[1], d[2]>>
         /\ d[1] \in Packages /\ d[2] \in DOMAIN program[d[1]]
         /\ program[d[1]][d[2]].do = "fn"
         /\ package \in Nat /\ item \in Nat
<1>1. /\ d = <<d[1], d[2]>> /\ d[1] \in Packages /\ d[2] \in DOMAIN program[d[1]]
      /\ ItemOf(d).do = "fn"
  BY DeclFacts DEF Typed
<1>2. program[d[1]] \in Seq(Item) /\ Packages = 1..Len(program)
  BY <1>1, ProgramFacts DEF Typed
<1>3. package \in Packages /\ item \in 1..(Len(program[package]) + 1)
  BY DEF Typed, FrontOK
<1>4. program[package] \in Seq(Item)
  BY <1>3, ProgramFacts DEF Typed
<1> QED BY <1>1, <1>2, <1>3, <1>4 DEF ItemOf

(* A child of the package is behind the generator, or its activation begins. *)
LEMMA TerminatingVisit ==
  Typed /\ Backward /\ Terminating
    /\ (VisitImport \/ VisitExternal \/ VisitFunction \/ VisitCached) => Terminating'
<1> SUFFICES ASSUME Typed, Backward, Terminating,
                    VisitImport \/ VisitExternal \/ VisitFunction \/ VisitCached
             PROVE  Terminating'
  OBVIOUS
<1>1. /\ Pending /\ pc = "generate" /\ pc' = "generate" /\ stack = <<>>
      /\ UNCHANGED <<program, package, front>> /\ item' = item + 1
  BY DEF VisitImport, VisitExternal, VisitFunction, VisitCached, Generating
<1>2. /\ item \in DOMAIN program[package] /\ package \in Packages
      /\ Here = program[package][item] /\ item \in Nat /\ package \in Nat
  <2>1. package \in Packages /\ item \in DOMAIN program[package]
    BY <1>1, HereFacts DEF Typed, FrontOK
  <2>2. program[package] \in Seq(Item) /\ Packages = 1..Len(program)
    BY <2>1, ProgramFacts DEF Typed
  <2> QED BY <2>1, <2>2 DEF Here
<1>3. AllResolved
  BY <1>1, ResolvedAll
<1>4. /\ Decl' = Decl /\ \A d : Tame(d)' <=> Tame(d)
      /\ \A d : Calls(d)' = Calls(d)
      /\ \A d, k : Callee(d, k)' = Callee(d, k)
  BY <1>1, ReachKept
<1>5. Settled
  BY <1>1 DEF Terminating
<1>6. ASSUME NEW d \in Decl, cache'[d] # 0
      PROVE  Tame(d)
  <2>1. CASE VisitImport
    <3>1. cache[d] # 0 \/ d \in imports[package][item]
      BY <1>6, <2>1 DEF VisitImport
    <3>2. d \in imports[package][item] => d[1] < package
      BY <1>2 DEF Backward
    <3> QED BY <1>5, <3>1, <3>2 DEF Settled
  <2>2. CASE VisitExternal
    <3>1. <<package, item>> \in Decl /\ ItemOf(<<package, item>>).ext
      BY <1>1, <2>2, HereFacts DEF VisitExternal
    <3>2. cache[d] # 0 \/ d = <<package, item>>
      BY <1>6, <2>2, <3>1 DEF VisitExternal, Declare, Typed, BuilderOK
    <3> QED BY <1>3, <1>5, <3>1, <3>2, ExternalIsTame DEF Settled
  <2>3. CASE VisitFunction \/ VisitCached
    BY <1>5, <1>6, <2>3 DEF VisitFunction, VisitCached, Enter, builder, Settled
  <2> QED BY <2>1, <2>2, <2>3
<1>7. CASE VisitFunction
  <2>1. /\ stack' = Append(<<>>, [of |-> <<package, item>>, symbol |-> Len(Module) + 1,
                                 next |-> 1])
        /\ <<package, item>> \in Decl
    BY <1>1, <1>7, HereFacts DEF VisitFunction, Enter
  <2>2. /\ Len(stack') = 1 /\ stack' # <<>> /\ DOMAIN stack' = {1}
        /\ stack'[1].of = <<package, item>> /\ stack'[1].next = 1
    BY <2>1
  <2>3. ASSUME NEW d \in Decl, d[1] = package, d[2] < item + 1, d # <<package, item>>
        PROVE  Tame(d)
    <3>1. d[2] \in Nat /\ d = <<d[1], d[2]>>
      BY PlaceFacts
    <3>2. d[2] < item
      BY <1>2, <2>3, <3>1
    <3> QED BY <1>1, <1>5, <2>3, <3>2 DEF Settled, Behind
  <2>4. \A k \in Calls(<<package, item>>) : ~(k < 1)
    <3>1. ItemOf(<<package, item>>).calls \in Seq(Name)
      BY <2>1, DeclFacts DEF Typed
    <3> QED BY <3>1 DEF Calls
  <2>5. Settled'
    <3>1. \A d \in Decl' : cache'[d] # 0 => Tame(d)'
      BY <1>4, <1>6
    <3>2. \A d \in Decl' : d[1] < package' => Tame(d)'
      BY <1>1, <1>4, <1>5 DEF Settled
    <3>3. \A d \in Decl' : d[1] = package' /\ d[2] < item' /\ Behind(d)' => Tame(d)'
      BY <1>1, <1>4, <2>2, <2>3 DEF Behind
    <3>4. \A i \in DOMAIN stack' : \A k \in Calls(stack[i].of)' : ~(k < stack'[i].next)
      BY <1>4, <2>2, <2>4
    <3> QED BY <3>1, <3>2, <3>3, <3>4 DEF Settled
  <2>6. Chained'
    BY <1>1, <1>2, <2>2 DEF Chained
  <2> QED BY <1>1, <2>5, <2>6 DEF Terminating
<1>8. CASE ~VisitFunction
  <2>1. stack' = <<>>
    BY <1>1, <1>8 DEF VisitImport, VisitExternal, VisitCached, Declare, builder
  <2>2. ASSUME NEW d \in Decl, d[1] = package, d[2] < item + 1
        PROVE  Tame(d)
    <3>1. d[2] \in Nat /\ d = <<d[1], d[2]>> /\ program[d[1]][d[2]].do = "fn"
      BY PlaceFacts
    <3>2. CASE d[2] < item
      BY <1>1, <1>5, <2>2, <3>2 DEF Settled, Behind
    <3>3. CASE d[2] = item
      <4>1. Here.do = "fn" /\ d = <<package, item>>
        BY <1>2, <2>2, <3>1, <3>3
      <4>2. VisitExternal \/ VisitCached
        BY <1>8, <4>1 DEF VisitImport
      <4>3. CASE VisitExternal
        <5>1. ItemOf(d).ext
          BY <4>1, <4>3 DEF VisitExternal, Here, ItemOf
        <5> QED BY <1>3, <5>1, ExternalIsTame
      <4>4. CASE VisitCached
        BY <1>5, <4>1, <4>4 DEF VisitCached, Settled
      <4> QED BY <4>2, <4>3, <4>4
    <3> QED BY <1>2, <2>2, <3>1, <3>2, <3>3
  <2>3. Settled'
    <3>1. \A d \in Decl' : cache'[d] # 0 => Tame(d)'
      BY <1>4, <1>6
    <3>2. \A d \in Decl' : d[1] < package' => Tame(d)'
      BY <1>1, <1>4, <1>5 DEF Settled
    <3>3. \A d \in Decl' : d[1] = package' /\ d[2] < item' /\ Behind(d)' => Tame(d)'
      BY <1>1, <1>4, <2>2
    <3> QED BY <2>1, <3>1, <3>2, <3>3 DEF Settled
  <2>4. Chained'
    BY <2>1 DEF Chained
  <2> QED BY <1>1, <2>3, <2>4 DEF Terminating
<1> QED BY <1>7, <1>8

LEMMA TerminatingEmit == Typed /\ Terminating /\ EmitCall => Terminating'
<1> SUFFICES ASSUME Typed, Terminating, EmitCall PROVE Terminating'
  OBVIOUS
<1>1. /\ pc = "generate" /\ pc' = "generate" /\ stack # <<>> /\ Calling
      /\ UNCHANGED <<program, package, front, item, cache>> /\ cache[Called] # 0
  BY DEF EmitCall, Calling
<1>2. Called \in Decl /\ Called = Callee(Top.of, Top.next)
  BY <1>1, CalledFacts
<1>3. /\ Decl' = Decl /\ \A d : Tame(d)' <=> Tame(d)
      /\ \A d : Calls(d)' = Calls(d)
      /\ \A d, k : Callee(d, k)' = Callee(d, k)
      /\ \A d : Reach(d)' = Reach(d)
  BY <1>1, ReachKept
<1>4. Settled /\ Chained
  BY <1>1 DEF Terminating
<1>5. PICK n \in Nat \ {0} : n = Len(stack) /\ n \in DOMAIN stack /\ DOMAIN stack = 1..n
                             /\ Top = stack[n] /\ Top \in Activation /\ Top.next \in Nat
                             /\ Top.of \in Decl
  BY <1>1, TopFacts
<1>6. /\ DOMAIN stack' = DOMAIN stack /\ stack' # <<>>
      /\ \A i \in DOMAIN stack : i # n => stack'[i] = stack[i]
      /\ stack'[n].of = Top.of /\ stack'[n].next = Top.next + 1
  <2> DEFINE t == [Top EXCEPT !.next = @ + 1]
  <2>1. t.of = Top.of /\ t.next = Top.next + 1 /\ t \in Activation
    BY <1>5 DEF Activation
  <2>2. stack' = [stack EXCEPT ![n] = t]
    BY <1>5 DEF EmitCall
  <2> HIDE DEF t
  <2>3. stack \in Seq(Activation)
    BY DEF Typed, BuilderOK
  <2>4. DOMAIN stack' = DOMAIN stack /\ stack'[n] = t
    BY <1>5, <2>2, <2>3
  <2>5. stack' # <<>>
    <3>1. DOMAIN <<>> = {}
      OBVIOUS
    <3> QED BY <1>5, <2>4, <3>1
  <2> QED BY <2>1, <2>2, <2>4, <2>5
<1>7. \A i \in DOMAIN stack : stack'[i].of = stack[i].of
  BY <1>5, <1>6
<1>8. \A d : Behind(d)' <=> Behind(d)
  BY <1>1, <1>5, <1>6, <1>7 DEF Behind
<1>9. ASSUME NEW i \in DOMAIN stack, NEW k \in Calls(stack[i].of), k < stack'[i].next
      PROVE  Tame(Callee(stack[i].of, k))
  <2>1. CASE i # n \/ k < Top.next
    BY <1>4, <1>5, <1>6, <1>9, <2>1 DEF Settled
  <2>2. CASE i = n /\ ~(k < Top.next)
    <3>1. k \in Nat
      <4>1. ItemOf(Top.of).calls \in Seq(Name)
        BY <1>5, DeclFacts DEF Typed
      <4> QED BY <1>5, <1>9, <2>2, <4>1 DEF Calls
    <3>2. k = Top.next
      BY <1>5, <1>6, <1>9, <2>2, <3>1
    <3> QED BY <1>1, <1>2, <1>4, <1>5, <2>2, <3>2 DEF Settled
  <2> QED BY <2>1, <2>2
<1>10. Settled'
  <2>1. /\ \A d \in Decl' : cache'[d] # 0 => Tame(d)'
        /\ \A d \in Decl' : d[1] < package' => Tame(d)'
    BY <1>1, <1>3, <1>4 DEF Settled
  <2>2. \A d \in Decl' : d[1] = package' /\ d[2] < item' /\ Behind(d)' => Tame(d)'
    BY <1>1, <1>3, <1>4, <1>8 DEF Settled
  <2>3. ASSUME NEW i \in DOMAIN stack', NEW k \in Calls(stack[i].of)', k < stack'[i].next
        PROVE  Tame(Callee(stack[i].of, k))'
    <3>1. PICK d : d = stack[i].of /\ d = stack'[i].of
      BY <1>6, <1>7
    <3>2. k \in Calls(d)
      BY <1>3, <2>3, <3>1
    <3>3. Tame(Callee(d, k))
      BY <1>6, <1>9, <2>3, <3>1, <3>2
    <3>4. Callee(stack[i].of, k)' = Callee(d, k)
      BY <1>3, <3>1
    <3> QED BY <1>3, <3>3, <3>4
  <2> QED BY <2>1, <2>2, <2>3 DEF Settled
<1>11. Chained'
  <2> SUFFICES ASSUME NEW j \in DOMAIN stack'
               PROVE  /\ stack'[j].of[1] <= package'
                      /\ \A i \in 1..(j - 1) : stack'[j].of \in Reach(stack[i].of)'
    BY DEF Chained
  <2>1. j \in DOMAIN stack /\ \A i \in 1..(j - 1) : i \in DOMAIN stack
    BY <1>5, <1>6
  <2>2. \A i \in 1..(j - 1) : Reach(stack[i].of)' = Reach(stack[i].of)
    BY <1>3, <1>7, <2>1
  <2> QED BY <1>1, <1>4, <1>7, <2>1, <2>2 DEF Chained
<1> QED BY <1>1, <1>10, <1>11 DEF Terminating

LEMMA TerminatingDeclare == Typed /\ Terminating /\ DeclareCalled => Terminating'
<1> SUFFICES ASSUME Typed, Terminating, DeclareCalled PROVE Terminating'
  OBVIOUS
<1>1. /\ pc = "generate" /\ pc' = "generate" /\ Calling
      /\ UNCHANGED <<program, package, front, item, stack>> /\ ItemOf(Called).ext
      /\ cache' = [cache EXCEPT ![Called] = Len(Module) + 1]
  BY DEF DeclareCalled, Declare, Calling
<1>2. /\ Decl' = Decl /\ \A d : Tame(d)' <=> Tame(d)
      /\ \A d : Calls(d)' = Calls(d)
      /\ \A d, k : Callee(d, k)' = Callee(d, k)
      /\ \A d : Reach(d)' = Reach(d)
  BY <1>1, ReachKept
<1>3. Settled /\ Chained
  BY <1>1 DEF Terminating
<1>4. Tame(Called)
  BY <1>1, CalledFacts, ResolvedAll, ExternalIsTame
<1>5. \A d \in Decl : cache'[d] # 0 => Tame(d)
  BY <1>1, <1>3, <1>4 DEF Settled, Typed, BuilderOK
<1>6. Settled'
  <2>1. \A d \in Decl' : d[1] = package' /\ d[2] < item' /\ Behind(d)' => Tame(d)'
    BY <1>1, <1>2, <1>3 DEF Settled, Behind
  <2>2. ASSUME NEW i \in DOMAIN stack', NEW k \in Calls(stack[i].of)', k < stack'[i].next
        PROVE  Tame(Callee(stack[i].of, k))'
    <3>1. Tame(Callee(stack[i].of, k))
      BY <1>1, <1>2, <1>3, <2>2 DEF Settled
    <3>2. Callee(stack[i].of, k)' = Callee(stack[i].of, k)
      BY <1>1, <1>2
    <3> QED BY <1>2, <3>1, <3>2
  <2> QED BY <1>1, <1>2, <1>3, <1>5, <2>1, <2>2 DEF Settled
<1>7. Chained'
  <2>1. \A i : Reach(stack[i].of)' = Reach(stack[i].of)
    BY <1>1, <1>2
  <2> QED BY <1>1, <1>3, <2>1 DEF Chained
<1> QED BY <1>1, <1>6, <1>7 DEF Terminating

LEMMA CalledIsReached ==
  ASSUME Typed, Backward, Terminating, Calling
  PROVE  /\ Called[1] <= package
         /\ \A i \in DOMAIN stack : Called \in Reach(stack[i].of)
<1>1. pc = "generate" /\ stack # <<>>
  BY DEF Calling
<1>2. /\ Called \in Decl /\ Top.next \in Calls(Top.of) /\ Called = Callee(Top.of, Top.next)
  BY CalledFacts
<1>3. PICK n \in Nat \ {0} : n = Len(stack) /\ n \in DOMAIN stack /\ DOMAIN stack = 1..n
                             /\ Top = stack[n] /\ Top.of \in Decl
  BY <1>1, TopFacts
<1>4. AllResolved
  BY <1>1, ResolvedAll
<1>5. Chained
  BY <1>1 DEF Terminating
<1>6. Called[1] <= package
  <2>1. Called[1] <= Top.of[1]
    <3>1. /\ Top.of[1] \in Packages /\ ItemOf(Top.of).calls[Top.next] \in Name
      <4>1. ItemOf(Top.of).calls \in Seq(Name) /\ Top.next \in DOMAIN ItemOf(Top.of).calls
        BY <1>2, <1>3, DeclFacts DEF Calls, Typed
      <4> QED BY <1>3, <4>1, DeclFacts DEF Typed
    <3>2. Called # NoDecl
      BY <1>2, ProgramFacts DEF Typed
    <3> QED BY <1>2, <3>1, <3>2 DEF Backward, Callee
  <2>2. Top.of[1] <= package
    BY <1>3, <1>5 DEF Chained
  <2>3. Called[1] \in Nat /\ Top.of[1] \in Nat /\ package \in Nat
    BY <1>2, <1>3, PlaceFacts
  <2> QED BY <2>1, <2>2, <2>3
<1>7. ASSUME NEW i \in DOMAIN stack
      PROVE  Called \in Reach(stack[i].of)
  <2>1. CASE i = n
    BY <1>2, <1>3, <1>4, <2>1, ReachFacts
  <2>2. CASE i # n
    <3>1. i \in 1..(n - 1) /\ stack[i].of \in Decl
      <4>1. stack \in Seq(Activation)
        BY DEF Typed, BuilderOK
      <4>2. stack[i] \in Activation
        BY <4>1
      <4>3. i \in 1..(n - 1)
        BY <1>3, <2>2
      <4> QED BY <4>2, <4>3 DEF Activation
    <3>2. Top.of \in Reach(stack[i].of)
      BY <1>3, <1>5, <3>1 DEF Chained
    <3> QED BY <1>2, <1>4, <3>1, <3>2, ReachFacts
  <2> QED BY <2>1, <2>2
<1> QED BY <1>6, <1>7

LEMMA TerminatingEnter == Typed /\ Backward /\ Terminating /\ EnterCalled => Terminating'
<1> SUFFICES ASSUME Typed, Backward, Terminating, EnterCalled PROVE Terminating'
  OBVIOUS
<1>1. /\ pc = "generate" /\ pc' = "generate" /\ stack # <<>> /\ Calling
      /\ UNCHANGED <<program, package, front, item, cache>>
      /\ stack' = Append(stack, [of |-> Called, symbol |-> Len(Module) + 1, next |-> 1])
  BY DEF EnterCalled, Enter, Calling
<1>2. /\ Called \in Decl /\ Called[1] <= package
      /\ \A i \in DOMAIN stack : Called \in Reach(stack[i].of)
  BY <1>1, CalledFacts, CalledIsReached
<1>3. /\ Decl' = Decl /\ \A d : Tame(d)' <=> Tame(d)
      /\ \A d : Calls(d)' = Calls(d)
      /\ \A d, k : Callee(d, k)' = Callee(d, k)
      /\ \A d : Reach(d)' = Reach(d)
  BY <1>1, ReachKept
<1>4. Settled /\ Chained
  BY <1>1 DEF Terminating
<1>5. PICK n \in Nat \ {0} : n = Len(stack) /\ DOMAIN stack = 1..n
  BY <1>1, TopFacts
<1>6. /\ DOMAIN stack' = 1..(n + 1) /\ stack' # <<>> /\ stack'[1] = stack[1]
      /\ \A i \in DOMAIN stack : stack'[i] = stack[i]
      /\ stack'[n + 1].of = Called /\ stack'[n + 1].next = 1
  <2> DEFINE a == [of |-> Called, symbol |-> Len(Module) + 1, next |-> 1]
  <2>1. stack' = Append(stack, a) /\ a.of = Called /\ a.next = 1
    BY <1>1
  <2> HIDE DEF a
  <2>2. stack \in Seq(Activation)
    BY DEF Typed, BuilderOK
  <2>3. DOMAIN stack' = 1..(n + 1) /\ \A i \in DOMAIN stack : stack'[i] = stack[i]
    BY <1>5, <2>1, <2>2
  <2>4. stack'[n + 1] = a
    BY <1>5, <2>1, <2>2
  <2>5. stack' # <<>>
    <3>1. DOMAIN <<>> = {}
      OBVIOUS
    <3> QED BY <1>5, <2>3, <3>1
  <2>6. 1 \in DOMAIN stack
    BY <1>5
  <2> QED BY <2>1, <2>3, <2>4, <2>5, <2>6
<1>7. \A i \in DOMAIN stack' : i \in DOMAIN stack \/ i = n + 1
  BY <1>5, <1>6
<1>8. \A k \in Calls(Called) : ~(k < 1)
  <2>1. ItemOf(Called).calls \in Seq(Name)
    BY <1>2, DeclFacts DEF Typed
  <2> QED BY <2>1 DEF Calls
<1>9. Settled'
  <2>1. /\ \A d \in Decl' : cache'[d] # 0 => Tame(d)'
        /\ \A d \in Decl' : d[1] < package' => Tame(d)'
    BY <1>1, <1>3, <1>4 DEF Settled
  <2>2. \A d : Behind(d)' <=> Behind(d)
    BY <1>1, <1>6 DEF Behind
  <2>3. \A d \in Decl' : d[1] = package' /\ d[2] < item' /\ Behind(d)' => Tame(d)'
    BY <1>1, <1>3, <1>4, <2>2 DEF Settled
  <2>4. ASSUME NEW i \in DOMAIN stack', NEW k \in Calls(stack[i].of)', k < stack'[i].next
        PROVE  Tame(Callee(stack[i].of, k))'
    <3>1. PICK d : d = stack'[i].of
      OBVIOUS
    <3>2. k \in Calls(d)
      BY <1>3, <2>4, <3>1
    <3>3. i \in DOMAIN stack
      BY <1>6, <1>7, <1>8, <2>4, <3>1, <3>2
    <3>4. Tame(Callee(d, k))
      BY <1>4, <1>6, <2>4, <3>1, <3>2, <3>3 DEF Settled
    <3>5. Callee(stack[i].of, k)' = Callee(d, k)
      BY <1>3, <3>1
    <3> QED BY <1>3, <3>4, <3>5
  <2> QED BY <2>1, <2>3, <2>4 DEF Settled
<1>10. Chained'
  <2> SUFFICES ASSUME NEW j \in DOMAIN stack'
               PROVE  /\ stack'[j].of[1] <= package'
                      /\ \A i \in 1..(j - 1) : stack'[j].of \in Reach(stack[i].of)'
    BY DEF Chained
  <2>1. \A i \in 1..(j - 1) : i \in DOMAIN stack
    BY <1>5, <1>6
  <2>2. \A i \in 1..(j - 1) : Reach(stack[i].of)' = Reach(stack[i].of)
    BY <1>3, <1>6, <2>1
  <2>3. CASE j = n + 1
    BY <1>1, <1>2, <1>6, <2>1, <2>2, <2>3
  <2>4. CASE j \in DOMAIN stack
    BY <1>1, <1>4, <1>6, <2>1, <2>2, <2>4 DEF Chained
  <2> QED BY <1>7, <2>3, <2>4
<1> QED BY <1>1, <1>9, <1>10 DEF Terminating

(* More activations than functions: one of them is there twice.            *)
LEMMA OverflowIsRecursive ==
  ASSUME Typed, Backward, Terminating, Overflow
  PROVE  \E d \in Decl : d[1] = package /\ Recursive(d)
<1>1. /\ pc = "generate" /\ stack # <<>> /\ Calling /\ Len(stack) >= MaxDepth
  BY DEF Overflow, Calling
<1>2. /\ Called \in Decl /\ \A i \in DOMAIN stack : Called \in Reach(stack[i].of)
  BY <1>1, CalledFacts, CalledIsReached
<1>3. Settled /\ Chained
  BY <1>1 DEF Terminating
<1>4. PICK n \in Nat \ {0} : n = Len(stack) /\ DOMAIN stack = 1..n
  BY <1>1, TopFacts
<1>5. \A i \in 1..n : stack[i].of \in Decl
  <2>1. stack \in Seq(Activation)
    BY DEF Typed, BuilderOK
  <2>2. \A i \in 1..n : stack[i] \in Activation
    BY <1>4, <2>1
  <2> QED BY <2>2 DEF Activation
<1> DEFINE f == [i \in 1..(n + 1) |-> IF i = n + 1 THEN Called ELSE stack[i].of]
<1>6. f \in [1..(n + 1) -> Decl]
  BY <1>2, <1>5
<1>7. /\ IsFiniteSet(1..(n + 1)) /\ Cardinality(1..(n + 1)) = n + 1
      /\ IsFiniteSet(Decl) /\ Cardinality(Decl) < n + 1
  <2>1. IsFiniteSet(1..(n + 1)) /\ Cardinality(1..(n + 1)) = n + 1
    BY FS_Interval
  <2>2. IsFiniteSet(Decl) /\ Cardinality(Decl) <= MaxDepth /\ MaxDepth \in Nat
    BY ProgramsAssumption DEF Typed, Decl
  <2>3. Cardinality(Decl) \in Nat
    BY <2>2, FS_CardinalityType
  <2> QED BY <1>1, <1>4, <2>1, <2>2, <2>3
<1> HIDE DEF f
<1>8. PICK i, j \in 1..(n + 1) : i # j /\ f[i] = f[j]
  BY <1>6, <1>7, FS_PigeonHole
<1>9. ASSUME NEW x \in 1..(n + 1), NEW y \in 1..(n + 1), x < y, f[x] = f[y]
      PROVE  \E d \in Decl : d[1] = package /\ Recursive(d)
  <2>1. x \in 1..n /\ x \in DOMAIN stack /\ f[x] = stack[x].of /\ x \in 1..(y - 1)
    BY <1>4, <1>9 DEF f
  <2>2. PICK d \in Decl : d = stack[x].of
    BY <1>5, <2>1
  <2>3. d \in Reach(d)
    <3>1. CASE y = n + 1
      BY <1>2, <1>9, <2>1, <2>2, <3>1 DEF f
    <3>2. CASE y # n + 1
      <4>1. y \in DOMAIN stack /\ f[y] = stack[y].of
        BY <1>4, <3>2 DEF f
      <4> QED BY <1>3, <1>9, <2>1, <2>2, <4>1 DEF Chained
    <3> QED BY <3>1, <3>2
  <2>4. d[1] <= package
    BY <1>3, <2>1, <2>2 DEF Chained
  <2>5. ~(d[1] < package)
    BY <1>3, <2>3 DEF Settled, Tame, Recursive
  <2>6. d[1] \in Nat /\ package \in Nat
    BY PlaceFacts
  <2>7. d[1] = package
    BY <2>4, <2>5, <2>6
  <2> QED BY <2>3, <2>7 DEF Recursive
<1>10. i < j \/ j < i
  BY <1>8
<1> QED BY <1>8, <1>9, <1>10

LEMMA TerminatingLeave == Typed /\ Terminating /\ LeaveFunction => Terminating'
<1> SUFFICES ASSUME Typed, Terminating, LeaveFunction PROVE Terminating'
  OBVIOUS
<1>1. /\ pc = "generate" /\ pc' = "generate" /\ stack # <<>>
      /\ UNCHANGED <<program, package, front, item>>
      /\ Top.next > Len(ItemOf(Top.of).calls)
      /\ cache' = [cache EXCEPT ![Top.of] = Top.symbol]
      /\ stack' = SubSeq(stack, 1, Len(stack) - 1)
  BY DEF LeaveFunction
<1>2. /\ Decl' = Decl /\ \A d : Tame(d)' <=> Tame(d)
      /\ \A d : Calls(d)' = Calls(d)
      /\ \A d, k : Callee(d, k)' = Callee(d, k)
      /\ \A d : Reach(d)' = Reach(d)
  BY <1>1, ReachKept
<1>3. Settled /\ Chained /\ AllResolved
  BY <1>1, ResolvedAll DEF Terminating
<1>4. PICK n \in Nat \ {0} : n = Len(stack) /\ n \in DOMAIN stack /\ DOMAIN stack = 1..n
                             /\ Top = stack[n] /\ Top.of \in Decl /\ Top.next \in Nat
  BY <1>1, TopFacts
<1>5. Tame(Top.of)
  <2>1. \A k \in Calls(Top.of) : k < Top.next
    <3>1. ItemOf(Top.of).calls \in Seq(Name)
      BY <1>4, DeclFacts DEF Typed
    <3>2. \A k \in Calls(Top.of) : k \in 1..Len(ItemOf(Top.of).calls)
      BY <3>1 DEF Calls
    <3>3. Len(ItemOf(Top.of).calls) \in Nat
      BY <3>1
    <3> QED BY <1>1, <1>4, <3>2, <3>3
  <2>2. \A k \in Calls(Top.of) : Tame(Callee(Top.of, k))
    BY <1>3, <1>4, <2>1 DEF Settled
  <2> QED BY <1>3, <1>4, <2>2, TameStep
<1>6. DOMAIN stack' = 1..(n - 1) /\ \A i \in 1..(n - 1) : stack'[i] = stack[i]
  <2>1. stack \in Seq(Activation)
    BY DEF Typed, BuilderOK
  <2> QED BY <1>1, <1>4, <2>1
<1>7. \A i \in DOMAIN stack' : i \in DOMAIN stack /\ stack'[i] = stack[i]
  BY <1>4, <1>6
<1>8. Settled'
  <2>1. \A d \in Decl' : cache'[d] # 0 => Tame(d)'
    BY <1>1, <1>2, <1>3, <1>5 DEF Settled, Typed, BuilderOK
  <2>2. ASSUME NEW d \in Decl', d[1] = package', d[2] < item', Behind(d)'
        PROVE  Tame(d)'
    <3>1. CASE d = Top.of
      BY <1>2, <1>5, <3>1
    <3>2. CASE d # Top.of
      <4>1. Behind(d)
        <5>1. CASE n = 1
          BY <1>4, <3>2, <5>1 DEF Behind
        <5>2. CASE n # 1
          <6>1. 1 \in DOMAIN stack' /\ stack'[1] = stack[1]
            BY <1>4, <1>6, <5>2
          <6>2. stack' # <<>>
            BY <6>1
          <6> QED BY <2>2, <6>1, <6>2 DEF Behind
        <5> QED BY <5>1, <5>2
      <4> QED BY <1>1, <1>2, <1>3, <2>2, <4>1 DEF Settled
    <3> QED BY <3>1, <3>2
  <2>3. ASSUME NEW i \in DOMAIN stack', NEW k \in Calls(stack[i].of)', k < stack'[i].next
        PROVE  Tame(Callee(stack[i].of, k))'
    <3>1. PICK d : d = stack'[i].of
      OBVIOUS
    <3>2. k \in Calls(d) /\ d = stack[i].of /\ i \in DOMAIN stack /\ k < stack[i].next
      BY <1>2, <1>7, <2>3, <3>1
    <3>3. Tame(Callee(d, k))
      BY <1>3, <3>2 DEF Settled
    <3>4. Callee(stack[i].of, k)' = Callee(d, k)
      BY <1>2, <3>1
    <3> QED BY <1>2, <3>3, <3>4
  <2>4. \A d \in Decl' : d[1] < package' => Tame(d)'
    BY <1>1, <1>2, <1>3 DEF Settled
  <2> QED BY <2>1, <2>2, <2>3, <2>4 DEF Settled
<1>9. Chained'
  <2> SUFFICES ASSUME NEW j \in DOMAIN stack'
               PROVE  /\ stack'[j].of[1] <= package'
                      /\ \A i \in 1..(j - 1) : stack'[j].of \in Reach(stack[i].of)'
    BY DEF Chained
  <2>1. \A i \in 1..(j - 1) : i \in DOMAIN stack'
    BY <1>6
  <2>2. \A i \in 1..(j - 1) : Reach(stack[i].of)' = Reach(stack[i].of)
    BY <1>2, <1>7, <2>1
  <2> QED BY <1>1, <1>3, <1>7, <2>2 DEF Chained
<1> QED BY <1>1, <1>8, <1>9 DEF Terminating

(* With the last child of a package the generator has come back from all   *)
(* its functions.                                                          *)
LEMMA TerminatingNextPackage == Typed /\ Terminating /\ NextPackage => Terminating'
<1> SUFFICES ASSUME Typed, Terminating, NextPackage PROVE Terminating'
  OBVIOUS
<1>1. /\ pc = "generate" /\ stack = <<>> /\ ~Pending
      /\ UNCHANGED <<program, front, stack>> /\ item' = 1
      /\ cache' = [d \in Decl |-> 0]
  BY DEF NextPackage
<1>2. /\ Decl' = Decl /\ \A d : Tame(d)' <=> Tame(d)
  BY <1>1, ReachKept
<1>3. Settled
  BY <1>1 DEF Terminating
<1>4. \A d \in Decl : d[1] \in 1..Len(program) /\ package \in 1..Len(program)
                      /\ Len(program) \in Nat
  <2>1. Packages = 1..Len(program) /\ Len(program) \in Nat
    BY ProgramFacts DEF Typed
  <2> QED BY <2>1, PlaceFacts DEF Typed, FrontOK
<1>5. ASSUME NEW d \in Decl, d[1] = package
      PROVE  Tame(d)
  <2>1. d[2] \in DOMAIN program[package] /\ d[2] \in Nat
    BY <1>5, PlaceFacts
  <2>2. program[package] \in Seq(Item)
    BY <1>5, PlaceFacts, ProgramFacts DEF Typed
  <2>3. /\ item \in 1..(Len(program[package]) + 1) /\ item \notin DOMAIN program[package]
        /\ Len(program[package]) \in Nat
    BY <1>1, <2>2 DEF Pending, Typed, FrontOK
  <2>4. DOMAIN program[package] = 1..Len(program[package])
    BY <2>2
  <2>5. d[2] < item
    BY <2>1, <2>3, <2>4
  <2> QED BY <1>1, <1>3, <1>5, <2>5 DEF Settled, Behind
<1>6. \A d \in Decl : d[1] < package \/ d[1] = package => Tame(d)
  BY <1>3, <1>5 DEF Settled
<1>7. CASE package < Len(program)
  <2>1. pc' = "generate" /\ package' = package + 1
    BY <1>1, <1>7 DEF NextPackage
  <2>2. \A d \in Decl' : cache'[d] # 0 => Tame(d)'
    BY <1>1, <1>2
  <2>3. \A d \in Decl' : d[1] < package' => Tame(d)'
    BY <1>2, <1>4, <1>6, <2>1
  <2>4. ASSUME NEW d \in Decl' PROVE ~(d[2] < item')
    BY <1>1, <1>2, <2>4, PlaceFacts
  <2>5. DOMAIN stack' = {}
    BY <1>1
  <2>6. Settled' /\ Chained'
    BY <2>2, <2>3, <2>4, <2>5 DEF Settled, Chained
  <2> QED BY <2>1, <2>6 DEF Terminating
<1>8. CASE ~(package < Len(program))
  <2>1. pc' = "done"
    BY <1>8 DEF NextPackage
  <2>2. \A d \in Decl' : Tame(d)'
    BY <1>2, <1>4, <1>6, <1>8
  <2> QED BY <2>1, <2>2 DEF Terminating
<1> QED BY <1>7, <1>8

LEMMA TerminatingCheckCalls ==
  Typed /\ Orderly /\ FirstChecked /\ Terminating /\ CheckCalls => Terminating'
<1> SUFFICES ASSUME Typed, Orderly, FirstChecked, Terminating, CheckCalls
             PROVE  Terminating'
  OBVIOUS
<1>1. /\ pc = "check" /\ pc' \in {"unknown", "generate"} /\ package = 1 /\ item = 1
      /\ UNCHANGED <<program, package, item, front, cache, stack>>
  BY DEF CheckCalls, FirstChecked, Orderly, Fresh, builder
<1>2. stack = <<>> /\ cache = [d \in Decl |-> 0]
  BY <1>1 DEF Typed, Idle, Analysing
<1>3. Decl' = Decl
  BY <1>1, ReachKept
<1>4. DOMAIN stack' = {} /\ \A d \in Decl' : cache'[d] = 0
  BY <1>1, <1>2, <1>3
<1>5. \A d \in Decl' : ~(d[1] < package') /\ ~(d[2] < item')
  <2>1. \A d \in Decl : d[1] \in Packages /\ d[2] \in Nat \ {0}
    BY PlaceFacts
  <2>2. Packages = 1..Len(program) /\ Len(program) \in Nat
    BY ProgramFacts DEF Typed
  <2> QED BY <1>1, <1>3, <2>1, <2>2
<1>6. Settled' /\ Chained'
  BY <1>4, <1>5 DEF Settled, Chained
<1> QED BY <1>1, <1>6 DEF Terminating

LEMMA TerminatingNext ==
  Typed /\ Orderly /\ FirstChecked /\ Backward /\ Terminating /\ [Next]_vars => Terminating'
<1> SUFFICES ASSUME Typed, Orderly, FirstChecked, Backward, Terminating, [Next]_vars
             PROVE  Terminating'
  OBVIOUS
<1>1. CASE RegisterFunctions \/ PrecheckImport \/ PrecheckFunction \/ PrecheckNext
  BY <1>1 DEF RegisterFunctions, PrecheckImport, PrecheckFunction, PrecheckNext, Terminating
<1>2. CASE CheckCalls
  BY <1>2, TerminatingCheckCalls
<1>3. CASE VisitImport \/ VisitExternal \/ VisitFunction \/ VisitCached
  BY <1>3, TerminatingVisit
<1>4. CASE EmitCall
  BY <1>4, TerminatingEmit
<1>5. CASE DeclareCalled
  BY <1>5, TerminatingDeclare
<1>6. CASE EnterCalled
  BY <1>6, TerminatingEnter
<1>7. CASE Overflow
  <2>1. pc' = "overflow" /\ package' = package /\ UNCHANGED <<program, front>>
    BY <1>7 DEF Overflow
  <2>2. PICK d \in Decl : d[1] = package /\ Recursive(d)
    BY <1>7, OverflowIsRecursive
  <2>3. d \in Decl' /\ Recursive(d)'
    BY <2>1, <2>2, ReachKept
  <2> QED BY <2>1, <2>2, <2>3 DEF Terminating
<1>8. CASE LeaveFunction
  BY <1>8, TerminatingLeave
<1>9. CASE NextPackage
  BY <1>9, TerminatingNextPackage
<1>10. CASE UNCHANGED vars
  <2>1. UNCHANGED <<program, pc, package, item, front, cache, stack>>
    BY <1>10 DEF vars, builder
  <2>2. /\ Decl' = Decl /\ \A d : Tame(d)' <=> Tame(d)
        /\ \A d : Recursive(d)' <=> Recursive(d)
    BY <2>1, ReachKept
  <2>3. Settled => Settled'
    <3>1. \A d : Behind(d)' <=> Behind(d)
      BY <2>1 DEF Behind
    <3>2. /\ \A d : Calls(d)' = Calls(d)
          /\ \A d, k : Callee(d, k)' = Callee(d, k)
      BY <2>1, ReachKept
    <3>3. ASSUME Settled, NEW i \in DOMAIN stack', NEW k \in Calls(stack[i].of)',
                 k < stack'[i].next
          PROVE  Tame(Callee(stack[i].of, k))'
      <4>1. Tame(Callee(stack[i].of, k))
        BY <2>1, <3>2, <3>3 DEF Settled
      <4>2. Callee(stack[i].of, k)' = Callee(stack[i].of, k)
        BY <2>1, <3>2
      <4> QED BY <2>2, <4>1, <4>2
    <3> QED BY <2>1, <2>2, <3>1, <3>3 DEF Settled
  <2>4. Chained => Chained'
    <3>1. \A i : Reach(stack[i].of)' = Reach(stack[i].of)
      BY <2>1, ReachKept
    <3> QED BY <2>1, <3>1 DEF Chained
  <2>5. CASE pc = "generate"
    BY <2>1, <2>3, <2>4, <2>5 DEF Terminating
  <2>6. CASE pc # "generate"
    BY <2>1, <2>2, <2>6 DEF Terminating
  <2> QED BY <2>5, <2>6
<1> QED BY <1>1, <1>2, <1>3, <1>4, <1>5, <1>6, <1>7, <1>8, <1>9, <1>10 DEF Next

(* The generator runs out of stack only in a package with a function from  *)
(* which calls lead back to itself, and ends only if no function of the    *)
(* program is such (the FunctionCall visitor generates a callee that the   *)
(* cache does not know, code_generator.cpp:1163-1226).                     *)
THEOREM OverflowIsRecursion == Spec => []OverflowsIffRecursive
<1> DEFINE Inv == Typed /\ Orderly /\ FirstChecked /\ Backward /\ Terminating
<1>1. Init => Inv
  <2> SUFFICES ASSUME Init PROVE Inv
    OBVIOUS
  <2>1. Typed /\ Orderly
    BY TypedInit, OrderlyInit
  <2>2. FirstChecked /\ Backward
    BY DEF Init, FirstChecked, Backward, Packages
  <2>3. Terminating
    BY DEF Init, Terminating
  <2> QED BY <2>1, <2>2, <2>3
<1>2. Inv /\ [Next]_vars => Inv'
  BY TypedNext, OrderlyNext, FirstCheckedNext, BackwardNext, TerminatingNext
<1>3. Inv => OverflowsIffRecursive
  BY DEF Terminating, Tame, Recursive, Reach, OverflowsIffRecursive
<1> QED BY <1>1, <1>2, <1>3, PTL DEF Spec

-----------------------------------------------------------------------------
(* What the analysis leaves behind: an import statement brings visible     *)
(* functions that are from then on what the package means by their names,  *)
(* each of them once; and a name means a function of the package or one    *)
(* that an import statement brought.                                       *)
BroughtFor(p, j, d) ==
  /\ program[p][j].do = "import"
  /\ context[p][ItemOf(d).name] = d
  /\ ItemOf(d).pub \/ ItemOf(d).ext
Brought ==
  /\ Named(context)
  /\ \A p \in Packages : \A j \in DOMAIN program[p] : \A d \in imports[p][j] :
       /\ BroughtFor(p, j, d)
       /\ \A i \in DOMAIN program[p] : d \in imports[p][i] => i = j
  /\ \A p \in Packages : \A n \in Name :
       LET d == context[p][n] IN
       \/ d = NoDecl
       \/ d[1] = p
       \/ \E j \in DOMAIN program[p] : d \in imports[p][j]
  /\ pc \in Filling => \A p \in Packages : \A j \in DOMAIN program[p] :
       p > package \/ (p = package /\ j >= item) => imports[p][j] = {}

(* At first nothing is brought.                                            *)
LEMMA BroughtInit == Init => Brought
<1> SUFFICES ASSUME Init PROVE Brought
  OBVIOUS
<1>1. \A p \in Packages : \A j \in DOMAIN program[p] : imports[p][j] = {}
  BY DEF Init, Packages
<1>2. \A p \in Packages : \A n \in Name : context[p][n] = NoDecl
  BY DEF Init, Packages
<1> QED BY <1>1, <1>2 DEF Brought, Named

(* What the next state says of contexts and imports, said of the program.  *)
LEMMA BroughtThen ==
  ASSUME program' = program,
         NEW c, c = context', NEW m, m = imports', NEW x, x = pc', NEW q, q = package',
         NEW i, i = item',
         Named(c),
         \A p \in Packages : \A j \in DOMAIN program[p] : \A d \in m[p][j] :
           /\ program[p][j].do = "import"
           /\ c[p][ItemOf(d).name] = d
           /\ ItemOf(d).pub \/ ItemOf(d).ext
           /\ \A k \in DOMAIN program[p] : d \in m[p][k] => k = j,
         \A p \in Packages : \A n \in Name :
           \/ c[p][n] = NoDecl
           \/ c[p][n][1] = p
           \/ \E j \in DOMAIN program[p] : c[p][n] \in m[p][j],
         x \in Filling => \A p \in Packages : \A j \in DOMAIN program[p] :
           p > q \/ (p = q /\ j >= i) => m[p][j] = {}
  PROVE  Brought'
<1>1. /\ Packages' = Packages
      /\ \A d : ItemOf(d)' = ItemOf(d)
  BY DEF Packages, ItemOf
<1>2. Named(context)'
  BY <1>1 DEF Named
<1>3. \A p \in Packages : \A j \in DOMAIN program[p] : \A d \in m[p][j] :
        BroughtFor(p, j, d)'
  BY <1>1 DEF BroughtFor
<1> QED BY <1>1, <1>2, <1>3 DEF Brought

(* The functions of a package are registered.                              *)
LEMMA BroughtRegister == Typed /\ Nearest /\ Brought /\ RegisterFunctions => Brought'
<1> SUFFICES ASSUME Typed, Nearest, Brought, RegisterFunctions PROVE Brought'
  OBVIOUS
<1>1. /\ program' = program /\ package' = package /\ imports' = imports
      /\ pc = "register" /\ pc' = "precheck" /\ package \in Packages
      /\ DOMAIN context = Packages
      /\ context' = [context EXCEPT ![package] = [n \in Name |-> LastOfName(package, n)]]
  BY DEF RegisterFunctions, Typed, FrontOK
<1>2. PICK c : c = context'
  OBVIOUS
<1>3. /\ \A n \in Name : c[package][n] = LastOfName(package, n)
      /\ \A p \in Packages : p # package => c[p] = context[p]
  BY <1>1, <1>2
<1>4. \A n \in Name : LastOfName(package, n) = NoDecl
                      \/ /\ ItemOf(LastOfName(package, n)).name = n
                         /\ LastOfName(package, n)[1] = package
  BY <1>1, LastFacts DEF Typed
<1>5. Named(c)
  BY <1>3, <1>4 DEF Brought, Named
<1>6. \A j \in DOMAIN program[package] : imports[package][j] = {} /\ j >= 1
  <2>1. item = 1
    BY <1>1 DEF Nearest, Filled, Filling
  <2>2. DOMAIN program[package] = 1..Len(program[package]) /\ Len(program[package]) \in Nat
    BY <1>1, ProgramFacts DEF Typed
  <2>3. \A j \in DOMAIN program[package] : j >= item
    BY <2>1, <2>2
  <2> QED BY <1>1, <2>1, <2>3 DEF Brought, Filling
<1>11. PICK m : m = imports' /\ m = imports
  BY <1>1
<1>7. ASSUME NEW p \in Packages, NEW j \in DOMAIN program[p], NEW d \in m[p][j]
      PROVE  /\ program[p][j].do = "import"
             /\ c[p][ItemOf(d).name] = d
             /\ ItemOf(d).pub \/ ItemOf(d).ext
             /\ \A i \in DOMAIN program[p] : d \in m[p][i] => i = j
  <2>1. p # package
    BY <1>6, <1>7, <1>11
  <2>2. c[p] = context[p]
    BY <1>3, <2>1
  <2> QED BY <1>7, <1>11, <2>2 DEF Brought, BroughtFor
<1>8. ASSUME NEW p \in Packages, NEW n \in Name
      PROVE  \/ c[p][n] = NoDecl
             \/ c[p][n][1] = p
             \/ \E j \in DOMAIN program[p] : c[p][n] \in m[p][j]
  <2>1. CASE p = package
    BY <1>3, <1>4, <2>1
  <2>2. CASE p # package
    BY <1>3, <1>11, <2>2 DEF Brought
  <2> QED BY <2>1, <2>2
<1>9. \A p \in Packages : \A j \in DOMAIN program[p] :
        p > package \/ (p = package /\ j >= item) => m[p][j] = {}
  BY <1>1, <1>11 DEF Brought, Filling
<1>10. item' = item
  BY DEF RegisterFunctions
<1>12. program' = program /\ package' = package
  BY <1>1
<1> QED BY <1>12, <1>2, <1>11, <1>5, <1>7, <1>8, <1>9, <1>10, BroughtThen

(* An import statement brings functions the package has no names for.      *)
LEMMA BroughtImport == Typed /\ Brought /\ PrecheckImport => Brought'
<1> SUFFICES ASSUME Typed, Brought, PrecheckImport PROVE Brought'
  OBVIOUS
<1>1. /\ program' = program /\ package' = package
      /\ pc = "precheck" /\ pc' = "precheck" /\ package \in Packages
      /\ item \in DOMAIN program[package] /\ program[package][item].do = "import"
      /\ context \in [Packages -> [Name -> Decl \cup {NoDecl}]]
      /\ Packages = 1..Len(program) /\ Len(program) \in Nat
      /\ DOMAIN imports = Packages
      /\ \A p \in Packages : DOMAIN imports[p] = DOMAIN program[p]
  BY ProgramFacts DEF PrecheckImport, Pending, Here, Typed, FrontOK
<1>2. PICK q \in Packages : q = program[package][item].from
  BY <1>1, ProgramFacts DEF Typed
<1>3. PICK new : new = Imported(package, item)
  OBVIOUS
<1>4. PICK c : c = context'
  OBVIOUS
<1>5. PICK m : m = imports'
  OBVIOUS
<1>6. /\ \A p \in Packages : p # package => m[p] = imports[p] /\ c[p] = context[p]
      /\ m[package][item] = new
      /\ \A j \in DOMAIN program[package] : j # item => m[package][j] = imports[package][j]
      /\ c[package] = [n \in Name |-> IF \E d \in new : ItemOf(d).name = n
                                      THEN CHOOSE d \in new : ItemOf(d).name = n
                                      ELSE context[package][n]]
  <2>1. imports' = [imports EXCEPT ![package][item] = new]
    BY <1>3 DEF PrecheckImport
  <2>2. context' = [context EXCEPT ![package] =
            [n \in Name |-> IF \E d \in new : ItemOf(d).name = n
                            THEN CHOOSE d \in new : ItemOf(d).name = n
                            ELSE @[n]]]
    BY <1>3 DEF PrecheckImport
  <2> QED BY <1>1, <1>4, <1>5, <2>1, <2>2
<1>7. ASSUME NEW d \in new
      PROVE  /\ ItemOf(d).name \in Name /\ d # NoDecl
             /\ d = context[q][ItemOf(d).name]
             /\ ItemOf(d).pub \/ ItemOf(d).ext
             /\ context[package][ItemOf(d).name] = NoDecl
  <2>1. /\ d \in Range(context[q]) \ {NoDecl}
        /\ ItemOf(d).pub \/ ItemOf(d).ext
        /\ context[package][ItemOf(d).name] = NoDecl
    BY <1>2, <1>3 DEF Imported
  <2>2. PICK n \in Name : d = context[q][n]
    BY <1>1, <2>1 DEF Range
  <2>3. ItemOf(d).name = n
    BY <2>1, <2>2 DEF Brought, Named
  <2> QED BY <2>1, <2>2, <2>3
<1>8. \A n \in Name : (\E d \in new : ItemOf(d).name = n) =>
        /\ c[package][n] \in new /\ ItemOf(c[package][n]).name = n
        /\ context[package][n] = NoDecl
  BY <1>6, <1>7
<1>9. \A n \in Name : ~(\E d \in new : ItemOf(d).name = n) => c[package][n] = context[package][n]
  BY <1>6
<1>10. \A d \in new : c[package][ItemOf(d).name] = d
  <2> SUFFICES ASSUME NEW d \in new PROVE c[package][ItemOf(d).name] = d
    OBVIOUS
  <2>1. PICK n \in Name : n = ItemOf(d).name
    BY <1>7
  <2>2. PICK e \in new : e = c[package][n] /\ ItemOf(e).name = n
    BY <1>8, <2>1
  <2>3. e = context[q][n] /\ d = context[q][n]
    BY <1>7, <2>1, <2>2
  <2> QED BY <2>1, <2>2, <2>3
<1>11. Named(c)
  <2> SUFFICES ASSUME NEW p \in Packages, NEW n \in Name, c[p][n] # NoDecl
               PROVE  ItemOf(c[p][n]).name = n
    BY DEF Named
  <2>1. CASE p = package /\ \E d \in new : ItemOf(d).name = n
    BY <1>8, <2>1
  <2>2. CASE ~(p = package /\ \E d \in new : ItemOf(d).name = n)
    <3>1. c[p][n] = context[p][n]
      BY <1>6, <1>9, <2>2
    <3> QED BY <3>1 DEF Brought, Named
  <2> QED BY <2>1, <2>2
<1>12. ASSUME NEW p \in Packages, NEW j \in DOMAIN program[p], NEW d \in m[p][j]
       PROVE  /\ program[p][j].do = "import"
              /\ c[p][ItemOf(d).name] = d
              /\ ItemOf(d).pub \/ ItemOf(d).ext
              /\ \A i \in DOMAIN program[p] : d \in m[p][i] => i = j
  <2>1. CASE p # package
    <3>1. m[p] = imports[p] /\ c[p] = context[p]
      BY <1>6, <2>1
    <3> QED BY <1>12, <3>1 DEF Brought, BroughtFor
  <2>2. CASE p = package /\ j = item
    <3>1. d \in new
      BY <1>6, <1>12, <2>2
    <3>2. \A i \in DOMAIN program[p] : i # item => d \notin m[p][i]
      <4> SUFFICES ASSUME NEW i \in DOMAIN program[p], i # item, d \in imports[p][i]
                   PROVE  FALSE
        BY <1>6, <2>2
      <4>1. context[p][ItemOf(d).name] = d
        BY DEF Brought, BroughtFor
      <4> QED BY <1>7, <2>2, <3>1, <4>1
    <3> QED BY <1>1, <1>7, <1>10, <2>2, <3>1, <3>2
  <2>3. CASE p = package /\ j # item
    <3>1. d \in imports[p][j]
      BY <1>6, <1>12, <2>3
    <3>2. /\ program[p][j].do = "import" /\ context[p][ItemOf(d).name] = d
          /\ ItemOf(d).pub \/ ItemOf(d).ext
          /\ \A i \in DOMAIN program[p] : d \in imports[p][i] => i = j
      BY <3>1 DEF Brought, BroughtFor
    <3>3. d \in Decl /\ d # NoDecl /\ ItemOf(d).name \in Name
      <4>1. d \in Decl
        BY <1>1, <3>1 DEF Typed, FrontOK
      <4> QED BY <4>1, DeclFacts, ProgramFacts DEF Typed
    <3>4. c[p][ItemOf(d).name] = d
      BY <1>8, <1>9, <2>3, <3>2, <3>3
    <3>5. d \notin new
      BY <1>7, <2>3, <3>2, <3>3
    <3> QED BY <1>6, <2>3, <3>2, <3>4, <3>5
  <2> QED BY <2>1, <2>2, <2>3
<1>15. item \in Nat /\ item' = item + 1 /\ \A j \in DOMAIN program[package] : j \in Nat
  <2>1. DOMAIN program[package] = 1..Len(program[package]) /\ Len(program[package]) \in Nat
    BY <1>1, ProgramFacts DEF Typed
  <2> QED BY <1>1, <2>1 DEF PrecheckImport
<1>13. ASSUME NEW p \in Packages, NEW n \in Name
       PROVE  \/ c[p][n] = NoDecl
              \/ c[p][n][1] = p
              \/ \E j \in DOMAIN program[p] : c[p][n] \in m[p][j]
  <2>1. CASE p = package /\ \E d \in new : ItemOf(d).name = n
    <3>1. c[p][n] \in m[p][item]
      BY <1>6, <1>8, <2>1
    <3> QED BY <1>1, <2>1, <3>1
  <2>2. CASE ~(p = package /\ \E d \in new : ItemOf(d).name = n)
    <3>1. c[p][n] = context[p][n]
      BY <1>6, <1>9, <2>2
    <3>2. \A j \in DOMAIN program[p] : context[p][n] \in imports[p][j] =>
            context[p][n] \in m[p][j]
      <4> SUFFICES ASSUME NEW j \in DOMAIN program[p], context[p][n] \in imports[p][j]
                   PROVE  context[p][n] \in m[p][j]
        OBVIOUS
      <4>1. CASE p = package /\ j = item
        <5>1. j >= item
          BY <1>1, <1>15, <4>1
        <5> QED BY <1>1, <4>1, <5>1 DEF Brought, Filling
      <4>2. CASE ~(p = package /\ j = item)
        BY <1>6, <4>2
      <4> QED BY <4>1, <4>2
    <3> QED BY <3>1, <3>2 DEF Brought
  <2> QED BY <2>1, <2>2
<1>14. ASSUME NEW p \in Packages, NEW j \in DOMAIN program[p],
              p > package \/ (p = package /\ j >= item + 1)
       PROVE  m[p][j] = {}
  <2>1. CASE p > package
    BY <1>1, <1>6, <2>1 DEF Brought, Filling
  <2>2. CASE p = package /\ j >= item + 1
    <3>1. j >= item /\ j # item
      BY <1>15, <2>2
    <3> QED BY <1>1, <1>6, <2>2, <3>1 DEF Brought, Filling
  <2> QED BY <1>14, <2>1, <2>2
<1> QED BY <1>1, <1>4, <1>5, <1>11, <1>12, <1>13, <1>14, <1>15, BroughtThen

(* The other steps leave contexts and imports alone.                       *)
LEMMA BroughtKept ==
  ASSUME Brought, UNCHANGED <<program, front>>,
         pc' \in Filling => \A p \in Packages : \A j \in DOMAIN program[p] :
           p > package' \/ (p = package' /\ j >= item') => imports[p][j] = {}
  PROVE  Brought'
<1>1. program' = program /\ context' = context /\ imports' = imports
  BY DEF front
<1>2. /\ Named(context)
      /\ \A p \in Packages : \A j \in DOMAIN program[p] : \A d \in imports[p][j] :
           /\ program[p][j].do = "import"
           /\ context[p][ItemOf(d).name] = d
           /\ ItemOf(d).pub \/ ItemOf(d).ext
           /\ \A i \in DOMAIN program[p] : d \in imports[p][i] => i = j
      /\ \A p \in Packages : \A n \in Name :
           \/ context[p][n] = NoDecl
           \/ context[p][n][1] = p
           \/ \E j \in DOMAIN program[p] : context[p][n] \in imports[p][j]
  BY DEF Brought, BroughtFor
<1> QED BY <1>1, <1>2, BroughtThen

(* The other steps leave contexts and imports alone.                       *)
LEMMA BroughtOther ==
  Typed /\ Nearest /\ Brought /\ (PrecheckFunction \/ PrecheckNext) => Brought'
<1> SUFFICES ASSUME Typed, Nearest, Brought, PrecheckFunction \/ PrecheckNext
             PROVE  Brought'
  OBVIOUS
<1>1. UNCHANGED <<program, front>> /\ pc = "precheck"
  BY DEF PrecheckFunction, PrecheckNext
<1>2. \A p \in Packages : \A j \in DOMAIN program[p] :
        p > package \/ (p = package /\ j >= item) => imports[p][j] = {}
  BY <1>1 DEF Brought, Filling
<1>3. /\ package \in Packages /\ Packages = 1..Len(program) /\ Len(program) \in Nat
      /\ item \in Nat
      /\ \A p \in Packages : \A j \in DOMAIN program[p] : j \in Nat
  <2>1. package \in Packages /\ Packages = 1..Len(program) /\ Len(program) \in Nat
    BY ProgramFacts DEF Typed, FrontOK
  <2>2. \A p \in Packages : DOMAIN program[p] = 1..Len(program[p]) /\ Len(program[p]) \in Nat
    BY ProgramFacts DEF Typed
  <2>3. item \in 1..(Len(program[package]) + 1)
    BY DEF Typed, FrontOK
  <2> QED BY <2>1, <2>2, <2>3
<1>4. CASE PrecheckFunction
  BY <1>1, <1>2, <1>3, <1>4, BroughtKept DEF PrecheckFunction
<1>5. CASE PrecheckNext
  <2>1. CASE package < Len(program)
    <3>1. package' = package + 1 /\ item' = 1
      BY <1>5, <2>1 DEF PrecheckNext
    <3> QED BY <1>1, <1>2, <1>3, <3>1, BroughtKept
  <2>2. CASE ~(package < Len(program))
    <3>1. pc' = "check"
      BY <1>5, <2>2 DEF PrecheckNext
    <3> QED BY <1>1, <3>1, BroughtKept DEF Filling
  <2> QED BY <2>1, <2>2
<1> QED BY <1>4, <1>5

(* Every step keeps it.                                                    *)
LEMMA BroughtNext == Typed /\ Nearest /\ Brought /\ [Next]_vars => Brought'
<1> SUFFICES ASSUME Typed, Nearest, Brought, [Next]_vars PROVE Brought'
  OBVIOUS
<1>1. CASE RegisterFunctions
  BY <1>1, BroughtRegister
<1>2. CASE PrecheckImport
  BY <1>2, BroughtImport
<1>3. CASE PrecheckFunction \/ PrecheckNext
  BY <1>3, BroughtOther
<1>4. CASE \/ CheckCalls \/ VisitImport \/ VisitExternal \/ VisitFunction \/ VisitCached
           \/ EmitCall \/ DeclareCalled \/ EnterCalled \/ Overflow \/ LeaveFunction
           \/ NextPackage
  <2>1. UNCHANGED <<program, front>>
    BY <1>4 DEF CheckCalls, VisitImport, VisitExternal, VisitFunction, VisitCached, EmitCall,
                DeclareCalled, EnterCalled, Overflow, LeaveFunction, NextPackage
  <2>2. pc' \in {"unknown", "generate", "overflow", "done"}
    BY <1>4 DEF CheckCalls, VisitImport, VisitExternal, VisitFunction, VisitCached, EmitCall,
                DeclareCalled, EnterCalled, Overflow, LeaveFunction, NextPackage, Generating,
                Calling
  <2> QED BY <2>1, <2>2, BroughtKept DEF Filling
<1>5. CASE UNCHANGED vars
  <2>1. UNCHANGED <<program, front, pc, package, item>>
    BY <1>5 DEF vars
  <2> QED BY <2>1, BroughtKept DEF Brought
<1> QED BY <1>1, <1>2, <1>3, <1>4, <1>5 DEF Next

-----------------------------------------------------------------------------
(* Packages that can be linked and of which the generator comes back.      *)
Buildable == Linkable /\ \A d \in Decl : ~Recursive(d)

(* In the module of such a package every function has one symbol, under    *)
(* its own name, and exactly those of the package have their bodies there. *)
IsLinked(p, s) ==
  LET f == modules[p][s] IN
  /\ f.suffix = 0
  /\ f.body <=> f.of[1] = p /\ ~ItemOf(f.of).ext
  /\ f.of[1] = p \/ \E j \in DOMAIN program[p] : f.of \in imports[p][j]
  /\ \A t \in DOMAIN modules[p] : modules[p][t].of = f.of => t = s
Linked == \A p \in Packages : \A s \in DOMAIN modules[p] : IsLinked(p, s)
Complete(p) == \A d \in Decl : d[1] = p => \E s \in DOMAIN modules[p] : modules[p][s].of = d

(* The one under way: its symbols are cached or being written, and all     *)
(* items visited have theirs.                                              *)

Going ==
  /\ \A s \in DOMAIN Module : LET d == Module[s].of IN
       /\ cache[d] # 0 \/ \E i \in DOMAIN stack : stack[i].of = d
       /\ d[1] # package => \E j \in 1..(item - 1) : d \in imports[package][j]
  /\ \A i \in DOMAIN stack : stack[i].of[1] = package
  /\ stack # <<>> => \E i \in 1..(item - 1) : program[package][i].do = "fn"
  /\ \A j \in 1..(item - 1) :
       /\ program[package][j].do = "import" => \A d \in imports[package][j] : cache[d] # 0
       /\ program[package][j].do = "fn" => \E s \in DOMAIN Module : Module[s].of = <<package, j>>

(* Calls are of functions of the module, in every program.                 *)
Pointing ==
  \A p \in Packages : \A s \in DOMAIN modules[p] : \A k \in DOMAIN modules[p][s].code :
    modules[p][s].code[k][2] <= Len(modules[p])
Linking ==
  /\ Pointing
  /\ pc \in {"generate", "done"} /\ Buildable =>
       /\ Linked
       /\ \A p \in Packages : Generated(p) => Complete(p)
       /\ pc = "generate" => Going

(* Of a name that is declared once, the declaration is the last one.       *)
LEMMA OwnIs ==
  ASSUME program \in Programs, Linkable, NEW d \in Decl
  PROVE  LastOfName(d[1], ItemOf(d).name) = d /\ Own(d[1], ItemOf(d).name) # {}
<1> DEFINE S == Own(d[1], ItemOf(d).name)
<1>1. /\ d = <<d[1], d[2]>> /\ d[1] \in Packages /\ d[2] \in DOMAIN program[d[1]]
      /\ ItemOf(d).do = "fn" /\ ItemOf(d).name \in Name
  BY DeclFacts
<1>2. PICK n \in Nat : n = Len(program[d[1]]) /\ DOMAIN program[d[1]] = 1..n
  <2>1. program[d[1]] \in Seq(Item)
    BY <1>1, ProgramFacts
  <2> QED BY <2>1
<1>3. d[2] \in S /\ S \in SUBSET (1..n)
  BY <1>1, <1>2 DEF Own, ItemOf
<1>4. Cardinality(S) <= 1
  BY <1>1 DEF Linkable
<1>5. LastOfName(d[1], ItemOf(d).name) = <<d[1], Greatest(S)>> /\ S # {}
  BY <1>3 DEF LastOfName
<1> HIDE DEF S
<1>6. Greatest(S) \in S
  BY <1>2, <1>3, GreatestExists
<1>7. IsFiniteSet(S)
  <2>1. IsFiniteSet(1..n)
    BY <1>2, FS_Interval
  <2> QED BY <1>3, <2>1, FS_Subset
<1>8. S = {d[2]}
  <2>1. IsFiniteSet({d[2]}) /\ Cardinality({d[2]}) = 1 /\ {d[2]} \subseteq S
    BY <1>3, FS_Singleton
  <2>2. Cardinality(S) \in Nat /\ Cardinality({d[2]}) <= Cardinality(S)
    BY <1>7, <2>1, FS_Subset, FS_CardinalityType
  <2>3. Cardinality({d[2]}) = Cardinality(S)
    BY <1>4, <2>1, <2>2
  <2> QED BY <1>7, <2>1, <2>3, FS_Subset
<1>9. Greatest(S) = d[2]
  BY <1>6, <1>8
<1> QED BY <1>1, <1>3, <1>5, <1>9 DEF S

(* In such a package a function is what its name means, its own or one     *)
(* that it imports.                                                        *)
InPlace(p, d) == d[1] = p \/ \E j \in DOMAIN program[p] : d \in imports[p][j]

(* The name of a function in its place means it.                           *)
LEMMA InContext ==
  ASSUME Typed, Nearest, Brought, pc \notin Filling, Linkable,
         NEW p \in Packages, NEW d \in Decl, InPlace(p, d)
  PROVE  context[p][ItemOf(d).name] = d
<1>1. CASE d[1] = p
  <2>1. LastOfName(p, ItemOf(d).name) = d /\ Own(p, ItemOf(d).name) # {}
    BY <1>1, OwnIs DEF Typed
  <2>2. SoFar(context, p, Entire(p)) /\ ItemOf(d).name \in Name
    BY DeclFacts DEF Nearest, Typed
  <2> QED BY <2>1, <2>2 DEF SoFar, Meaning
<1>2. CASE \E j \in DOMAIN program[p] : d \in imports[p][j]
  BY <1>2 DEF Brought, BroughtFor
<1> QED BY <1>1, <1>2 DEF InPlace

(* Which packages these are does not change any more.                      *)
LEMMA BuildableKept ==
  ASSUME UNCHANGED <<program, front>>
  PROVE  Buildable' <=> Buildable
<1>1. program' = program
  OBVIOUS
<1>2. /\ Decl' = Decl /\ Packages' = Packages
      /\ \A d : ItemOf(d)' = ItemOf(d)
      /\ \A p, n : Own(p, n)' = Own(p, n)
  BY <1>1 DEF Decl, Packages, ItemOf, Own
<1>3. Linkable' <=> Linkable
  BY <1>1, <1>2 DEF Linkable
<1>4. \A d : Recursive(d)' <=> Recursive(d)
  BY ReachKept
<1> QED BY <1>2, <1>3, <1>4 DEF Buildable

(* No symbol of the module has the name of a function without one.         *)
LEMMA NotTaken ==
  ASSUME Typed, Nearest, Brought, pc = "generate", Linkable, Linked,
         NEW d \in Decl, InPlace(package, d),
         \A s \in DOMAIN Module : Module[s].of # d
  PROVE  ~Taken(d)
<1> SUFFICES ASSUME NEW s \in DOMAIN Module, ItemOf(Module[s].of).name = ItemOf(d).name
             PROVE  FALSE
  BY DEF Taken
<1>1. package \in Packages /\ Module = modules[package] /\ Module \in Seq(Symbol)
  BY DEF Typed, FrontOK, BuilderOK, Module
<1>2. PICK e \in Decl : e = Module[s].of
  <2>1. Module[s] \in Symbol
    BY <1>1
  <2> QED BY <2>1 DEF Symbol
<1>3. InPlace(package, e)
  <2>1. IsLinked(package, s)
    BY <1>1 DEF Linked
  <2> QED BY <1>1, <1>2, <2>1 DEF IsLinked, InPlace
<1>4. context[package][ItemOf(d).name] = d /\ context[package][ItemOf(e).name] = e
  BY <1>1, <1>3, InContext DEF Filling
<1> QED BY <1>2, <1>4

(* New symbols in the module under way.                                    *)
LEMMA MoreSymbols ==
  ASSUME Typed, Linked, UNCHANGED <<program, package, front>>,
         \A p \in Packages : p # package => modules'[p] = modules[p],
         \A s \in DOMAIN Module : s \in DOMAIN Module' /\ Module'[s] = Module[s],
         \A s \in DOMAIN Module' \ DOMAIN Module :
           /\ Module'[s].suffix = 0
           /\ Module'[s].body <=> Module'[s].of[1] = package /\ ~ItemOf(Module'[s].of).ext
           /\ InPlace(package, Module'[s].of)
           /\ \A t \in DOMAIN Module : Module[t].of # Module'[s].of
           /\ \A t \in DOMAIN Module' \ DOMAIN Module : Module'[t].of = Module'[s].of => t = s
  PROVE  Linked'
<1>1. /\ program' = program /\ package' = package /\ imports' = imports /\ package \in Packages
      /\ Packages' = Packages /\ Module = modules[package] /\ Module' = modules'[package]
      /\ \A d : ItemOf(d)' = ItemOf(d)
  BY DEF Typed, FrontOK, Module, front, Packages, ItemOf
<1> SUFFICES ASSUME NEW p \in Packages, NEW s \in DOMAIN modules'[p]
             PROVE  IsLinked(p, s)'
  BY <1>1 DEF Linked
<1>2. CASE p # package
  <2>1. modules'[p] = modules[p] /\ IsLinked(p, s)
    BY <1>2 DEF Linked
  <2> QED BY <1>1, <2>1 DEF IsLinked
<1>3. CASE p = package /\ s \in DOMAIN Module
  <2>1. PICK f : f = Module[s] /\ f = Module'[s]
    BY <1>3
  <2>2. /\ f.suffix = 0
        /\ f.body <=> f.of[1] = p /\ ~ItemOf(f.of).ext
        /\ f.of[1] = p \/ \E j \in DOMAIN program[p] : f.of \in imports[p][j]
        /\ \A t \in DOMAIN Module : Module[t].of = f.of => t = s
    BY <1>1, <1>3, <2>1 DEF Linked, IsLinked
  <2>3. \A t \in DOMAIN Module' : Module'[t].of = f.of => t = s
    BY <1>3, <2>1, <2>2
  <2> QED BY <1>1, <1>3, <2>1, <2>2, <2>3 DEF IsLinked
<1>4. CASE p = package /\ s \notin DOMAIN Module
  <2>1. PICK f : f = Module'[s]
    OBVIOUS
  <2>2. s \in DOMAIN Module' \ DOMAIN Module
    BY <1>1, <1>4
  <2>3. /\ f.suffix = 0
        /\ f.body <=> f.of[1] = p /\ ~ItemOf(f.of).ext
        /\ f.of[1] = p \/ \E j \in DOMAIN program[p] : f.of \in imports[p][j]
    BY <1>4, <2>1, <2>2 DEF InPlace
  <2>4. \A t \in DOMAIN Module' : Module'[t].of = f.of => t = s
    BY <2>1, <2>2
  <2> QED BY <1>1, <1>4, <2>1, <2>3, <2>4 DEF IsLinked
<1> QED BY <1>2, <1>3, <1>4

(* Symbols that get an instruction stay what they are.                     *)
LEMMA SameSymbols ==
  ASSUME Linked, UNCHANGED <<program, front>>,
         \A p \in Packages :
           /\ DOMAIN modules'[p] = DOMAIN modules[p]
           /\ \A s \in DOMAIN modules[p] :
                /\ modules'[p][s].of = modules[p][s].of
                /\ modules'[p][s].suffix = modules[p][s].suffix
                /\ modules'[p][s].body = modules[p][s].body
  PROVE  Linked'
<1>1. /\ program' = program /\ imports' = imports /\ Packages' = Packages
      /\ \A d : ItemOf(d)' = ItemOf(d)
  BY DEF front, Packages, ItemOf
<1> SUFFICES ASSUME NEW p \in Packages, NEW s \in DOMAIN modules'[p]
             PROVE  IsLinked(p, s)'
  BY <1>1 DEF Linked
<1>2. IsLinked(p, s)
  BY DEF Linked
<1> QED BY <1>1, <1>2 DEF IsLinked

(* The symbol that a declaration or a body adds.                           *)
Added(d, body) ==
  /\ Module' \in Seq(Symbol) /\ Len(Module') = Len(Module) + 1 /\ Len(Module) \in Nat
  /\ \A p \in Packages : p # package => modules'[p] = modules[p]
  /\ \A s \in DOMAIN Module : s \in DOMAIN Module' /\ Module'[s] = Module[s]
  /\ \A s \in DOMAIN Module' : s \in DOMAIN Module \/ s = Len(Module) + 1
  /\ Len(Module) + 1 \in DOMAIN Module'
  /\ Module'[Len(Module) + 1].of = d
  /\ Module'[Len(Module) + 1].body = body
  /\ Module'[Len(Module) + 1].code = <<>>
  /\ ~Taken(d) => Module'[Len(Module) + 1].suffix = 0

(* Append adds a symbol.                                                   *)
LEMMA AppendAdds ==
  ASSUME Typed, NEW f \in Symbol, f.code = <<>>, ~Taken(f.of) => f.suffix = 0,
         modules' = [modules EXCEPT ![package] = Append(@, f)],
         UNCHANGED <<program, package>>
  PROVE  Added(f.of, f.body)
<1>1. f.of \in Decl
  BY DEF Symbol
<1>2. /\ Module' \in Seq(Symbol)
      /\ Len(Module') = Len(Module) + 1
      /\ \A s \in DOMAIN Module : s \in DOMAIN Module' /\ Module'[s] = Module[s]
      /\ Len(Module) + 1 \in DOMAIN Module'
      /\ Module'[Len(Module) + 1] = f
      /\ \A p \in Packages : p # package => modules'[p] = modules[p]
  BY <1>1, DeclareType
<1>3. Module \in Seq(Symbol) /\ Len(Module) \in Nat
  BY DEF Typed, FrontOK, BuilderOK, Module
<1>4. \A s \in DOMAIN Module' : s \in DOMAIN Module \/ s = Len(Module) + 1
  BY <1>2, <1>3
<1> QED BY <1>2, <1>3, <1>4 DEF Added

(* A declaration adds one without a body.                                  *)
LEMMA DeclareAdds ==
  ASSUME Typed, NEW d \in Decl, Declare(d), UNCHANGED <<program, package>>
  PROVE  Added(d, FALSE)
<1> DEFINE f == Prototype(d, 0)
<1>1. f \in Symbol /\ f.of = d /\ f.body = FALSE /\ f.code = <<>>
  BY PrototypeType
<1>2. ~Taken(d) => f.suffix = 0
  BY DEF Prototype
<1>3. modules' = [modules EXCEPT ![package] = Append(@, f)]
  BY DEF Declare
<1> HIDE DEF f
<1>4. Added(f.of, f.body)
  BY <1>1, <1>2, <1>3, AppendAdds
<1> QED BY <1>1, <1>4

(* The visitor of a function that has a body adds one with it.             *)
LEMMA EnterAdds ==
  ASSUME Typed, NEW d \in Decl, Enter(d), UNCHANGED <<program, package>>
  PROVE  Added(d, TRUE)
<1> DEFINE f == [Prototype(d, 0) EXCEPT !.body = TRUE]
<1>1. /\ f \in Symbol /\ f.of = d /\ f.body = TRUE /\ f.code = <<>>
      /\ ~Taken(d) => f.suffix = 0
  <2>1. /\ Prototype(d, 0) \in Symbol /\ Prototype(d, 0).of = d
        /\ Prototype(d, 0).code = <<>>
    BY PrototypeType
  <2>2. ~Taken(d) => Prototype(d, 0).suffix = 0
    BY DEF Prototype
  <2>3. \A g \in Symbol : /\ [g EXCEPT !.body = TRUE] \in Symbol
                         /\ [g EXCEPT !.body = TRUE].of = g.of
                         /\ [g EXCEPT !.body = TRUE].body = TRUE
                         /\ [g EXCEPT !.body = TRUE].code = g.code
                         /\ [g EXCEPT !.body = TRUE].suffix = g.suffix
    BY DEF Symbol
  <2> QED BY <2>1, <2>2, <2>3
<1>2. modules' = [modules EXCEPT ![package] = Append(@, f)]
  BY DEF Enter
<1> HIDE DEF f
<1>3. Added(f.of, f.body)
  BY <1>1, <1>2, AppendAdds
<1> QED BY <1>1, <1>3

(* The function under a name that is free, in its place.                   *)
LEMMA AddedLinked ==
  ASSUME Typed, Nearest, Brought, pc = "generate", Linkable, Linked,
         UNCHANGED <<program, package, front>>,
         NEW d \in Decl, InPlace(package, d), NEW body \in BOOLEAN, Added(d, body),
         body <=> d[1] = package /\ ~ItemOf(d).ext,
         \A s \in DOMAIN Module : Module[s].of # d
  PROVE  Linked'
<1>1. ~Taken(d)
  BY NotTaken
<1>2. PICK n : n = Len(Module) + 1
  OBVIOUS
<1>3. /\ \A p \in Packages : p # package => modules'[p] = modules[p]
      /\ \A s \in DOMAIN Module : s \in DOMAIN Module' /\ Module'[s] = Module[s]
      /\ \A s \in DOMAIN Module' \ DOMAIN Module : s = n
      /\ Module'[n].of = d /\ Module'[n].body = body /\ Module'[n].suffix = 0
  BY <1>1, <1>2 DEF Added
<1>4. ASSUME NEW s \in DOMAIN Module' \ DOMAIN Module
      PROVE  /\ Module'[s].suffix = 0
             /\ Module'[s].body <=> Module'[s].of[1] = package /\ ~ItemOf(Module'[s].of).ext
             /\ InPlace(package, Module'[s].of)
             /\ \A t \in DOMAIN Module : Module[t].of # Module'[s].of
             /\ \A t \in DOMAIN Module' \ DOMAIN Module : Module'[t].of = Module'[s].of => t = s
  <2>1. s = n
    BY <1>3
  <2>2. /\ Module'[s].suffix = 0 /\ Module'[s].of = d
        /\ \A t \in DOMAIN Module' \ DOMAIN Module : t = s
    BY <1>3, <2>1
  <2>3. Module'[s].body <=> d[1] = package /\ ~ItemOf(d).ext
    BY <1>3, <2>1
  <2> QED BY <2>2, <2>3
<1> QED BY <1>3, <1>4, MoreSymbols

(* A call of a function of the module.                                     *)
LEMMA PutAdds ==
  ASSUME Typed, insert \in DOMAIN Module, NEW instruction \in Decl \X Nat,
         Put(instruction), UNCHANGED <<program, package>>
  PROVE  /\ \A p \in Packages :
              /\ DOMAIN modules'[p] = DOMAIN modules[p]
              /\ Len(modules'[p]) = Len(modules[p])
              /\ \A s \in DOMAIN modules[p] :
                   /\ modules'[p][s].of = modules[p][s].of
                   /\ modules'[p][s].suffix = modules[p][s].suffix
                   /\ modules'[p][s].body = modules[p][s].body
         /\ DOMAIN Module' = DOMAIN Module
         /\ \A s \in DOMAIN Module : Module'[s].of = Module[s].of
         /\ Pointing /\ instruction[2] <= Len(Module) => Pointing'
<1> DEFINE code == Append(Module[insert].code, instruction)
           f == [Module[insert] EXCEPT !.code = code]
<1>1. /\ Module \in Seq(Symbol) /\ package \in Packages
      /\ modules \in [Packages -> Seq(Symbol)] /\ Packages' = Packages
      /\ Module = modules[package] /\ Module' = modules'[package]
  BY DEF Typed, FrontOK, BuilderOK, Module, Packages
<1>2. Module[insert] \in Symbol
  BY <1>1
<1>3. Module[insert].code \in Seq(Decl \X Nat)
  BY <1>2 DEF Symbol
<1>4. \A k \in DOMAIN code :
        \/ code[k] = instruction
        \/ k \in DOMAIN Module[insert].code /\ code[k] = Module[insert].code[k]
  <2>1. PICK old \in Seq(Decl \X Nat) : old = Module[insert].code /\ code = Append(old, instruction)
    BY <1>3
  <2>2. DOMAIN old = 1..Len(old) /\ Len(old) \in Nat /\ DOMAIN code = 1..(Len(old) + 1)
    BY <2>1
  <2>3. code[Len(old) + 1] = instruction /\ \A k \in 1..Len(old) : code[k] = old[k]
    BY <2>1
  <2>4. \A k \in DOMAIN code : k \in 1..Len(old) \/ k = Len(old) + 1
    BY <2>2
  <2> HIDE DEF code
  <2> QED BY <2>1, <2>2, <2>3, <2>4
<1>5. code \in Seq(Decl \X Nat)
  BY <1>3
<1> HIDE DEF code
<1>6. /\ f \in Symbol /\ f.of = Module[insert].of /\ f.body = Module[insert].body
      /\ f.suffix = Module[insert].suffix /\ f.code = code
  BY <1>2, <1>5 DEF Symbol
<1>7. modules' = [modules EXCEPT ![package] = [Module EXCEPT ![insert] = f]]
  BY <1>1 DEF Put, Module, code
<1> HIDE DEF f
<1>8. /\ Module' = [Module EXCEPT ![insert] = f]
      /\ \A p \in Packages : p # package => modules'[p] = modules[p]
  BY <1>1, <1>7
<1>9. /\ DOMAIN Module' = DOMAIN Module /\ Len(Module') = Len(Module)
      /\ Module'[insert] = f
      /\ \A s \in DOMAIN Module : s # insert => Module'[s] = Module[s]
  BY <1>1, <1>6, <1>8
<1>10. \A s \in DOMAIN Module : /\ Module'[s].of = Module[s].of
                                /\ Module'[s].suffix = Module[s].suffix
                                /\ Module'[s].body = Module[s].body
  BY <1>6, <1>9
<1>11. ASSUME NEW p \in Packages
       PROVE  /\ DOMAIN modules'[p] = DOMAIN modules[p]
              /\ Len(modules'[p]) = Len(modules[p])
              /\ \A s \in DOMAIN modules[p] :
                   /\ modules'[p][s].of = modules[p][s].of
                   /\ modules'[p][s].suffix = modules[p][s].suffix
                   /\ modules'[p][s].body = modules[p][s].body
  <2>1. CASE p = package
    BY <1>1, <1>9, <1>10, <2>1
  <2>2. CASE p # package
    <3>1. modules'[p] = modules[p]
      BY <1>8, <2>2
    <3> QED BY <3>1
  <2> QED BY <2>1, <2>2
<1>12. ASSUME Pointing, instruction[2] <= Len(Module)
       PROVE  Pointing'
  <2> SUFFICES ASSUME NEW p \in Packages, NEW s \in DOMAIN modules'[p],
                      NEW k \in DOMAIN modules'[p][s].code
               PROVE  modules'[p][s].code[k][2] <= Len(modules'[p])
    BY <1>1 DEF Pointing
  <2>1. CASE p = package /\ s = insert
    <3>1. k \in DOMAIN code /\ modules'[p][s].code[k] = code[k]
      BY <1>1, <1>6, <1>9, <2>1
    <3>2. CASE code[k] = instruction
      BY <1>11, <1>12, <1>1, <2>1, <3>1, <3>2
    <3>3. CASE k \in DOMAIN Module[insert].code /\ code[k] = Module[insert].code[k]
      BY <1>11, <1>12, <1>1, <2>1, <3>1, <3>3 DEF Pointing
    <3> QED BY <1>4, <3>1, <3>2, <3>3
  <2>2. CASE ~(p = package /\ s = insert)
    <3>1. s \in DOMAIN modules[p] /\ modules'[p][s] = modules[p][s]
      <4>1. CASE p = package
        BY <1>1, <1>9, <2>2, <4>1
      <4>2. CASE p # package
        <5>1. modules'[p] = modules[p]
          BY <1>8, <4>2
        <5> QED BY <5>1
      <4> QED BY <4>1, <4>2
    <3> QED BY <1>11, <1>12, <3>1 DEF Pointing
  <2> QED BY <2>1, <2>2
<1> QED BY <1>9, <1>10, <1>11, <1>12

(* The symbols that an import statement adds.                              *)
LEMMA ImportAdds ==
  ASSUME Typed, VisitImport
  PROVE  /\ Len(Module) \in Nat /\ Len(Module') \in Nat /\ Len(Module) <= Len(Module')
         /\ \A s \in DOMAIN Module' \ DOMAIN Module :
              /\ Module'[s].of \in imports[package][item]
              /\ Module'[s].body = FALSE
              /\ Module'[s].code = <<>>
              /\ ~Taken(Module'[s].of) => Module'[s].suffix = 0
              /\ \A t \in DOMAIN Module' \ DOMAIN Module :
                   Module'[t].of = Module'[s].of => t = s
         /\ \A d \in Decl : d \notin imports[package][item] => cache'[d] = cache[d]
<1> DEFINE S == imports[package][item]
<1>1. S \in SUBSET Decl
  BY HereFacts DEF VisitImport, Generating
<1>2. PICK order \in Orders(S) :
        /\ modules' = [modules EXCEPT ![package] =
             @ \o [k \in DOMAIN order |->
                     Prototype(order[k], Cardinality({j \in 1..(k - 1) : Taken(order[j])}))]]
        /\ cache' = [d \in Decl |->
             IF d \in S THEN Len(Module) + CHOOSE k \in DOMAIN order : order[k] = d
             ELSE cache[d]]
  BY DEF VisitImport
<1>3. \A d \in Decl : d \notin S => cache'[d] = cache[d]
  BY <1>2
<1> DEFINE n == Cardinality(S)
           B(k) == Cardinality({j \in 1..(k - 1) : Taken(order[j])})
           P(k) == Prototype(order[k], B(k))
           new == [k \in DOMAIN order |-> P(k)]
<1>4. n \in Nat
  BY <1>1, ProgramFacts, FS_Subset, FS_CardinalityType DEF Typed
<1>5. /\ order \in [1..n -> S] /\ DOMAIN order = 1..n
      /\ \A i, j \in 1..n : order[i] = order[j] => i = j
  BY DEF Orders, Bijection, Surjection, Injection, IsInjective
<1> HIDE DEF n
<1>6. ASSUME NEW k \in 1..n
      PROVE  B(k) \in Nat
  <2>1. PICK m \in Int : m = k - 1
    BY <1>4
  <2>2. IsFiniteSet(1..(k - 1))
    <3>1. \A a, b \in Int : IsFiniteSet(a..b)
      BY ONLY FS_Interval
    <3> QED BY <2>1, <3>1
  <2>3. {j \in 1..(k - 1) : Taken(order[j])} \subseteq 1..(k - 1)
    OBVIOUS
  <2> QED BY <2>2, <2>3, FS_Subset, FS_CardinalityType
<1> HIDE DEF B
<1>7. \A k \in 1..n : /\ P(k) \in Symbol /\ P(k).of = order[k]
                      /\ P(k).body = FALSE /\ P(k).code = <<>>
                      /\ ~Taken(order[k]) => P(k).suffix = 0
  <2> SUFFICES ASSUME NEW k \in 1..n
               PROVE  /\ P(k) \in Symbol /\ P(k).of = order[k]
                      /\ P(k).body = FALSE /\ P(k).code = <<>>
                      /\ ~Taken(order[k]) => P(k).suffix = 0
    OBVIOUS
  <2>1. order[k] \in Decl
    BY <1>1, <1>5
  <2>2. ~Taken(order[k]) => P(k).suffix = 0
    BY DEF Prototype
  <2> QED BY <1>6, <2>1, <2>2, PrototypeType
<1> HIDE DEF P
<1>8. /\ new \in Seq(Symbol) /\ DOMAIN new = 1..n /\ Len(new) = n
      /\ \A k \in 1..n : new[k] = P(k)
  <2>1. new \in [1..n -> Symbol] /\ \A k \in 1..n : new[k] = P(k)
    BY <1>5, <1>7
  <2> HIDE DEF new
  <2>2. new \in Seq(Symbol)
    BY <1>4, <2>1
  <2>3. DOMAIN new = 1..n /\ Len(new) = n
    BY <1>4, <2>1, <2>2
  <2> QED BY <2>1, <2>2, <2>3
<1>9. /\ Module \in Seq(Symbol) /\ package \in Packages /\ Len(Module) \in Nat
      /\ modules \in [Packages -> Seq(Symbol)]
      /\ DOMAIN Module = 1..Len(Module)
  BY DEF Typed, FrontOK, BuilderOK, Module
<1>10. modules' = [modules EXCEPT ![package] = Module \o new]
  BY <1>2, <1>9 DEF Module, P, B
<1> HIDE DEF new
<1>11. /\ Module \o new \in Seq(Symbol) /\ Len(Module \o new) = Len(Module) + n
       /\ \A k \in 1..n : (Module \o new)[Len(Module) + k] = new[k]
  <2>1. \A i \in 1..(Len(Module) + Len(new)) :
          (Module \o new)[i] = IF i <= Len(Module) THEN Module[i] ELSE new[i - Len(Module)]
    BY <1>8, <1>9, ConcatProperties
  <2>2. Module \o new \in Seq(Symbol) /\ Len(Module \o new) = Len(Module) + Len(new)
    <3>1. new \in Seq(Symbol) /\ Module \in Seq(Symbol)
      BY <1>8, <1>9
    <3> QED BY ONLY <3>1, ConcatProperties
  <2> QED BY <1>4, <1>8, <1>9, <2>1, <2>2
<1>12. Module' = Module \o new
  <2>1. package' = package
    BY DEF VisitImport
  <2> QED BY <1>9, <1>10, <2>1 DEF Module
<1>13. /\ Len(Module') = Len(Module) + n /\ DOMAIN Module' = 1..(Len(Module) + n)
       /\ \A k \in 1..n : Module'[Len(Module) + k] = P(k)
  BY <1>8, <1>11, <1>12
<1>14. ASSUME NEW s \in DOMAIN Module' \ DOMAIN Module
       PROVE  \E k \in 1..n : s = Len(Module) + k /\ Module'[s] = P(k)
  <2>1. s - Len(Module) \in 1..n /\ s = Len(Module) + (s - Len(Module))
    BY <1>4, <1>9, <1>13
  <2> QED BY <1>13, <2>1
<1>15. ASSUME NEW s \in DOMAIN Module' \ DOMAIN Module
       PROVE  /\ Module'[s].of \in S
              /\ Module'[s].body = FALSE
              /\ Module'[s].code = <<>>
              /\ ~Taken(Module'[s].of) => Module'[s].suffix = 0
              /\ \A t \in DOMAIN Module' \ DOMAIN Module :
                   Module'[t].of = Module'[s].of => t = s
  <2>1. PICK k \in 1..n : s = Len(Module) + k /\ Module'[s] = P(k)
    BY <1>14
  <2>2. ASSUME NEW t \in DOMAIN Module' \ DOMAIN Module, Module'[t].of = Module'[s].of
        PROVE  t = s
    <3>1. PICK j \in 1..n : t = Len(Module) + j /\ Module'[t] = P(j)
      BY <1>14
    <3>2. order[j] = order[k]
      BY <1>7, <2>1, <2>2, <3>1
    <3> QED BY <1>5, <2>1, <3>1, <3>2
  <2>3. order[k] \in S /\ Module'[s].of = order[k]
    BY <1>5, <1>7, <2>1
  <2> QED BY <1>7, <2>1, <2>2, <2>3
<1> HIDE DEF S
<1>16. S = imports[package][item] /\ Len(Module) <= Len(Module') /\ Len(Module') \in Nat
  BY <1>4, <1>9, <1>13 DEF S
<1> QED BY <1>3, <1>9, <1>15, <1>16

(* Old calls stay in the module when it grows.                             *)
LEMMA PointingMore ==
  ASSUME Typed, Pointing, UNCHANGED <<program, package>>,
         \A p \in Packages : p # package => modules'[p] = modules[p],
         \A s \in DOMAIN Module : Module'[s] = Module[s],
         \A s \in DOMAIN Module' : s \in DOMAIN Module \/ Module'[s].code = <<>>,
         Len(Module) \in Nat, Len(Module') \in Nat, Len(Module) <= Len(Module')
  PROVE  Pointing'
<1>1. /\ Packages' = Packages /\ package \in Packages /\ Module \in Seq(Symbol)
      /\ Module = modules[package] /\ Module' = modules'[package]
  BY DEF Typed, FrontOK, BuilderOK, Module, Packages
<1> SUFFICES ASSUME NEW p \in Packages, NEW s \in DOMAIN modules'[p],
                    NEW k \in DOMAIN modules'[p][s].code
             PROVE  modules'[p][s].code[k][2] <= Len(modules'[p])
  BY <1>1 DEF Pointing
<1>2. CASE p # package
  <2>1. modules'[p] = modules[p]
    BY <1>2
  <2> QED BY <2>1 DEF Pointing
<1>3. CASE p = package /\ s \in DOMAIN Module
  <2>1. PICK f \in Symbol : f = Module[s] /\ f = Module'[s]
    BY <1>1, <1>3
  <2>2. k \in DOMAIN f.code /\ f.code[k][2] <= Len(Module)
    BY <1>1, <1>3, <2>1 DEF Pointing
  <2>3. f.code \in Seq(Decl \X Nat)
    BY DEF Symbol
  <2>4. f.code[k] \in Decl \X Nat
    BY <2>2, <2>3
  <2>5. f.code[k][2] \in Nat
    BY <2>4
  <2>6. f.code[k][2] <= Len(Module')
    BY <2>2, <2>5
  <2> QED BY <1>1, <1>3, <2>1, <2>6
<1>4. CASE p = package /\ s \notin DOMAIN Module
  <2>1. modules'[p][s].code = <<>>
    BY <1>1, <1>4
  <2>2. DOMAIN <<>> = {}
    OBVIOUS
  <2> QED BY <2>1, <2>2
<1> QED BY <1>2, <1>3, <1>4

(* A new symbol has no calls yet.                                          *)
LEMMA AddedPointing ==
  ASSUME Typed, Pointing, UNCHANGED <<program, package>>, NEW d, NEW body, Added(d, body)
  PROVE  Pointing'
<1>1. Len(Module) \in Nat /\ Len(Module') \in Nat /\ Len(Module) <= Len(Module')
  BY DEF Added
<1>2. \A s \in DOMAIN Module' : s \in DOMAIN Module \/ Module'[s].code = <<>>
  BY DEF Added
<1>3. /\ \A p \in Packages : p # package => modules'[p] = modules[p]
      /\ \A s \in DOMAIN Module : Module'[s] = Module[s]
  BY DEF Added
<1> QED BY <1>1, <1>2, <1>3, PointingMore

(* Generated packages stay complete.                                       *)
LEMMA LinkingThen ==
  ASSUME Typed, Linking, UNCHANGED <<program, package, front>>,
         pc = "generate", pc' = "generate", Pointing',
         \A p \in Packages : \A s \in DOMAIN modules[p] :
           s \in DOMAIN modules'[p] /\ modules'[p][s].of = modules[p][s].of,
         Buildable /\ Linked /\ Going => Linked' /\ Going'
  PROVE  Linking'
<1>1. Packages' = Packages /\ Decl' = Decl
  BY DEF Packages, Decl
<1>2. Buildable' => Buildable
  BY BuildableKept
<1>3. \A p : Generated(p)' => Generated(p)
  BY DEF Generated
<1>4. \A p \in Packages : Complete(p) => Complete(p)'
  BY <1>1 DEF Complete
<1>5. ASSUME Buildable'
      PROVE  Linked' /\ Going' /\ \A p \in Packages : Generated(p)' => Complete(p)'
  <2>1. Linked /\ Going /\ \A p \in Packages : Generated(p) => Complete(p)
    BY <1>2, <1>5 DEF Linking
  <2> QED BY <1>2, <1>3, <1>4, <1>5, <2>1
<1> QED BY <1>1, <1>5 DEF Linking

(* What is known while code is generated.                                  *)
Ready ==
  /\ Typed /\ Orderly /\ FirstChecked /\ Backward /\ Terminating /\ Nearest /\ Brought
  /\ Linking

(* Where the items that were looked at are.                                *)
LEMMA ItemFacts ==
  ASSUME Typed
  PROVE  /\ package \in Packages /\ Packages = 1..Len(program) /\ Len(program) \in Nat
         /\ item \in Nat \ {0}
         /\ DOMAIN program[package] = 1..Len(program[package]) /\ Len(program[package]) \in Nat
         /\ \A j \in 1..(item - 1) : j \in DOMAIN program[package] /\ j \in Nat /\ j < item
<1>1. package \in Packages /\ Packages = 1..Len(program) /\ Len(program) \in Nat
  BY ProgramFacts DEF Typed, FrontOK
<1>2. DOMAIN program[package] = 1..Len(program[package]) /\ Len(program[package]) \in Nat
  BY <1>1, ProgramFacts DEF Typed
<1>3. item \in 1..(Len(program[package]) + 1)
  BY DEF Typed, FrontOK
<1> QED BY <1>1, <1>2, <1>3

(* The visit of an import statement.                                       *)
LEMMA LinkingImport == Ready /\ VisitImport => Linking'
<1> SUFFICES ASSUME Ready, VisitImport PROVE Linking'
  OBVIOUS
<1> DEFINE S == imports[package][item]
<1>1. /\ Typed /\ Orderly /\ Backward /\ Nearest /\ Brought /\ Linking
      /\ pc = "generate" /\ pc' = "generate" /\ stack = <<>> /\ Pending
      /\ UNCHANGED <<program, package, front, stack>> /\ item' = item + 1
      /\ program[package][item].do = "import" /\ imports' = imports
  BY DEF Ready, VisitImport, Generating, Here, front
<1>2. /\ Len(Module) \in Nat /\ Len(Module') \in Nat /\ Len(Module) <= Len(Module')
      /\ \A s \in DOMAIN Module' \ DOMAIN Module :
           /\ Module'[s].of \in S
           /\ Module'[s].body = FALSE
           /\ Module'[s].code = <<>>
           /\ ~Taken(Module'[s].of) => Module'[s].suffix = 0
           /\ \A t \in DOMAIN Module' \ DOMAIN Module :
                Module'[t].of = Module'[s].of => t = s
  BY <1>1, ImportAdds
<1>3. /\ \A s \in DOMAIN Module : s \in DOMAIN Module' /\ Module'[s] = Module[s]
      /\ \A p \in Packages : p # package => modules'[p] = modules[p]
      /\ \A d \in S : cache'[d] # 0
      /\ \A d \in Decl : cache[d] # 0 => cache'[d] # 0
  BY <1>1, ImportFacts
<1>4. Pointing'
  BY <1>1, <1>2, <1>3, PointingMore DEF Linking
<1>5. /\ package \in Packages /\ item \in DOMAIN program[package] /\ S \in SUBSET Decl
      /\ Module \in Seq(Symbol) /\ Module = modules[package] /\ Module' = modules'[package]
  BY <1>1, HereFacts DEF Typed, FrontOK, BuilderOK, Module
<1>6. \A d \in S : d[1] < package /\ InPlace(package, d)
  BY <1>1, <1>5 DEF Backward, InPlace
<1>7. \A d \in S : d[1] # package
  <2>1. \A d \in S : d[1] \in Nat /\ package \in Nat
    BY <1>1, <1>5, PlaceFacts
  <2> QED BY <1>6, <2>1
<1>8. /\ item \in Nat \ {0} /\ item \notin 1..(item - 1)
      /\ item \in 1..((item + 1) - 1)
      /\ \A j \in 1..(item - 1) : j \in 1..((item + 1) - 1) /\ j \in DOMAIN program[package]
      /\ \A j \in 1..((item + 1) - 1) : j \in 1..(item - 1) \/ j = item
  BY <1>1, ItemFacts
<1>9. \A s \in DOMAIN Module : Module[s].of \in Decl
  <2>1. \A s \in DOMAIN Module : Module[s] \in Symbol
    BY <1>5
  <2> QED BY <2>1 DEF Symbol
<1>10. ASSUME Buildable, Linked, Going
       PROVE  Linked'
  <2>1. Linkable
    BY <1>10 DEF Buildable
  <2>2. ASSUME NEW d \in S, NEW t \in DOMAIN Module, Module[t].of = d
        PROVE  FALSE
    <3>1. PICK j \in 1..(item - 1) : d \in imports[package][j]
      BY <1>7, <1>10, <2>2 DEF Going
    <3>2. j = item
      BY <1>1, <1>5, <1>8, <2>2, <3>1 DEF Brought
    <3> QED BY <1>8, <3>2
  <2>3. \A d \in S : ~Taken(d)
    <3> SUFFICES ASSUME NEW d \in S PROVE ~Taken(d)
      OBVIOUS
    <3>1. d \in Decl /\ InPlace(package, d) /\ \A t \in DOMAIN Module : Module[t].of # d
      BY <1>5, <1>6, <2>2
    <3> QED BY <1>1, <1>10, <2>1, <3>1, NotTaken
  <2>4. ASSUME NEW s \in DOMAIN Module' \ DOMAIN Module
        PROVE  /\ Module'[s].suffix = 0
               /\ Module'[s].body <=> Module'[s].of[1] = package /\ ~ItemOf(Module'[s].of).ext
               /\ InPlace(package, Module'[s].of)
               /\ \A t \in DOMAIN Module : Module[t].of # Module'[s].of
               /\ \A t \in DOMAIN Module' \ DOMAIN Module :
                    Module'[t].of = Module'[s].of => t = s
    <3>1. PICK d \in S : d = Module'[s].of
      BY <1>2, <2>4
    <3>2. ~Module'[s].body /\ d[1] # package
      BY <1>2, <1>7, <2>4
    <3> QED BY <1>2, <1>6, <2>2, <2>3, <2>4, <3>1, <3>2
  <2> QED BY <1>1, <1>3, <1>10, <2>4, MoreSymbols
<1>11. ASSUME Buildable, Linked, Going
       PROVE  Going'
  <2>1. ASSUME NEW s \in DOMAIN Module'
        PROVE  /\ cache'[Module'[s].of] # 0
               /\ Module'[s].of[1] # package =>
                    \E j \in 1..((item + 1) - 1) : Module'[s].of \in imports[package][j]
    <3>1. CASE s \in DOMAIN Module
      <4>1. PICK d \in Decl : d = Module[s].of /\ d = Module'[s].of
        BY <1>3, <1>9, <3>1
      <4>2. cache[d] # 0
        <5>1. DOMAIN stack = {}
          BY <1>1
        <5>2. cache[d] # 0 \/ \E i \in DOMAIN stack : stack[i].of = d
          BY <1>11, <3>1, <4>1 DEF Going
        <5> QED BY <5>1, <5>2
      <4>3. d[1] # package => \E j \in 1..(item - 1) : d \in imports[package][j]
        BY <1>11, <3>1, <4>1 DEF Going
      <4> QED BY <1>3, <1>8, <4>1, <4>2, <4>3
    <3>2. CASE s \notin DOMAIN Module
      BY <1>2, <1>3, <1>8, <2>1, <3>2
    <3> QED BY <3>1, <3>2
  <2>2. ASSUME NEW j \in 1..((item + 1) - 1)
        PROVE  /\ program[package][j].do = "import" =>
                    \A d \in imports[package][j] : cache'[d] # 0
               /\ program[package][j].do = "fn" =>
                    \E s \in DOMAIN Module' : Module'[s].of = <<package, j>>
    <3>1. CASE j = item
      BY <1>1, <1>3, <3>1
    <3>2. CASE j \in 1..(item - 1)
      <4>1. program[package][j].do = "import" => \A d \in imports[package][j] : cache[d] # 0
        BY <1>11, <3>2 DEF Going
      <4>2. program[package][j].do = "fn" => \E s \in DOMAIN Module : Module[s].of = <<package, j>>
        BY <1>11, <3>2 DEF Going
      <4>3. imports[package][j] \in SUBSET Decl
        BY <1>1, <1>5, <1>8, <3>2 DEF Typed, FrontOK
      <4> QED BY <1>3, <4>1, <4>2, <4>3
    <3> QED BY <1>8, <3>1, <3>2
  <2>3. DOMAIN stack' = {} /\ stack' = <<>>
    BY <1>1
  <2>4. /\ program' = program /\ package' = package /\ imports' = imports /\ item' = item + 1
    BY <1>1
  <2>5. /\ \A s \in DOMAIN Module' : LET d == Module'[s].of IN
            /\ cache'[d] # 0 \/ \E i \in DOMAIN stack' : stack'[i].of = d
            /\ d[1] # package' => \E j \in 1..(item' - 1) : d \in imports'[package'][j]
    BY <2>1, <2>4
  <2>6. \A j \in 1..(item' - 1) :
          /\ program'[package'][j].do = "import" => \A d \in imports'[package'][j] : cache'[d] # 0
          /\ program'[package'][j].do = "fn" =>
               \E s \in DOMAIN Module' : Module'[s].of = <<package', j>>
    BY <2>2, <2>4
  <2> QED BY <2>3, <2>5, <2>6 DEF Going
<1>12. \A p \in Packages : \A s \in DOMAIN modules[p] :
         s \in DOMAIN modules'[p] /\ modules'[p][s].of = modules[p][s].of
  BY <1>3, <1>5
<1> HIDE DEF S
<1> QED BY <1>1, <1>4, <1>10, <1>11, <1>12, LinkingThen

(* A function of the package that has no value and is not under way has no *)
(* symbol, and gets the only one.                                          *)
LEMMA OwnAdded ==
  ASSUME Ready, pc = "generate", Buildable, Linked, Going,
         NEW d \in Decl, d[1] = package, cache[d] = 0,
         \A i \in DOMAIN stack : stack[i].of # d,
         NEW body \in BOOLEAN, body <=> ~ItemOf(d).ext, Added(d, body),
         UNCHANGED <<program, package, front>>
  PROVE  Linked'
<1>1. \A s \in DOMAIN Module : Module[s].of # d
  BY DEF Going
<1>2. Linkable /\ Typed /\ Nearest /\ Brought /\ InPlace(package, d)
  BY DEF Buildable, Ready, InPlace
<1> QED BY <1>1, <1>2, AddedLinked

(* A function that is added leaves the rest as it is known.                *)
LEMMA AddedGoing ==
  ASSUME Typed, Going, NEW d, d[1] = package, NEW body, Added(d, body),
         UNCHANGED <<program, package, front>>,
         item' = item \/ item' = item + 1,
         \A e \in Decl : cache[e] # 0 => cache'[e] # 0,
         DOMAIN stack \subseteq DOMAIN stack',
         \A i \in DOMAIN stack : stack'[i].of = stack[i].of,
         \A i \in DOMAIN stack' : i \in DOMAIN stack \/ stack'[i].of = d,
         cache'[d] # 0 \/ \E i \in DOMAIN stack' : stack'[i].of = d,
         stack' # <<>> => \E i \in 1..(item' - 1) : program[package][i].do = "fn",
         item' = item + 1 => program[package][item].do = "fn" /\ d = <<package, item>>
  PROVE  Going'
<1>1. /\ \A s \in DOMAIN Module : s \in DOMAIN Module' /\ Module'[s] = Module[s]
      /\ \A s \in DOMAIN Module' : s \in DOMAIN Module \/ Module'[s].of = d
      /\ \E s \in DOMAIN Module' : Module'[s].of = d
  BY DEF Added
<1>2. /\ program' = program /\ package' = package /\ imports' = imports
      /\ item \in Nat \ {0}
      /\ \A j \in 1..(item - 1) : j \in 1..(item' - 1) /\ j \in DOMAIN program[package]
      /\ \A j \in 1..(item' - 1) : j \in 1..(item - 1) \/ (j = item /\ item' = item + 1)
  BY ItemFacts DEF front
<1>3. \A s \in DOMAIN Module : Module[s].of \in Decl
  <2>1. Module \in Seq(Symbol)
    BY DEF Typed, FrontOK, BuilderOK, Module
  <2>2. \A s \in DOMAIN Module : Module[s] \in Symbol
    BY <2>1
  <2> QED BY <2>2 DEF Symbol
<1>4. ASSUME NEW s \in DOMAIN Module'
      PROVE  LET e == Module'[s].of IN
             /\ cache'[e] # 0 \/ \E i \in DOMAIN stack' : stack'[i].of = e
             /\ e[1] # package => \E j \in 1..(item' - 1) : e \in imports[package][j]
  <2>1. CASE s \in DOMAIN Module
    <3>1. PICK e \in Decl : e = Module[s].of /\ e = Module'[s].of
      BY <1>1, <1>3, <2>1
    <3>2. cache[Module[s].of] # 0 \/ \E i \in DOMAIN stack : stack[i].of = Module[s].of
      BY <2>1 DEF Going
    <3>3. Module[s].of[1] # package =>
            \E j \in 1..(item - 1) : Module[s].of \in imports[package][j]
      BY <2>1 DEF Going
    <3>4. cache'[e] # 0 \/ \E i \in DOMAIN stack' : stack'[i].of = e
      <4>1. CASE cache[e] # 0
        BY <4>1
      <4>2. CASE \E i \in DOMAIN stack : stack[i].of = e
        <5>1. PICK i \in DOMAIN stack : stack[i].of = e
          BY <4>2
        <5>2. i \in DOMAIN stack' /\ stack'[i].of = e
          BY <5>1
        <5> QED BY <5>2
      <4>3. cache[e] # 0 \/ \E i \in DOMAIN stack : stack[i].of = e
        BY <3>1, <3>2
      <4> QED BY <4>1, <4>2, <4>3
    <3>5. e[1] # package => \E j \in 1..(item' - 1) : e \in imports[package][j]
      BY <1>2, <3>1, <3>3
    <3> QED BY <3>1, <3>4, <3>5
  <2>2. CASE s \notin DOMAIN Module
    BY <1>1, <2>2
  <2> QED BY <2>1, <2>2
<1>5. ASSUME NEW i \in DOMAIN stack'
      PROVE  stack'[i].of[1] = package
  BY <1>5 DEF Going
<1>6. ASSUME NEW j \in 1..(item' - 1)
      PROVE  /\ program[package][j].do = "import" =>
                  \A e \in imports[package][j] : cache'[e] # 0
             /\ program[package][j].do = "fn" =>
                  \E s \in DOMAIN Module' : Module'[s].of = <<package, j>>
  <2>1. CASE j \in 1..(item - 1)
    <3>1. program[package][j].do = "import" => \A e \in imports[package][j] : cache[e] # 0
      BY <2>1 DEF Going
    <3>2. program[package][j].do = "fn" => \E s \in DOMAIN Module : Module[s].of = <<package, j>>
      BY <2>1 DEF Going
    <3>3. imports[package][j] \in SUBSET Decl
      BY <1>2, <2>1 DEF Typed, FrontOK
    <3>4. ASSUME program[package][j].do = "import", NEW e \in imports[package][j]
          PROVE  cache'[e] # 0
      <4>1. e \in Decl /\ cache[e] # 0
        BY <3>1, <3>3, <3>4
      <4> QED BY <4>1
    <3>5. (\E s \in DOMAIN Module : Module[s].of = <<package, j>>)
            => \E s \in DOMAIN Module' : Module'[s].of = <<package, j>>
      BY <1>1
    <3> QED BY <3>2, <3>4, <3>5
  <2>2. CASE j = item /\ item' = item + 1
    BY <1>1, <2>2
  <2> QED BY <1>2, <2>1, <2>2
<1>7. \A s \in DOMAIN Module' : LET x == Module'[s].of IN
        /\ cache'[x] # 0 \/ \E i \in DOMAIN stack' : stack'[i].of = x
        /\ x[1] # package' => \E j \in 1..(item' - 1) : x \in imports'[package'][j]
  BY <1>2, <1>4
<1>8. \A i \in DOMAIN stack' : stack'[i].of[1] = package'
  BY <1>2, <1>5
<1>9. stack' # <<>> => \E i \in 1..(item' - 1) : program'[package'][i].do = "fn"
  BY <1>2
<1>10. \A j \in 1..(item' - 1) :
         /\ program'[package'][j].do = "import" =>
              \A x \in imports'[package'][j] : cache'[x] # 0
         /\ program'[package'][j].do = "fn" =>
              \E s \in DOMAIN Module' : Module'[s].of = <<package', j>>
  BY <1>2, <1>6
<1> QED BY <1>7, <1>8, <1>9, <1>10 DEF Going

(* The visit of a function among the children of the package.              *)
LEMMA LinkingFunction == Ready /\ (VisitExternal \/ VisitFunction) => Linking'
<1> SUFFICES ASSUME Ready, VisitExternal \/ VisitFunction PROVE Linking'
  OBVIOUS
<1>1. /\ Typed /\ Linking /\ pc = "generate" /\ pc' = "generate" /\ stack = <<>> /\ Pending
      /\ UNCHANGED <<program, package, front>> /\ item' = item + 1
      /\ Here.do = "fn" /\ cache[<<package, item>>] = 0
  BY DEF Ready, VisitExternal, VisitFunction, Generating
<1>2. PICK d \in Decl : d = <<package, item>> /\ ItemOf(d) = Here
  BY <1>1, HereFacts
<1>3. ItemOf(d).ext \in BOOLEAN /\ d[1] = package /\ program[package][item].do = "fn"
  BY <1>1, <1>2, DeclFacts DEF Typed, Here
<1>4. PICK body \in BOOLEAN : body <=> ~ItemOf(d).ext
  BY <1>3
<1>5. Added(d, body)
  <2>1. CASE VisitExternal
    <3>1. body = FALSE /\ Declare(d)
      BY <1>2, <1>4, <2>1 DEF VisitExternal
    <3> QED BY <1>1, <3>1, DeclareAdds
  <2>2. CASE VisitFunction
    <3>1. body = TRUE /\ Enter(d)
      BY <1>2, <1>4, <2>2 DEF VisitFunction
    <3> QED BY <1>1, <3>1, EnterAdds
  <2> QED BY <2>1, <2>2
<1>6. DOMAIN stack = {}
  BY <1>1
<1>7. Pointing'
  BY <1>1, <1>5, AddedPointing DEF Linking
<1>8. Buildable /\ Linked /\ Going => Linked'
  BY <1>1, <1>2, <1>3, <1>4, <1>5, <1>6, OwnAdded
<1>9. /\ \A e \in Decl : cache[e] # 0 => cache'[e] # 0
      /\ \A i \in DOMAIN stack' : stack'[i].of = d
      /\ cache'[d] # 0 \/ \E i \in DOMAIN stack' : stack'[i].of = d
  <2>1. CASE VisitExternal
    <3>1. cache' = [cache EXCEPT ![d] = Len(Module) + 1] /\ stack' = stack
      BY <1>2, <2>1 DEF VisitExternal, Declare
    <3>2. Len(Module) + 1 # 0 /\ cache \in [Decl -> 0..Len(Module)]
      BY <1>1, <1>5 DEF Added, Typed, BuilderOK
    <3> QED BY <1>6, <3>1, <3>2
  <2>2. CASE VisitFunction
    <3>1. /\ cache' = cache
          /\ stack' = Append(<<>>, [of |-> d, symbol |-> Len(Module) + 1, next |-> 1])
      BY <1>1, <1>2, <2>2 DEF VisitFunction, Enter
    <3>2. DOMAIN stack' = {1} /\ stack'[1].of = d
      BY <3>1
    <3> QED BY <3>1, <3>2
  <2> QED BY <2>1, <2>2
<1>10. \E i \in 1..(item' - 1) : program[package][i].do = "fn"
  <2>1. item \in 1..(item' - 1)
    BY <1>1, ItemFacts
  <2> QED BY <1>3, <2>1
<1>11. Going => Going'
  BY <1>1, <1>2, <1>3, <1>5, <1>6, <1>9, <1>10, AddedGoing
<1>12. \A p \in Packages : \A s \in DOMAIN modules[p] :
         s \in DOMAIN modules'[p] /\ modules'[p][s].of = modules[p][s].of
  BY <1>1, <1>5 DEF Added, Module
<1> QED BY <1>1, <1>7, <1>8, <1>11, <1>12, LinkingThen

(* A function that has its value already is passed over.                   *)
LEMMA LinkingCached == Ready /\ VisitCached => Linking'
<1> SUFFICES ASSUME Ready, VisitCached PROVE Linking'
  OBVIOUS
<1>1. /\ Typed /\ Linking /\ pc = "generate" /\ pc' = "generate" /\ stack = <<>> /\ Pending
      /\ UNCHANGED <<program, package, front, modules, cache, stack>> /\ item' = item + 1
      /\ Here.do = "fn" /\ cache[<<package, item>>] # 0
  BY DEF Ready, VisitCached, Generating, builder
<1>2. PICK d \in Decl : d = <<package, item>> /\ cache[d] # 0
  BY <1>1, HereFacts
<1>3. \E s \in DOMAIN Module : Module[s].of = <<package, item>>
  BY <1>1, <1>2 DEF Typed, Positions
<1>4. /\ Module' = Module /\ imports' = imports /\ DOMAIN stack = {}
      /\ program[package][item].do = "fn"
  BY <1>1 DEF Module, front, Here
<1>5. Pointing'
  BY <1>1 DEF Linking, Pointing, Packages
<1>6. Linked => Linked'
  BY <1>1, SameSymbols
<1>7. /\ item \in Nat \ {0}
      /\ \A j \in 1..(item - 1) : j \in 1..((item + 1) - 1)
      /\ \A j \in 1..((item + 1) - 1) : j \in 1..(item - 1) \/ j = item
  BY <1>1, ItemFacts
<1>8. ASSUME Going PROVE Going'
  <2>1. ASSUME NEW j \in 1..((item + 1) - 1)
        PROVE  /\ program[package][j].do = "import" =>
                    \A e \in imports[package][j] : cache[e] # 0
               /\ program[package][j].do = "fn" =>
                    \E s \in DOMAIN Module : Module[s].of = <<package, j>>
    BY <1>3, <1>4, <1>7, <1>8 DEF Going
  <2>2. ASSUME NEW s \in DOMAIN Module
        PROVE  /\ cache[Module[s].of] # 0 \/ \E i \in DOMAIN stack : stack[i].of = Module[s].of
               /\ Module[s].of[1] # package =>
                    \E j \in 1..((item + 1) - 1) : Module[s].of \in imports[package][j]
    BY <1>7, <1>8 DEF Going
  <2> QED BY <1>1, <1>4, <2>1, <2>2 DEF Going
<1> QED BY <1>1, <1>5, <1>6, <1>8, LinkingThen

(* A callee without a value is one of the package: imports stand before    *)
(* the functions, and what they bring has values.                          *)
LEMMA CalledIsOwn ==
  ASSUME Ready, Calling, Buildable, Going, cache[Called] = 0
  PROVE  Called[1] = package
<1>1. /\ Typed /\ Brought /\ Linkable /\ stack # <<>>
      /\ Called \in Decl /\ Top.next \in Calls(Top.of) /\ Called = Callee(Top.of, Top.next)
  BY CalledFacts DEF Ready, Calling, Buildable
<1>2. Top.of \in Decl /\ Top.of[1] = package
  BY <1>1, TopFacts DEF Going
<1>3. PICK n \in Name : Called = context[package][n]
  <2>1. ItemOf(Top.of).calls[Top.next] \in Name
    <3>1. ItemOf(Top.of).calls \in Seq(Name) /\ Top.next \in DOMAIN ItemOf(Top.of).calls
      BY <1>1, <1>2, DeclFacts DEF Calls, Typed
    <3> QED BY <3>1
  <2> QED BY <1>1, <1>2, <2>1 DEF Callee
<1>4. package \in Packages /\ Called # NoDecl
  BY <1>1, ProgramFacts DEF Typed, FrontOK
<1> SUFFICES ASSUME NEW j \in DOMAIN program[package], Called \in imports[package][j]
             PROVE  FALSE
  BY <1>1, <1>3, <1>4 DEF Brought
<1>5. program[package][j].do = "import"
  BY <1>1, <1>4 DEF Brought, BroughtFor
<1>6. PICK i \in 1..(item - 1) : program[package][i].do = "fn"
  BY <1>1 DEF Going
<1>7. i \in DOMAIN program[package]
  BY <1>1, ItemFacts
<1>8. j < i
  BY <1>1, <1>4, <1>5, <1>6, <1>7 DEF Linkable
<1>9. j \in 1..(item - 1)
  <2>1. /\ item \in Nat \ {0} /\ i \in Nat /\ i < item
        /\ DOMAIN program[package] = 1..Len(program[package]) /\ Len(program[package]) \in Nat
    BY <1>1, <1>6, ItemFacts
  <2> QED BY <1>8, <2>1
<1> QED BY <1>5, <1>9 DEF Going

(* No symbol is added and no item passed.                                  *)
LEMMA SameGoing ==
  ASSUME Typed, Going, UNCHANGED <<program, package, front, item>>,
         DOMAIN Module' = DOMAIN Module,
         \A s \in DOMAIN Module : Module'[s].of = Module[s].of,
         \A e \in Decl : cache[e] # 0 => cache'[e] # 0,
         \A e : (\E i \in DOMAIN stack : stack[i].of = e) =>
                   cache'[e] # 0 \/ \E i \in DOMAIN stack' : stack'[i].of = e,
         \A i \in DOMAIN stack' : \E k \in DOMAIN stack : stack'[i].of = stack[k].of,
         stack # <<>>
  PROVE  Going'
<1>1. program' = program /\ package' = package /\ imports' = imports /\ item' = item
  BY DEF front
<1>2. \A s \in DOMAIN Module : Module[s].of \in Decl
  <2>1. Module \in Seq(Symbol)
    BY DEF Typed, FrontOK, BuilderOK, Module
  <2>2. \A s \in DOMAIN Module : Module[s] \in Symbol
    BY <2>1
  <2> QED BY <2>2 DEF Symbol
<1>3. ASSUME NEW s \in DOMAIN Module'
      PROVE  LET e == Module'[s].of IN
             /\ cache'[e] # 0 \/ \E i \in DOMAIN stack' : stack'[i].of = e
             /\ e[1] # package => \E j \in 1..(item - 1) : e \in imports[package][j]
  <2>1. PICK e \in Decl : e = Module[s].of /\ e = Module'[s].of
    BY <1>2
  <2>2. cache[e] # 0 \/ \E i \in DOMAIN stack : stack[i].of = e
    BY <2>1 DEF Going
  <2>3. e[1] # package => \E j \in 1..(item - 1) : e \in imports[package][j]
    BY <2>1 DEF Going
  <2> QED BY <2>1, <2>2, <2>3
<1>4. \A i \in DOMAIN stack' : stack'[i].of[1] = package
  BY DEF Going
<1>5. ASSUME NEW j \in 1..(item - 1)
      PROVE  /\ program[package][j].do = "import" =>
                  \A e \in imports[package][j] : cache'[e] # 0
             /\ program[package][j].do = "fn" =>
                  \E s \in DOMAIN Module' : Module'[s].of = <<package, j>>
  <2>1. program[package][j].do = "import" => \A e \in imports[package][j] : cache[e] # 0
    BY DEF Going
  <2>2. program[package][j].do = "fn" => \E s \in DOMAIN Module : Module[s].of = <<package, j>>
    BY DEF Going
  <2>3. imports[package][j] \in SUBSET Decl
    BY ItemFacts DEF Typed, FrontOK
  <2> QED BY <2>1, <2>2, <2>3
<1>6. \E i \in 1..(item - 1) : program[package][i].do = "fn"
  BY DEF Going
<1> QED BY <1>1, <1>3, <1>4, <1>5, <1>6 DEF Going

(* A call is emitted.                                                      *)
LEMMA LinkingEmit == Ready /\ EmitCall => Linking'
<1> SUFFICES ASSUME Ready, EmitCall PROVE Linking'
  OBVIOUS
<1>1. /\ Typed /\ Linking /\ pc = "generate" /\ pc' = "generate" /\ stack # <<>> /\ Calling
      /\ UNCHANGED <<program, package, front, item, cache>> /\ cache[Called] # 0
      /\ imports' = imports
  BY DEF Ready, EmitCall, Calling, front
<1>2. Called \in Decl
  BY <1>1, CalledFacts
<1>3. PICK c \in Nat : c = cache[Called] /\ c <= Len(Module)
  <2>1. cache \in [Decl -> 0..Len(Module)] /\ Module \in Seq(Symbol)
    BY <1>1 DEF Typed, BuilderOK, FrontOK, Module
  <2>2. cache[Called] \in 0..Len(Module) /\ Len(Module) \in Nat
    BY <1>2, <2>1
  <2> QED BY <2>2
<1>4. PICK n \in Nat \ {0} : n = Len(stack) /\ n \in DOMAIN stack /\ DOMAIN stack = 1..n
                             /\ Top = stack[n] /\ Top \in Activation /\ Top.of \in Decl
                             /\ insert \in DOMAIN Module
  BY <1>1, TopFacts
<1>5. PICK instruction \in Decl \X Nat : instruction[2] = c /\ Put(instruction)
  <2>1. <<Top.of, c>> \in Decl \X Nat /\ <<Top.of, c>>[2] = c
    BY <1>4
  <2>2. Put(<<Top.of, c>>)
    BY <1>3 DEF EmitCall
  <2> QED BY <2>1, <2>2
<1>6. /\ \A p \in Packages :
            /\ DOMAIN modules'[p] = DOMAIN modules[p]
            /\ \A s \in DOMAIN modules[p] :
                 /\ modules'[p][s].of = modules[p][s].of
                 /\ modules'[p][s].suffix = modules[p][s].suffix
                 /\ modules'[p][s].body = modules[p][s].body
      /\ DOMAIN Module' = DOMAIN Module
      /\ \A s \in DOMAIN Module : Module'[s].of = Module[s].of
      /\ Pointing'
  BY <1>1, <1>3, <1>4, <1>5, PutAdds DEF Linking
<1>7. /\ DOMAIN stack' = DOMAIN stack
      /\ \A i \in DOMAIN stack : stack'[i].of = stack[i].of
  <2> DEFINE t == [Top EXCEPT !.next = @ + 1]
  <2>1. t.of = Top.of
    BY <1>4 DEF Activation
  <2>2. stack' = [stack EXCEPT ![n] = t]
    BY <1>4 DEF EmitCall
  <2> HIDE DEF t
  <2> QED BY <1>4, <2>1, <2>2
<1>8. Linked => Linked'
  BY <1>1, <1>6, SameSymbols
<1>9. Going => Going'
  BY <1>1, <1>6, <1>7, SameGoing
<1> QED BY <1>1, <1>6, <1>8, <1>9, LinkingThen

(* A function ends and has a value.                                        *)
LEMMA LinkingLeave == Ready /\ LeaveFunction => Linking'
<1> SUFFICES ASSUME Ready, LeaveFunction PROVE Linking'
  OBVIOUS
<1>1. /\ Typed /\ Linking /\ pc = "generate" /\ pc' = "generate" /\ stack # <<>>
      /\ UNCHANGED <<program, package, front, item>>
      /\ cache' = [cache EXCEPT ![Top.of] = Top.symbol]
      /\ stack' = SubSeq(stack, 1, Len(stack) - 1)
  BY DEF Ready, LeaveFunction
<1>2. Module \in Seq(Symbol) /\ Len(Module) \in Nat /\ DOMAIN Module = 1..Len(Module)
  <2>1. Module \in Seq(Symbol)
    BY <1>1 DEF Typed, BuilderOK, FrontOK, Module
  <2> QED BY <2>1
<1>3. PICK n \in Nat \ {0} : n = Len(stack) /\ DOMAIN stack = 1..n /\ Top = stack[n]
                             /\ Top.of \in Decl /\ insert \in DOMAIN Module
                             /\ Top.symbol \in DOMAIN Module
  BY <1>1, TopFacts
<1>4. PICK instruction \in Decl \X Nat : instruction[2] = 0 /\ Put(instruction)
  <2>1. <<Top.of, 0>> \in Decl \X Nat /\ <<Top.of, 0>>[2] = 0
    BY <1>3
  <2>2. Put(<<Top.of, 0>>)
    BY DEF LeaveFunction
  <2> QED BY <2>1, <2>2
<1>5. /\ \A p \in Packages :
            /\ DOMAIN modules'[p] = DOMAIN modules[p]
            /\ \A s \in DOMAIN modules[p] :
                 /\ modules'[p][s].of = modules[p][s].of
                 /\ modules'[p][s].suffix = modules[p][s].suffix
                 /\ modules'[p][s].body = modules[p][s].body
      /\ DOMAIN Module' = DOMAIN Module
      /\ \A s \in DOMAIN Module : Module'[s].of = Module[s].of
      /\ Pointing'
  <2>1. instruction[2] <= Len(Module)
    BY <1>2, <1>4
  <2> QED BY <1>1, <1>3, <1>4, <2>1, PutAdds DEF Linking
<1>6. /\ DOMAIN stack' = 1..(n - 1) /\ \A i \in 1..(n - 1) : stack'[i] = stack[i]
      /\ \A i \in DOMAIN stack : i \in 1..(n - 1) \/ i = n
  <2>1. stack \in Seq(Activation)
    BY <1>1 DEF Typed, BuilderOK
  <2> QED BY <1>1, <1>3, <2>1
<1>7. /\ cache'[Top.of] # 0
      /\ \A e \in Decl : cache[e] # 0 => cache'[e] # 0
  <2>1. cache \in [Decl -> 0..Len(Module)] /\ Top.symbol # 0
    BY <1>1, <1>2, <1>3 DEF Typed, BuilderOK
  <2> QED BY <1>1, <1>3, <2>1
<1>8. Linked => Linked'
  BY <1>1, <1>5, SameSymbols
<1>9. \A e : (\E i \in DOMAIN stack : stack[i].of = e) =>
                cache'[e] # 0 \/ \E i \in DOMAIN stack' : stack'[i].of = e
  BY <1>3, <1>6, <1>7
<1>10. \A i \in DOMAIN stack' : \E k \in DOMAIN stack : stack'[i].of = stack[k].of
  BY <1>3, <1>6
<1>11. Going => Going'
  BY <1>1, <1>5, <1>7, <1>9, <1>10, SameGoing
<1> QED BY <1>1, <1>5, <1>8, <1>11, LinkingThen

(* A callee is declared or entered.                                        *)
LEMMA LinkingCall == Ready /\ (DeclareCalled \/ EnterCalled) => Linking'
<1> SUFFICES ASSUME Ready, DeclareCalled \/ EnterCalled PROVE Linking'
  OBVIOUS
<1>1. /\ Typed /\ Backward /\ Terminating /\ Linking
      /\ pc = "generate" /\ pc' = "generate" /\ stack # <<>> /\ Calling
      /\ UNCHANGED <<program, package, front, item>> /\ cache[Called] = 0
  BY DEF Ready, DeclareCalled, EnterCalled, Calling
<1>2. PICK d \in Decl : d = Called
  BY <1>1, CalledFacts
<1>3. PICK body \in BOOLEAN : body <=> ~ItemOf(d).ext
  BY <1>1, <1>2, DeclFacts DEF Typed
<1>4. Added(d, body)
  <2>1. CASE DeclareCalled
    <3>1. body = FALSE /\ Declare(d)
      BY <1>2, <1>3, <2>1 DEF DeclareCalled
    <3> QED BY <1>1, <3>1, DeclareAdds
  <2>2. CASE EnterCalled
    <3>1. body = TRUE /\ Enter(d)
      BY <1>2, <1>3, <2>2 DEF EnterCalled
    <3> QED BY <1>1, <3>1, EnterAdds
  <2> QED BY <2>1, <2>2
<1>5. PICK n \in Nat \ {0} : n = Len(stack) /\ DOMAIN stack = 1..n
  BY <1>1, TopFacts
<1>6. ASSUME Buildable, NEW i \in DOMAIN stack
      PROVE  stack[i].of # d
  <2>1. CASE DeclareCalled
    <3>1. ItemOf(d).ext /\ ~ItemOf(stack[i].of).ext
      BY <1>1, <1>2, <1>6, <2>1 DEF DeclareCalled, Typed, Activations
    <3> QED BY <3>1
  <2>2. CASE EnterCalled
    <3>1. d \in Reach(stack[i].of) /\ ~Recursive(d)
      BY <1>1, <1>2, <1>6, CalledIsReached DEF Buildable
    <3> QED BY <3>1 DEF Recursive
  <2> QED BY <2>1, <2>2
<1>7. Pointing'
  BY <1>1, <1>4, AddedPointing DEF Linking
<1>8. Buildable /\ Linked /\ Going => Linked'
  <2> SUFFICES ASSUME Buildable, Linked, Going PROVE Linked'
    OBVIOUS
  <2>1. d[1] = package /\ cache[d] = 0
    BY <1>1, <1>2, CalledIsOwn
  <2> QED BY <1>1, <1>3, <1>4, <1>6, <2>1, OwnAdded
<1>9. /\ \A e \in Decl : cache[e] # 0 => cache'[e] # 0
      /\ DOMAIN stack \subseteq DOMAIN stack'
      /\ \A i \in DOMAIN stack : stack'[i].of = stack[i].of
      /\ \A i \in DOMAIN stack' : i \in DOMAIN stack \/ stack'[i].of = d
      /\ cache'[d] # 0 \/ \E i \in DOMAIN stack' : stack'[i].of = d
  <2>1. CASE DeclareCalled
    <3>1. cache' = [cache EXCEPT ![d] = Len(Module) + 1] /\ stack' = stack
      BY <1>2, <2>1 DEF DeclareCalled, Declare
    <3>2. Len(Module) + 1 # 0 /\ cache \in [Decl -> 0..Len(Module)]
      BY <1>1, <1>4 DEF Added, Typed, BuilderOK
    <3> QED BY <3>1, <3>2
  <2>2. CASE EnterCalled
    <3> DEFINE t == [of |-> d, symbol |-> Len(Module) + 1, next |-> 1]
    <3>1. cache' = cache /\ stack' = Append(stack, t) /\ t.of = d
      BY <1>2, <2>2 DEF EnterCalled, Enter
    <3> HIDE DEF t
    <3>2. stack \in Seq(Activation)
      BY <1>1 DEF Typed, BuilderOK
    <3>3. /\ DOMAIN stack' = 1..(n + 1) /\ stack'[n + 1] = t
          /\ \A i \in 1..n : stack'[i] = stack[i]
      BY <1>5, <3>1, <3>2
    <3>4. \A i \in 1..(n + 1) : i \in 1..n \/ i = n + 1
      OBVIOUS
    <3>5. 1..n \subseteq 1..(n + 1) /\ n + 1 \in 1..(n + 1)
      OBVIOUS
    <3> QED BY <1>5, <3>1, <3>3, <3>4, <3>5
  <2> QED BY <2>1, <2>2
<1>10. Buildable /\ Going => Going'
  <2> SUFFICES ASSUME Buildable, Going PROVE Going'
    OBVIOUS
  <2>1. d[1] = package
    BY <1>1, <1>2, CalledIsOwn
  <2>2. item' = item /\ ~(item' = item + 1)
    BY <1>1, ItemFacts
  <2>3. \E i \in 1..(item' - 1) : program[package][i].do = "fn"
    BY <1>1 DEF Going
  <2> QED BY <1>1, <1>4, <1>9, <2>1, <2>2, <2>3, AddedGoing
<1>11. \A p \in Packages : \A s \in DOMAIN modules[p] :
         s \in DOMAIN modules'[p] /\ modules'[p][s].of = modules[p][s].of
  BY <1>1, <1>4 DEF Added, Module
<1> QED BY <1>1, <1>7, <1>8, <1>10, <1>11, LinkingThen

(* Steps that leave the modules alone.                                     *)
LEMMA SameModules ==
  ASSUME Typed, Linking, UNCHANGED <<program, modules>>
  PROVE  Pointing'
  BY DEF Linking, Pointing, Packages

(* The analysis generates nothing.                                         *)
LEMMA LinkingAnalysis ==
  ASSUME Typed, Linking, Typed', Analysing'
  PROVE  Linking'
<1>1. modules' = [p \in Packages' |-> <<>>] /\ pc' \notin {"generate", "done"}
  BY DEF Typed, Idle, Analysing
<1>2. Pointing'
  <2> SUFFICES ASSUME NEW p \in Packages', NEW s \in DOMAIN modules'[p] PROVE FALSE
    BY DEF Pointing
  <2>1. modules'[p] = <<>> /\ DOMAIN <<>> = {}
    BY <1>1
  <2> QED BY <2>1
<1> QED BY <1>1, <1>2 DEF Linking

(* Code generation begins with nothing.                                    *)
LEMMA LinkingCheckCalls == Ready /\ CheckCalls => Linking'
<1> SUFFICES ASSUME Ready, CheckCalls PROVE Linking'
  OBVIOUS
<1>1. /\ Typed /\ Linking /\ pc = "check" /\ pc' \in {"unknown", "generate"}
      /\ package = 1 /\ item = 1
      /\ UNCHANGED <<program, package, item, front, modules, cache, stack>>
  BY DEF Ready, CheckCalls, FirstChecked, Orderly, Fresh, builder
<1>2. stack = <<>> /\ modules = [p \in Packages |-> <<>>]
  BY <1>1 DEF Typed, Idle, Analysing
<1>3. package \in Packages /\ Packages = 1..Len(program) /\ Len(program) \in Nat
  BY <1>1, ItemFacts
<1>4. DOMAIN stack' = {} /\ stack' = <<>> /\ 1..(item' - 1) = {}
  BY <1>1, <1>2
<1>5. \A p \in Packages' : DOMAIN modules'[p] = {}
  BY <1>1, <1>2 DEF Packages
<1>6. package' \in Packages' /\ DOMAIN Module' = {}
  BY <1>1, <1>3, <1>5 DEF Packages, Module
<1>7. Pointing' /\ Linked'
  BY <1>5 DEF Pointing, Linked
<1>8. Going'
  BY <1>4, <1>6 DEF Going
<1>9. \A p \in Packages' : ~Generated(p)'
  <2>1. \A p \in Packages : ~(p < 1)
    BY <1>3
  <2> QED BY <1>1, <2>1 DEF Generated, Packages
<1> QED BY <1>7, <1>8, <1>9 DEF Linking

(* The module is complete when the items are at their end.                 *)
LEMMA LinkingNextPackage == Ready /\ NextPackage => Linking'
<1> SUFFICES ASSUME Ready, NextPackage PROVE Linking'
  OBVIOUS
<1>1. /\ Typed /\ Linking /\ Fresh /\ pc = "generate" /\ stack = <<>> /\ ~Pending
      /\ UNCHANGED <<program, front, modules, stack>> /\ item' = 1
      /\ pc' \in {"generate", "done"}
  BY DEF Ready, Orderly, NextPackage
<1>2. Pointing'
  BY <1>1, SameModules
<1>3. /\ package \in Packages /\ Packages = 1..Len(program) /\ Len(program) \in Nat
      /\ Packages' = Packages /\ Decl' = Decl
  BY <1>1, ItemFacts DEF Packages, Decl
<1>4. Buildable' => Buildable /\ Linked /\ Going /\ \A p \in Packages : Generated(p) => Complete(p)
  BY <1>1, BuildableKept DEF Linking
<1>5. ASSUME Going PROVE Complete(package)
  <2> SUFFICES ASSUME NEW d \in Decl, d[1] = package
               PROVE  \E s \in DOMAIN modules[package] : modules[package][s].of = d
    BY DEF Complete
  <2>1. /\ d[2] \in Nat \ {0} /\ d = <<package, d[2]>> /\ d[2] \in DOMAIN program[package]
        /\ program[package][d[2]].do = "fn"
    BY <1>1, PlaceFacts
  <2>2. d[2] \in 1..(item - 1)
    <3>1. /\ item \in Nat \ {0} /\ item \notin DOMAIN program[package]
          /\ item \in 1..(Len(program[package]) + 1)
          /\ DOMAIN program[package] = 1..Len(program[package])
          /\ Len(program[package]) \in Nat
      BY <1>1, ItemFacts DEF Pending, Typed, FrontOK
    <3> QED BY <2>1, <3>1
  <2>3. \E s \in DOMAIN Module : Module[s].of = <<package, d[2]>>
    BY <1>5, <2>1, <2>2 DEF Going
  <2> QED BY <2>1, <2>3 DEF Module
<1>6. \A p \in Packages : Complete(p) => Complete(p)'
  BY <1>1, <1>3 DEF Complete
<1>7. Linked => Linked'
  BY <1>1, SameSymbols
<1>8. ASSUME NEW p \in Packages, Generated(p)'
      PROVE  p = package \/ Generated(p)
  <2>1. p \in Nat /\ package \in Nat
    BY <1>3
  <2>2. CASE package < Len(program)
    <3>1. pc' = "generate" /\ package' = package + 1
      BY <1>1, <2>2 DEF NextPackage
    <3> QED BY <1>1, <1>8, <2>1, <3>1 DEF Generated
  <2>3. CASE ~(package < Len(program))
    <3>1. p < package \/ p = package
      BY <1>3, <2>3
    <3> QED BY <1>1, <3>1 DEF Generated
  <2> QED BY <2>2, <2>3
<1>9. ASSUME pc' = "generate" PROVE Going'
  <2>1. package' = package + 1 /\ package < Len(program)
    BY <1>1, <1>9 DEF NextPackage
  <2>2. package' \in Packages /\ package' > package
    BY <1>3, <2>1
  <2>3. modules[package'] = <<>>
    BY <1>1, <2>2 DEF Fresh
  <2>4. DOMAIN Module' = {}
    BY <1>1, <2>3 DEF Module
  <2>5. DOMAIN stack' = {} /\ stack' = <<>> /\ 1..(item' - 1) = {}
    BY <1>1
  <2> QED BY <2>4, <2>5 DEF Going
<1>10. ASSUME Buildable'
       PROVE  /\ Linked'
              /\ \A p \in Packages' : Generated(p)' => Complete(p)'
              /\ pc' = "generate" => Going'
  BY <1>3, <1>4, <1>5, <1>6, <1>7, <1>8, <1>9, <1>10
<1> QED BY <1>2, <1>10 DEF Linking

(* Every step keeps it.                                                    *)
LEMMA LinkingNext == Ready /\ [Next]_vars => Linking'
<1> SUFFICES ASSUME Ready, [Next]_vars PROVE Linking'
  OBVIOUS
<1>1. Typed /\ Linking /\ Typed'
  BY TypedNext DEF Ready
<1>2. CASE RegisterFunctions \/ PrecheckImport \/ PrecheckFunction \/ PrecheckNext
  <2>1. Analysing'
    BY <1>2 DEF RegisterFunctions, PrecheckImport, PrecheckFunction, PrecheckNext, Analysing
  <2> QED BY <1>1, <2>1, LinkingAnalysis
<1>3. CASE Overflow
  <2>1. pc' = "overflow" /\ UNCHANGED <<program, modules>>
    BY <1>3 DEF Overflow, builder
  <2> QED BY <1>1, <2>1, SameModules DEF Linking
<1>4. CASE UNCHANGED vars
  <2>1. /\ UNCHANGED <<program, pc, package, item, front, modules, cache, stack>>
        /\ imports' = imports
    BY <1>4 DEF vars, front, builder
  <2>2. Pointing' /\ (Linked => Linked') /\ (Buildable' <=> Buildable)
    BY <1>1, <2>1, SameModules, SameSymbols, BuildableKept
  <2>3. Going => Going'
    BY <2>1 DEF Going, Module
  <2>4. \A p : (Generated(p)' <=> Generated(p)) /\ (Complete(p) => Complete(p)')
    BY <2>1 DEF Generated, Complete, Decl
  <2>5. Packages' = Packages
    BY <2>1 DEF Packages
  <2> QED BY <1>1, <2>1, <2>2, <2>3, <2>4, <2>5 DEF Linking
<1> QED BY <1>2, <1>3, <1>4, LinkingCheckCalls, LinkingImport, LinkingFunction, LinkingCached,
           LinkingEmit, LinkingCall, LinkingLeave, LinkingNextPackage DEF Next

(* What LinksToCallee says of the symbol t: a call of it reaches what it   *)
(* means.                                                                  *)
Reaches(p, t) ==
  LET f == modules[p][t] IN
  IF ItemOf(f.of).ext THEN f.suffix = 0
  ELSE \E d \in Definitions(p, t) :
         /\ Definitions(p, t) = {d}
         /\ modules[d[1]][d[2]].of = f.of

(* The own body, or the one in the package that declares the function.     *)
LEMMA LinkedReaches ==
  ASSUME Typed, Brought, Linkable, Linked, \A p \in Packages : Complete(p),
         NEW p \in Packages, NEW t \in DOMAIN modules[p]
  PROVE  Reaches(p, t)
<1> SUFFICES ASSUME NEW f, f = modules[p][t]
             PROVE  IF ItemOf(f.of).ext THEN f.suffix = 0
                    ELSE \E d \in Definitions(p, t) :
                           /\ Definitions(p, t) = {d}
                           /\ modules[d[1]][d[2]].of = f.of
  BY DEF Reaches
<1>1. modules \in [Packages -> Seq(Symbol)]
  BY DEF Typed, BuilderOK
<1>2. f.of \in Decl
  <2>1. modules[p] \in Seq(Symbol)
    BY <1>1
  <2>2. f \in Symbol
    BY <2>1
  <2> QED BY <2>2 DEF Symbol
<1>3. IsLinked(p, t)
  BY DEF Linked
<1>4. CASE ItemOf(f.of).ext
  BY <1>3, <1>4 DEF IsLinked
<1>5. CASE ~ItemOf(f.of).ext /\ f.body
  <2>1. Definitions(p, t) = {<<p, t>>}
    BY <1>5 DEF Definitions
  <2> QED BY <1>5, <2>1
<1>6. CASE ~ItemOf(f.of).ext /\ ~f.body
  <2>1. PICK j \in DOMAIN program[p] : f.of \in imports[p][j]
    BY <1>3, <1>6 DEF IsLinked
  <2>2. ItemOf(f.of).pub
    BY <1>6, <2>1 DEF Brought, BroughtFor
  <2>3. PICK q \in Packages : q = f.of[1]
    BY <1>2, PlaceFacts
  <2>4. PICK s \in DOMAIN modules[q] : modules[q][s].of = f.of
    BY <1>2, <2>3 DEF Complete
  <2>5. IsLinked(q, s)
    BY DEF Linked
  <2>6. modules[q][s].body /\ modules[q][s].suffix = 0 /\ f.suffix = 0
    BY <1>3, <1>6, <2>3, <2>4, <2>5 DEF IsLinked
  <2>7. PICK d : d = <<q, s>>
    OBVIOUS
  <2>8. d[1] = q /\ d[2] = s
    BY <2>7
  <2> DEFINE All == UNION {{r} \X DOMAIN modules[r] : r \in Packages}
             Defines(e) == LET g == modules[e[1]][e[2]]
                           IN  /\ g.body /\ ItemOf(g.of).pub
                               /\ SymbolName(g) = SymbolName(modules[p][t])
  <2>9. Definitions(p, t) = {e \in All : Defines(e)}
    BY <1>6 DEF Definitions
  <2>10. d \in All /\ Defines(d)
    <3>1. d \in All
      BY <2>7
    <3>2. SymbolName(modules[q][s]) = SymbolName(modules[p][t])
      BY <2>4, <2>6 DEF SymbolName
    <3> QED BY <2>2, <2>4, <2>6, <2>8, <3>1, <3>2
  <2>11. ASSUME NEW e \in All, Defines(e)
         PROVE  e = d
    <3>1. PICK r \in Packages : e \in {r} \X DOMAIN modules[r]
      BY <2>11
    <3>2. PICK u \in DOMAIN modules[r] : e = <<r, u>> /\ e[1] = r /\ e[2] = u
      BY <3>1
    <3>3. PICK g : g = modules[r][u]
      OBVIOUS
    <3>4. /\ g.body /\ ItemOf(g.of).pub /\ SymbolName(g) = SymbolName(f)
      BY <2>11, <3>2, <3>3
    <3>5. IsLinked(r, u)
      BY DEF Linked
    <3>6. g.of[1] = r /\ ~ItemOf(g.of).ext
      BY <3>3, <3>4, <3>5 DEF IsLinked
    <3>7. g.of \in Decl
      <4>1. modules[r] \in Seq(Symbol)
        BY <1>1
      <4>2. g \in Symbol
        BY <3>3, <4>1
      <4> QED BY <4>2 DEF Symbol
    <3>8. ItemOf(g.of).name = ItemOf(f.of).name
      BY <3>4 DEF SymbolName
    <3>9. g.of = f.of
      BY <1>2, <1>6, <2>2, <3>4, <3>6, <3>7, <3>8 DEF Linkable
    <3>10. r = q
      BY <2>3, <3>6, <3>9
    <3>11. u = s
      BY <2>4, <2>5, <3>3, <3>9, <3>10 DEF IsLinked
    <3> QED BY <2>7, <3>2, <3>10, <3>11
  <2> HIDE DEF All, Defines
  <2>12. Definitions(p, t) = {d}
    BY <2>9, <2>10, <2>11
  <2> QED BY <1>6, <2>4, <2>8, <2>12
<1> QED BY <1>4, <1>5, <1>6

(* When the generator is done all packages are complete.                   *)
LEMMA ReadyLinks == Ready => LinksToCallee
<1> SUFFICES ASSUME Ready, pc = "done", Linkable, NEW p \in Packages,
                    NEW s \in DOMAIN modules[p], NEW k \in DOMAIN modules[p][s].code,
                    modules[p][s].code[k][2] # 0
             PROVE  Reaches(p, modules[p][s].code[k][2])
  BY DEF LinksToCallee, Reaches
<1>1. Typed /\ Brought /\ Linking /\ Terminating
  BY DEF Ready
<1>2. Buildable
  <2>1. \A d \in Decl : ~Recursive(d)
    BY <1>1 DEF Terminating, Tame
  <2>2. \A d : Recursive(d) => d \in Decl
    BY DEF Recursive, Reach, CalledFrom
  <2> QED BY <2>1, <2>2 DEF Buildable
<1>3. Linked /\ \A q \in Packages : Complete(q)
  BY <1>1, <1>2 DEF Linking, Generated
<1>4. modules[p][s].code[k][2] \in DOMAIN modules[p]
  <2> DEFINE t == modules[p][s].code[k][2]
  <2>1. modules[p] \in Seq(Symbol)
    BY <1>1 DEF Typed, BuilderOK
  <2>2. PICK g \in Symbol : g = modules[p][s]
    BY <2>1
  <2>3. g.code \in Seq(Decl \X Nat)
    BY DEF Symbol
  <2>4. g.code[k] \in Decl \X Nat
    BY <2>2, <2>3
  <2>5. t \in Nat /\ t # 0
    BY <2>2, <2>4
  <2>6. t <= Len(modules[p])
    BY <1>1 DEF Linking, Pointing
  <2>7. DOMAIN modules[p] = 1..Len(modules[p]) /\ Len(modules[p]) \in Nat
    BY <2>1
  <2> HIDE DEF t
  <2>8. t \in DOMAIN modules[p]
    BY <2>5, <2>6, <2>7
  <2> QED BY <2>8 DEF t
<1> QED BY <1>1, <1>2, <1>3, <1>4, LinkedReaches DEF Buildable

(* In every program that the linker can put together, each call reaches    *)
(* the body of the very function it means or the foreign function of that  *)
(* name, whichever module has it and in whichever order the hash tables    *)
(* have the functions that are imported (code_generator.cpp:1142-1226).    *)
THEOREM CallsReachCallees == Spec => []LinksToCallee
<1>1. Init => Ready
  <2> SUFFICES ASSUME Init PROVE Ready
    OBVIOUS
  <2>1. Typed /\ Orderly
    BY TypedInit, OrderlyInit
  <2>2. FirstChecked /\ Backward /\ Terminating
    BY DEF Init, FirstChecked, Backward, Packages, Terminating
  <2>3. Nearest /\ Brought
    BY NearestInit, BroughtInit
  <2>4. Linking
    <3>1. pc \notin {"generate", "done"} /\ modules = [p \in Packages |-> <<>>]
      BY DEF Init, Packages
    <3>2. Pointing
      <4> SUFFICES ASSUME NEW p \in Packages, NEW s \in DOMAIN modules[p] PROVE FALSE
        BY DEF Pointing
      <4>1. modules[p] = <<>> /\ DOMAIN <<>> = {}
        BY <3>1
      <4> QED BY <4>1
    <3> QED BY <3>1, <3>2 DEF Linking
  <2> QED BY <2>1, <2>2, <2>3, <2>4 DEF Ready
<1>2. Ready /\ [Next]_vars => Ready'
  <2> SUFFICES ASSUME Ready, [Next]_vars PROVE Ready'
    OBVIOUS
  <2>1. /\ Typed /\ Orderly /\ FirstChecked /\ Backward /\ Terminating /\ Nearest /\ Brought
    BY DEF Ready
  <2>2. Typed' /\ Orderly' /\ FirstChecked' /\ Backward' /\ Terminating'
    BY <2>1, TypedNext, OrderlyNext, FirstCheckedNext, BackwardNext, TerminatingNext
  <2>3. Nearest' /\ Brought' /\ Linking'
    BY <2>1, NearestStep, BroughtNext, LinkingNext
  <2> QED BY <2>2, <2>3 DEF Ready
<1> QED BY <1>1, <1>2, ReadyLinks, PTL DEF Spec

=============================================================================
