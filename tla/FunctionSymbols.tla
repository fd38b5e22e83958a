-------------------------- MODULE FunctionSymbols --------------------------
(***************************************************************************)
(* Functions across packages, from declaration to symbol: the table of     *)
(* functions of a context (RegisterDeclarations, Context,                  *)
(* OrganizePackages), the Import visitor of TypePrecheck, the callee of a  *)
(* call (TypeCheck), and the visitors of the code generator for functions, *)
(* calls and import statements, with the cache of values they share.       *)
(*                                                                         *)
(* The items of a package are those of its files, one file after the       *)
(* other, in the order Package::get_children has them.  A body is the      *)
(* sequence of its calls: that is all that leads from one function to      *)
(* another.  Arguments and their conversions, types, debug information and *)
(* the renaming of main are left out, and so are cyclic imports, which     *)
(* PackageAnalysis is about: a package imports packages before it.         *)
(***************************************************************************)
EXTENDS Integers, Sequences, FiniteSets, Functions

CONSTANTS
  Name,      \* names of functions
  NoDecl,    \* the null pointer for a declaration
  Programs,  \* the programs considered
  MaxDepth   \* how deep visitors can call each other on the C++ stack

Item == [do : {"import"}, from : Nat] \cup
        [do : {"fn"}, name : Name, pub : BOOLEAN, ext : BOOLEAN, calls : Seq(Name)]

(* The declarations of a program: a package and a position in it. *)
DeclsOf(q) ==
  UNION {{<<p, i>> : i \in {j \in DOMAIN q[p] : q[p][j].do = "fn"}} : p \in DOMAIN q}

ASSUME ProgramsAssumption ==
  /\ MaxDepth \in Nat \ {0}
  /\ \A q \in Programs :
       /\ q \in Seq(Seq(Item)) /\ q # <<>>
       /\ NoDecl \notin DeclsOf(q)
       /\ IsFiniteSet(DeclsOf(q)) /\ Cardinality(DeclsOf(q)) <= MaxDepth
       /\ \A p \in DOMAIN q : \A i \in DOMAIN q[p] :
            q[p][i].do = "import" => q[p][i].from \in 1..(p - 1)

VARIABLES
  program,   \* the packages; never changes
  pc,        \* what the compiler does, or how it ended
  package,   \* the package it works on
  item,      \* the child of the package it looks at
  context,   \* package -> Context::_func_decls
  imports,   \* package -> its import statements' _imported_funcs
  modules,   \* package -> the functions of its llvm::Module
  cache,     \* _llvm_value_cache: declaration -> position in the module, or 0
  stack,     \* the activations of the FunctionDecl visitor
  insert     \* the function that holds the builder's insertion point

front == <<context, imports>>
builder == <<modules, cache, stack, insert>>
vars == <<program, pc, package, item, front, builder>>

Packages == DOMAIN program
Decl == DeclsOf(program)
ItemOf(d) == program[d[1]][d[2]]
Here == program[package][item]
Pending == item \in DOMAIN program[package]

Last(s) == s[Len(s)]
Orders(S) == Bijection(1..Cardinality(S), S)

Init ==
  /\ program \in Programs
  /\ pc = "register"
  /\ package = 1
  /\ item = 1
  /\ context = [p \in DOMAIN program |-> [n \in Name |-> NoDecl]]
  /\ imports = [p \in DOMAIN program |-> [i \in DOMAIN program[p] |-> {}]]
  /\ modules = [p \in DOMAIN program |-> <<>>]
  /\ cache = [d \in DeclsOf(program) |-> 0]
  /\ stack = <<>>
  /\ insert = 0

-----------------------------------------------------------------------------
(* Declarations and imports, package after package. *)
Own(p, n) ==
  {i \in DOMAIN program[p] : program[p][i].do = "fn" /\ program[p][i].name = n}
Greatest(S) == CHOOSE i \in S : \A j \in S : j <= i

(* set_function_decl: of several functions of a name the last one is kept, *)
(* in a file as among the files of a package.                              *)
LastOfName(p, n) ==
  IF Own(p, n) = {} THEN NoDecl ELSE <<p, Greatest(Own(p, n))>>

RegisterFunctions ==
  /\ pc = "register"
  /\ context' = [context EXCEPT ![package] = [n \in Name |-> LastOfName(package, n)]]
  /\ pc' = "precheck"
  /\ UNCHANGED <<program, package, item, imports, builder>>

(* Slips: private functions are imported too; those of one's own package   *)
(* are replaced.                                                           *)
AnyImported(p, i) ==
  {d \in Range(context[program[p][i].from]) \ {NoDecl} :
     context[p][ItemOf(d).name] = NoDecl}
ImportedOver(p, i) ==
  {d \in Range(context[program[p][i].from]) \ {NoDecl} :
     ItemOf(d).pub \/ ItemOf(d).ext}

(* What an import statement brings: the public and the external functions  *)
(* in the context of the package, those it imported itself among them, of  *)
(* which the importing package does not know the name.                     *)
Imported(p, i) ==
  {d \in Range(context[program[p][i].from]) \ {NoDecl} :
     /\ ItemOf(d).pub \/ ItemOf(d).ext
     /\ context[p][ItemOf(d).name] = NoDecl}

PrecheckImport ==
  /\ pc = "precheck" /\ Pending
  /\ Here.do = "import"
  /\ LET new == Imported(package, item) IN
       /\ imports' = [imports EXCEPT ![package][item] = new]
       /\ context' = [context EXCEPT ![package] =
            [n \in Name |-> IF \E d \in new : ItemOf(d).name = n
                            THEN CHOOSE d \in new : ItemOf(d).name = n
                            ELSE @[n]]]
  /\ item' = item + 1
  /\ UNCHANGED <<program, pc, package, builder>>

PrecheckFunction ==
  /\ pc = "precheck" /\ Pending
  /\ Here.do = "fn"
  /\ item' = item + 1
  /\ UNCHANGED <<program, pc, package, front, builder>>

PrecheckNext ==
  /\ pc = "precheck" /\ ~Pending
  /\ IF package < Len(program)
     THEN pc' = "register" /\ package' = package + 1
     ELSE pc' = "check" /\ package' = 1
  /\ item' = 1
  /\ UNCHANGED <<program, front, builder>>

-----------------------------------------------------------------------------
(* TypeCheck: the callee of a call is looked up in the context of the      *)
(* package by its name alone.                                              *)
Callee(d, k) == context[d[1]][ItemOf(d).calls[k]]
Calls(d) == IF ItemOf(d).ext THEN {} ELSE DOMAIN ItemOf(d).calls

CheckCalls ==
  /\ pc = "check"
  /\ pc' = IF \E d \in Decl : \E k \in Calls(d) : Callee(d, k) = NoDecl
           THEN "unknown" ELSE "generate"
  /\ UNCHANGED <<program, package, item, front, builder>>

-----------------------------------------------------------------------------
(* The functions of the module under way.  The suffix stands for the one   *)
(* LLVM appends to a name that is taken, a number no function has yet.     *)
Module == modules[package]
Taken(d) == \E s \in DOMAIN Module : ItemOf(Module[s].of).name = ItemOf(d).name
Renamed == Cardinality({s \in DOMAIN Module : Module[s].suffix # 0})

(* codegen_func_prototype.  code is a list of <<f, s>>: a call of the s-th *)
(* function of the module that stands in the source of f, or the return    *)
(* (s = 0) that ends the body of f.                                        *)
Prototype(d, before) ==
  [of |-> d, suffix |-> IF Taken(d) THEN Renamed + before + 1 ELSE 0,
   body |-> FALSE, code |-> <<>>]

Declare(d) ==
  /\ modules' = [modules EXCEPT ![package] = Append(@, Prototype(d, 0))]
  /\ cache' = [cache EXCEPT ![d] = Len(Module) + 1]
  /\ UNCHANGED <<stack, insert>>

(* A slip, or a repair: the value is cached before the body is visited.    *)
EnterCached(d) ==
  /\ Len(stack) < MaxDepth
  /\ modules' = [modules EXCEPT ![package] =
                   Append(@, [Prototype(d, 0) EXCEPT !.body = TRUE])]
  /\ cache' = [cache EXCEPT ![d] = Len(Module) + 1]
  /\ stack' = Append(stack, [of |-> d, symbol |-> Len(Module) + 1, next |-> 1])
  /\ insert' = Len(Module) + 1

(* The visitor of a function that has a body: the value cache learns of it *)
(* only at the end.                                                        *)
Enter(d) ==
  /\ Len(stack) < MaxDepth
  /\ modules' = [modules EXCEPT ![package] =
                   Append(@, [Prototype(d, 0) EXCEPT !.body = TRUE])]
  /\ stack' = Append(stack, [of |-> d, symbol |-> Len(Module) + 1, next |-> 1])
  /\ insert' = Len(Module) + 1
  /\ UNCHANGED cache

Put(instruction) ==
  modules' = [modules EXCEPT ![package][insert].code = Append(@, instruction)]

Generating == pc = "generate" /\ stack = <<>> /\ Pending
Top == Last(stack)
Calling == pc = "generate" /\ stack # <<>> /\ Top.next \in DOMAIN ItemOf(Top.of).calls
Called == Callee(Top.of, Top.next)

(* A slip: the cache gets the positions of the functions before. *)
VisitImportShifted ==
  /\ Generating
  /\ Here.do = "import"
  /\ \E order \in Orders(imports[package][item]) :
       /\ modules' = [modules EXCEPT ![package] =
            @ \o [k \in DOMAIN order |->
                    Prototype(order[k], Cardinality({j \in 1..(k - 1) : Taken(order[j])}))]]
       /\ cache' = [d \in Decl |->
            IF d \in imports[package][item]
            THEN Len(Module) + (CHOOSE k \in DOMAIN order : order[k] = d) - 1
            ELSE cache[d]]
  /\ item' = item + 1
  /\ UNCHANGED <<program, pc, package, front, stack, insert>>

(* The Import visitor: a prototype for each function the statement brings, *)
(* in the order of a hash table, whether the module has one or not.        *)
VisitImport ==
  /\ Generating
  /\ Here.do = "import"
  /\ \E order \in Orders(imports[package][item]) :
       /\ modules' = [modules EXCEPT ![package] =
            @ \o [k \in DOMAIN order |->
                    Prototype(order[k], Cardinality({j \in 1..(k - 1) : Taken(order[j])}))]]
       /\ cache' = [d \in Decl |->
            IF d \in imports[package][item]
            THEN Len(Module) + CHOOSE k \in DOMAIN order : order[k] = d
            ELSE cache[d]]
  /\ item' = item + 1
  /\ UNCHANGED <<program, pc, package, front, stack, insert>>

(* cached_visit of a function among the children of the package. *)
VisitExternal ==
  /\ Generating
  /\ Here.do = "fn" /\ Here.ext
  /\ cache[<<package, item>>] = 0
  /\ Declare(<<package, item>>)
  /\ item' = item + 1
  /\ UNCHANGED <<program, pc, package, front>>

VisitFunction ==
  /\ Generating
  /\ Here.do = "fn" /\ ~Here.ext
  /\ cache[<<package, item>>] = 0
  /\ Enter(<<package, item>>)
  /\ item' = item + 1
  /\ UNCHANGED <<program, pc, package, front>>

VisitCached ==
  /\ Generating
  /\ Here.do = "fn"
  /\ cache[<<package, item>>] # 0
  /\ item' = item + 1
  /\ UNCHANGED <<program, pc, package, front, builder>>

(* The FunctionCall visitor. *)
EmitCall ==
  /\ Calling
  /\ cache[Called] # 0
  /\ Put(<<Top.of, cache[Called]>>)
  /\ stack' = [stack EXCEPT ![Len(stack)].next = @ + 1]
  /\ UNCHANGED <<program, pc, package, item, front, cache, insert>>

DeclareCalled ==
  /\ Calling
  /\ cache[Called] = 0
  /\ ItemOf(Called).ext
  /\ Declare(Called)
  /\ UNCHANGED <<program, pc, package, item, front>>

(* A callee the cache does not know is generated in the midst of its       *)
(* caller.                                                                 *)
EnterCalled ==
  /\ Calling
  /\ cache[Called] = 0
  /\ ~ItemOf(Called).ext
  /\ Enter(Called)
  /\ UNCHANGED <<program, pc, package, item, front>>

Overflow ==
  /\ Calling
  /\ cache[Called] = 0
  /\ ~ItemOf(Called).ext
  /\ Len(stack) >= MaxDepth
  /\ pc' = "overflow"
  /\ UNCHANGED <<program, package, item, front, builder>>

(* The end of the body returns, and the value is cached.  The builder      *)
(* stays where it is.                                                      *)
LeaveFunction ==
  /\ pc = "generate" /\ stack # <<>>
  /\ Top.next > Len(ItemOf(Top.of).calls)
  /\ Put(<<Top.of, 0>>)
  /\ cache' = [cache EXCEPT ![Top.of] = Top.symbol]
  /\ stack' = SubSeq(stack, 1, Len(stack) - 1)
  /\ UNCHANGED <<program, pc, package, item, front, insert>>

(* The generator of the next package has a module and a cache of its own.  *)
NextPackage ==
  /\ pc = "generate" /\ stack = <<>> /\ ~Pending
  /\ IF package < Len(program)
     THEN pc' = pc /\ package' = package + 1
     ELSE pc' = "done" /\ package' = package
  /\ item' = 1
  /\ cache' = [d \in Decl |-> 0]
  /\ insert' = 0
  /\ UNCHANGED <<program, front, modules, stack>>

Next ==
  \/ RegisterFunctions
  \/ PrecheckImport
  \/ PrecheckFunction
  \/ PrecheckNext
  \/ CheckCalls
  \/ VisitImport
  \/ VisitExternal
  \/ VisitFunction
  \/ VisitCached
  \/ EmitCall
  \/ DeclareCalled
  \/ EnterCalled
  \/ Overflow
  \/ LeaveFunction
  \/ NextPackage

Spec == Init /\ [][Next]_vars

-----------------------------------------------------------------------------
Symbol == [of : Decl, suffix : Nat, body : BOOLEAN, code : Seq(Decl \X Nat)]
Activation == [of : Decl, symbol : Nat, next : Nat]

TypeOK ==
  /\ program \in Seq(Seq(Item))
  /\ pc \in {"register", "precheck", "check", "generate", "done", "unknown", "overflow"}
  /\ package \in Packages
  /\ item \in 1..(Len(program[package]) + 1)
  /\ context \in [Packages -> [Name -> Decl \cup {NoDecl}]]
  /\ DOMAIN imports = Packages
  /\ \A p \in Packages : imports[p] \in [DOMAIN program[p] -> SUBSET Decl]
  /\ modules \in [Packages -> Seq(Symbol)]
  /\ cache \in [Decl -> 0..Len(Module)]
  /\ stack \in Seq(Activation)
  /\ insert \in 0..Len(Module)

(* The declaration a name stands for in a package: the last one of its     *)
(* files, or else what the first import that knows a visible function of   *)
(* the name stands for in the package it imports.                          *)
Knowing(p, n, means) ==
  {i \in DOMAIN program[p] :
     /\ program[p][i].do = "import"
     /\ LET d == means[program[p][i].from][n]
        IN  d # NoDecl /\ (ItemOf(d).pub \/ ItemOf(d).ext)}
Means[p \in Packages] ==
  [n \in Name |->
     IF Own(p, n) # {} THEN LastOfName(p, n)
     ELSE IF Knowing(p, n, Means) = {} THEN NoDecl
     ELSE Means[program[p][CHOOSE i \in Knowing(p, n, Means) :
                             \A j \in Knowing(p, n, Means) : i <= j].from][n]]

(* Whatever packages import each other and in which order, a call means    *)
(* the function of its own package, or of the first import statement that  *)
(* brings one, directly or through other packages, and never a private one *)
(* of another package.                                                     *)
NamesMeanNearest ==
  pc \in {"check", "generate", "done"} =>
    \A p \in Packages : \A n \in Name : context[p][n] = Means[p][n]

(* A module says what the source says: the body of each function is its    *)
(* calls in their order, each of the symbol made for its callee, and one   *)
(* return at the end.                                                      *)
IsWhole(f, p) ==
  LET calls == ItemOf(f.of).calls IN
  /\ Len(f.code) = Len(calls) + 1
  /\ f.code[Len(calls) + 1] = <<f.of, 0>>
  /\ \A k \in DOMAIN calls :
       /\ f.code[k][1] = f.of
       /\ f.code[k][2] \in DOMAIN modules[p]
       /\ modules[p][f.code[k][2]].of = Callee(f.of, k)
Whole(p) == \A s \in DOMAIN modules[p] : modules[p][s].body => IsWhole(modules[p][s], p)

(* Functions with a body are called only after their declaration in the    *)
(* package, or after the import statement that brought them.               *)
DeclaredFirst(p) ==
  \A i \in DOMAIN program[p] : program[p][i].do = "fn" =>
    \A k \in Calls(<<p, i>>) :
      LET c == Callee(<<p, i>>, k) IN
      \/ ItemOf(c).ext
      \/ c[1] = p /\ c[2] < i
      \/ \E j \in 1..(i - 1) : program[p][j].do = "import" /\ c \in imports[p][j]

(* The visitors share one builder and one cache: if every function is      *)
(* declared before it is called, each of them finds the builder in its own *)
(* block, the generator ends and its module says what the source says.     *)
Generated(p) == pc = "done" \/ (pc \in {"generate", "overflow"} /\ p < package)
DeclaredFirstIsWhole ==
  \A p \in Packages :
    /\ Generated(p) /\ DeclaredFirst(p) => Whole(p)
    /\ pc = "overflow" /\ p = package => ~DeclaredFirst(p)

(* The functions called from those in S, and those reached by calls from   *)
(* them: the least set that has the first and what its own members call.   *)
Callees(S) == UNION {{Callee(d, k) : k \in Calls(d)} : d \in S}
CalledFrom(S) ==
  {d \in Decl : \A T \in SUBSET Decl :
                  Callees(S) \subseteq T /\ Callees(T) \subseteq T => d \in T}

(* The generator does not come back from a function that calls itself,     *)
(* directly or through others, and from every other it does.               *)
OverflowsIffRecursive ==
  /\ pc = "overflow" => \E d \in Decl : d[1] = package /\ d \in CalledFrom({d})
  /\ pc = "done" => \A d \in Decl : d \notin CalledFrom({d})

(* Packages the linker can put together: import statements stand before    *)
(* the functions, no package declares a name twice, and no two packages    *)
(* define public functions of one name.                                    *)
Linkable ==
  /\ \A p \in Packages : \A i, j \in DOMAIN program[p] :
       program[p][i].do = "import" /\ program[p][j].do = "fn" => i < j
  /\ \A p \in Packages : \A n \in Name : Cardinality(Own(p, n)) <= 1
  /\ \A c, d \in Decl :
       /\ ItemOf(c).name = ItemOf(d).name
       /\ ItemOf(c).pub /\ ~ItemOf(c).ext
       /\ ItemOf(d).pub /\ ~ItemOf(d).ext
       => c = d

(* What the linker takes the symbol s of the module of p for: its own      *)
(* body, or those other modules define for everyone under its name.        *)
SymbolName(f) == <<ItemOf(f.of).name, f.suffix>>
Definitions(p, s) ==
  IF modules[p][s].body THEN {<<p, s>>}
  ELSE {t \in UNION {{q} \X DOMAIN modules[q] : q \in Packages} :
          LET f == modules[t[1]][t[2]]
          IN  /\ f.body /\ ItemOf(f.of).pub
              /\ SymbolName(f) = SymbolName(modules[p][s])}

(* In such a program each call reaches the body of the very function it    *)
(* means, in whichever module it is, or the foreign function of that name. *)
LinksToCallee ==
  pc = "done" /\ Linkable =>
    \A p \in Packages : \A s \in DOMAIN modules[p] :
      \A k \in DOMAIN modules[p][s].code :
        LET t == modules[p][s].code[k][2] IN
        t # 0 =>
          LET f == modules[p][t] IN
          IF ItemOf(f.of).ext THEN f.suffix = 0
          ELSE \E d \in Definitions(p, t) :
                 /\ Definitions(p, t) = {d}
                 /\ modules[d[1]][d[2]].of = f.of

(* PACKAGES.md: packages are "files that share their public and private    *)
(* symbols": a module says what its package says, in whatever order the    *)
(* files and their functions are.                                          *)
ModulesAreWhole == pc = "done" => \A p \in Packages : Whole(p)

=============================================================================
