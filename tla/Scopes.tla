------------------------------- MODULE Scopes -------------------------------
(***************************************************************************)
(* Scopes and contexts (analysis/analysis_action.h) as three passes over   *)
(* one package use them: RegisterDeclarations puts every declaration in    *)
(* the context of its scope, TypePrecheck looks at what stands at the top  *)
(* level, TypeCheck looks names up, and each continues after an error that *)
(* a @test_comp_error block expected.                                      *)
(*                                                                         *)
(* A source is a sequence of items in source order, an opening item and    *)
(* its "end" being the braces of a construct.  It is written first, then   *)
(* visited three times.  Types are left out: the errors are the redeclared *)
(* variable, the import of a package that does not exist, the unknown      *)
(* identifier, the break outside a loop, the return outside a function and *)
(* the test block without an error.                                        *)
(***************************************************************************)
EXTENDS Integers, Sequences, FiniteSets, SequencesExt

CONSTANTS
  Var,       \* names of variables and arguments
  NoVar,     \* a function without an argument
  Ops,       \* the kinds of items a source may hold
  MaxItems   \* bound of the model: the length of a source

Openers == {"fn", "loop", "block", "tce"}
AllOps == Openers \cup {"end", "bad_tce", "import", "var", "use", "break", "return"}

ASSUME VarAssumption == NoVar \notin Var
ASSUME OpsAssumption == Ops \subseteq AllOps
ASSUME MaxItemsAssumption == MaxItems \in Nat

VARIABLES
  source,   \* the items
  debug,    \* assertions are compiled in (TAN_ASSERT, base/error.h)
  pc,       \* "writing", a pass, "accepted" or "rejected"
  pos,      \* the item visited next
  nest,     \* the positions of the openers around it
  scopes,   \* _scopes of the pass that runs
  decls,    \* the declarations in all contexts: <<scope, name, position>>
  funcs,    \* the functions in the top-level context
  within,   \* _within_test_comp_error
  caught,   \* the test blocks whose _caught is set
  found     \* <<use, declaration>>: what a name resolved to

vars == <<source, debug, pc, pos, nest, scopes, decls, funcs, within, caught,
          found>>

Item == [op : AllOps, name : Var \cup {NoVar}]

(* A scope is the AST node that owns the context: its kind and position. *)
Root == <<"package", 0>>

Kinds(op) ==
  CASE op = "fn" -> <<"fn", "compound">>
    [] op = "loop" -> <<"loop", "compound">>
    [] op = "block" -> <<"compound">>
    [] op = "tce" -> <<"intrinsic", "compound">>

(* The scopes the visitor of the opener at i pushes.  RegisterDeclarations *)
(* and TypePrecheck visit the children of a test block themselves,         *)
(* TypeCheck the block.                                                    *)
Pushed(i) ==
  LET kinds == IF source[i].op = "tce" /\ pc \in {"registering", "prechecking"}
               THEN <<"intrinsic">> ELSE Kinds(source[i].op)
  IN  [k \in DOMAIN kinds |-> <<kinds[k], i>>]

Shorter(s, n) == SubSeq(s, 1, Len(s) - n)

Init ==
  /\ source = <<>>
  /\ debug \in BOOLEAN
  /\ pc = "writing"
  /\ pos = 1
  /\ nest = <<>>
  /\ scopes = <<>>
  /\ decls = {}
  /\ funcs = {}
  /\ within = FALSE
  /\ caught = {}
  /\ found = {}

-----------------------------------------------------------------------------
(* The source: functions and test blocks stand anywhere, everything else   *)
(* inside one of them.                                                     *)
MayWrite(item) ==
  /\ item.op \in Ops
  /\ item.op \notin {"fn", "tce", "bad_tce"} => nest # <<>>
  /\ item.op \in {"var", "use"} => item.name # NoVar
  /\ item.op \notin {"var", "use", "fn"} => item.name = NoVar

Write(item) ==
  /\ pc = "writing"
  /\ MayWrite(item)
  /\ source' = Append(source, item)
  /\ nest' = IF item.op \in Openers THEN Append(nest, Len(source) + 1)
             ELSE IF item.op = "end" THEN Shorter(nest, 1) ELSE nest
  /\ Len(source') + Len(nest') <= MaxItems   \* the ends still to come
  /\ UNCHANGED <<debug, pc, pos, scopes, decls, funcs, within, caught, found>>

(* The parser has already caught the errors of the "bad_tce" blocks. *)
BeginRegister ==
  /\ pc = "writing"
  /\ nest = <<>>
  /\ pc' = "registering"
  /\ scopes' = <<Root>>
  /\ caught' = {i \in DOMAIN source : source[i].op = "bad_tce"}
  /\ UNCHANGED <<source, debug, pos, nest, decls, funcs, within, found>>

-----------------------------------------------------------------------------
(* Visiting an item. *)
At(op) == pos <= Len(source) /\ source[pos].op = op
Name == source[pos].name

Advance == pos' = pos + 1 /\ UNCHANGED <<source, debug, pc, nest>>

(* The end of the construct opened at i. *)
Opened(i, j) == Cardinality({k \in i..j : source[k].op \in Openers})
Closed(i, j) == Cardinality({k \in i..j : source[k].op = "end"})
EndOf(i) == CHOOSE j \in i..Len(source) :
              /\ Opened(i, j) = Closed(i, j)
              /\ \A k \in i..(j - 1) : Opened(i, k) > Closed(i, k)

(* The item behind the one visited next, all that it opens being passed.   *)
Past == IF source[pos].op \in Openers THEN EndOf(pos) + 1 ELSE pos + 1

(* The context pushed last, and the ones a name is searched in, inner      *)
(* first.                                                                  *)
Innermost == Last(scopes)
Declared(scope, x) == {d \in decls : d[1] = scope /\ d[2] = x}
Visible(x) == {k \in DOMAIN scopes : Declared(scopes[k], x) # {}}
(* Slips: the search starts at the outermost scope; only the innermost     *)
(* scope is asked for its kind.                                            *)
LookupOuter(x) ==
  CHOOSE d \in decls :
    d \in Declared(scopes[CHOOSE k \in Visible(x) :
                            \A j \in Visible(x) : j >= k], x)
InInnermostScope(kind) == Innermost[1] = kind

Lookup(x) ==
  CHOOSE d \in decls :
    d \in Declared(scopes[CHOOSE k \in Visible(x) :
                            \A j \in Visible(x) : j <= k], x)
InParentScopes(kind) == \E k \in DOMAIN scopes : scopes[k][1] = kind

(* An error is thrown inside the first m openers around the item, with s   *)
(* as the stack of scopes: the innermost test block of these catches it,   *)
(* pops one scope and goes on after its end.  What the visitors between    *)
(* the two had pushed stays.                                               *)
Tests(m) == {k \in 1..m : source[nest[k]].op = "tce"}

(* Slips: the catch pops the scope of the block and that of its body; it   *)
(* leaves the visitor without resetting _within_test_comp_error.           *)
ThrowPopsBody(s, m) ==
  IF Tests(m) = {}
  THEN /\ pc' = "rejected"
       /\ scopes' = s
       /\ UNCHANGED <<source, debug, pos, nest, within, caught>>
  ELSE LET k == Max(Tests(m)) IN
       /\ pos' = EndOf(nest[k]) + 1
       /\ nest' = SubSeq(nest, 1, k - 1)
       /\ scopes' = Shorter(s, 2)
       /\ caught' = caught \cup {nest[k]}
       /\ within' = FALSE
       /\ UNCHANGED <<source, debug, pc>>


Throw(s, m) ==
  IF Tests(m) = {}
  THEN /\ pc' = "rejected"
       /\ scopes' = s
       /\ UNCHANGED <<source, debug, pos, nest, within, caught>>
  ELSE LET k == Max(Tests(m)) IN
       /\ pos' = EndOf(nest[k]) + 1
       /\ nest' = SubSeq(nest, 1, k - 1)
       /\ scopes' = Shorter(s, 1)
       /\ caught' = caught \cup {nest[k]}
       /\ within' = FALSE
       /\ UNCHANGED <<source, debug, pc>>

-----------------------------------------------------------------------------
(* RegisterDeclarations. *)

(* The declaration of a function's argument, in the function's scope. *)
Argument ==
  IF At("fn") /\ Name # NoVar THEN {<< <<"fn", pos>>, Name, pos>>} ELSE {}

RegisterOpen ==
  /\ pc = "registering"
  /\ \E op \in Openers : At(op)
  /\ scopes' = scopes \o Pushed(pos)
  /\ nest' = Append(nest, pos)
  /\ funcs' = IF At("fn") /\ ~within THEN funcs \cup {pos} ELSE funcs
  /\ decls' = decls \cup Argument
  /\ within' = IF At("tce") THEN TRUE ELSE within
  /\ pos' = pos + 1
  /\ UNCHANGED <<source, debug, pc, caught, found>>

(* A block that failed in the parser: the visitor returns early. *)
RegisterBadTest ==
  /\ pc = "registering"
  /\ At("bad_tce")
  /\ within' = TRUE
  /\ Advance
  /\ UNCHANGED <<scopes, decls, funcs, caught, found>>

(* A slip: one scope is popped at every brace. *)
RegisterEndPopsOne ==
  /\ pc = "registering"
  /\ At("end")
  /\ scopes' = Shorter(scopes, 1)
  /\ within' = IF source[Last(nest)].op = "tce" THEN FALSE ELSE within
  /\ nest' = Shorter(nest, 1)
  /\ pos' = pos + 1
  /\ UNCHANGED <<source, debug, pc, decls, funcs, caught, found>>

RegisterEnd ==
  /\ pc = "registering"
  /\ At("end")
  /\ scopes' = Shorter(scopes, Len(Pushed(Last(nest))))
  /\ within' = IF source[Last(nest)].op = "tce" THEN FALSE ELSE within
  /\ nest' = Shorter(nest, 1)
  /\ pos' = pos + 1
  /\ UNCHANGED <<source, debug, pc, decls, funcs, caught, found>>

RegisterVar ==
  /\ pc = "registering"
  /\ At("var")
  /\ Declared(Innermost, Name) = {}
  /\ decls' = decls \cup {<<Innermost, Name, pos>>}
  /\ Advance
  /\ UNCHANGED <<scopes, funcs, within, caught, found>>

(* "Cannot redeclare variable". *)
RegisterRedeclared ==
  /\ pc = "registering"
  /\ At("var")
  /\ Declared(Innermost, Name) # {}
  /\ Throw(scopes, Len(nest))
  /\ UNCHANGED <<decls, funcs, found>>

RegisterOther ==
  /\ pc = "registering"
  /\ At("import") \/ At("use") \/ At("break") \/ At("return")
  /\ Advance
  /\ UNCHANGED <<scopes, decls, funcs, within, caught, found>>

-----------------------------------------------------------------------------
(* TypePrecheck: of a package it visits the functions, whose bodies it     *)
(* leaves alone, and the test blocks.                                      *)

(* Every pass starts with a stack of its own. *)
BeginPrecheck ==
  /\ pc = "registering"
  /\ pos = Len(source) + 1
  /\ pc' = "prechecking"
  /\ pos' = 1
  /\ scopes' = <<Root>>
  /\ within' = FALSE
  /\ UNCHANGED <<source, debug, nest, decls, funcs, caught, found>>

PrecheckOpen ==
  /\ pc = "prechecking"
  /\ At("tce")
  /\ pos \notin caught
  /\ scopes' = scopes \o Pushed(pos)
  /\ nest' = Append(nest, pos)
  /\ pos' = pos + 1
  /\ UNCHANGED <<source, debug, pc, decls, funcs, within, caught, found>>

PrecheckEnd ==
  /\ pc = "prechecking"
  /\ At("end")
  /\ scopes' = Shorter(scopes, Len(Pushed(Last(nest))))
  /\ nest' = Shorter(nest, 1)
  /\ pos' = pos + 1
  /\ UNCHANGED <<source, debug, pc, decls, funcs, within, caught, found>>

(* Statements without a visitor are left to default_visit, an assertion.   *)
Unvisited == \E op \in {"loop", "block", "use", "break", "return"} : At(op)

PrecheckPast ==
  /\ pc = "prechecking"
  /\ \/ At("fn") \/ At("var")
     \/ pos \in caught
     \/ Unvisited /\ ~debug
  /\ pos' = Past
  /\ UNCHANGED <<source, debug, pc, nest, scopes, decls, funcs, within, caught, found>>

(* "Cannot find package named", "ASSERTION FAILED". *)
PrecheckError ==
  /\ pc = "prechecking"
  /\ \/ At("import")
     \/ Unvisited /\ debug
  /\ Throw(scopes, Len(nest))
  /\ UNCHANGED <<decls, funcs, found>>

-----------------------------------------------------------------------------
(* TypeCheck. *)
BeginCheck ==
  /\ pc = "prechecking"
  /\ pos = Len(source) + 1
  /\ pc' = "checking"
  /\ pos' = 1
  /\ scopes' = <<Root>>
  /\ UNCHANGED <<source, debug, nest, decls, funcs, within, caught, found>>

CheckOpen ==
  /\ pc = "checking"
  /\ \E op \in Openers : At(op)
  /\ pos \notin caught
  /\ scopes' = scopes \o Pushed(pos)
  /\ nest' = Append(nest, pos)
  /\ pos' = pos + 1
  /\ UNCHANGED <<source, debug, pc, decls, funcs, within, caught, found>>

CheckSkipTest ==
  /\ pc = "checking"
  /\ pos \in caught
  /\ pos' = Past
  /\ UNCHANGED <<source, debug, pc, nest, scopes, decls, funcs, within, caught, found>>

CheckEnd ==
  /\ pc = "checking"
  /\ At("end")
  /\ source[Last(nest)].op # "tce"
  /\ scopes' = Shorter(scopes, Len(Pushed(Last(nest))))
  /\ nest' = Shorter(nest, 1)
  /\ pos' = pos + 1
  /\ UNCHANGED <<source, debug, pc, decls, funcs, within, caught, found>>

(* A slip: a test block without an error is passed over. *)
CheckTestIgnored ==
  /\ pc = "checking"
  /\ At("end")
  /\ source[Last(nest)].op = "tce"
  /\ scopes' = Shorter(scopes, 2)
  /\ nest' = Shorter(nest, 1)
  /\ pos' = pos + 1
  /\ UNCHANGED <<source, debug, pc, decls, funcs, within, caught, found>>

(* "Expect a compile error": thrown outside the block's own try and before *)
(* its scope is popped.  A block around this one has the error it expects. *)
CheckTestWithoutError ==
  /\ pc = "checking"
  /\ At("end")
  /\ source[Last(nest)].op = "tce"
  /\ Throw(Shorter(scopes, 1), Len(nest) - 1)
  /\ UNCHANGED <<decls, funcs, found>>

CheckUse ==
  /\ pc = "checking"
  /\ At("use")
  /\ Visible(Name) # {}
  /\ found' = found \cup {<<pos, Lookup(Name)[3]>>}
  /\ Advance
  /\ UNCHANGED <<scopes, decls, funcs, within, caught>>

CheckBreak ==
  /\ pc = "checking"
  /\ At("break")
  /\ InParentScopes("loop")
  /\ Advance
  /\ UNCHANGED <<scopes, decls, funcs, within, caught, found>>

CheckReturn ==
  /\ pc = "checking"
  /\ At("return")
  /\ InParentScopes("fn")
  /\ Advance
  /\ UNCHANGED <<scopes, decls, funcs, within, caught, found>>

CheckOther ==
  /\ pc = "checking"
  /\ At("var") \/ At("import")
  /\ Advance
  /\ UNCHANGED <<scopes, decls, funcs, within, caught, found>>

(* "Unknown identifier", "Break or continue must be inside a loop",        *)
(* "Return statement must be inside a function definition".                *)
CheckError ==
  /\ pc = "checking"
  /\ \/ At("use") /\ Visible(Name) = {}
     \/ At("break") /\ ~InParentScopes("loop")
     \/ At("return") /\ ~InParentScopes("fn")
  /\ Throw(scopes, Len(nest))
  /\ UNCHANGED <<decls, funcs, found>>

Accept ==
  /\ pc = "checking"
  /\ pos = Len(source) + 1
  /\ pc' = "accepted"
  /\ scopes' = Shorter(scopes, 1)
  /\ UNCHANGED <<source, debug, pos, nest, decls, funcs, within, caught, found>>

-----------------------------------------------------------------------------
Next ==
  \/ \E item \in Item : Write(item)
  \/ BeginRegister
  \/ RegisterOpen
  \/ RegisterBadTest
  \/ RegisterEnd
  \/ RegisterVar
  \/ RegisterRedeclared
  \/ RegisterOther
  \/ BeginPrecheck
  \/ PrecheckOpen
  \/ PrecheckEnd
  \/ PrecheckPast
  \/ PrecheckError
  \/ BeginCheck
  \/ CheckOpen
  \/ CheckSkipTest
  \/ CheckEnd
  \/ CheckTestWithoutError
  \/ CheckUse
  \/ CheckBreak
  \/ CheckReturn
  \/ CheckOther
  \/ CheckError
  \/ Accept

Spec == Init /\ [][Next]_vars

-----------------------------------------------------------------------------
TypeOK ==
  /\ source \in Seq(Item)
  /\ debug \in BOOLEAN
  /\ pc \in {"writing", "registering", "prechecking", "checking", "accepted",
              "rejected"}
  /\ pos \in 1..(Len(source) + 1)
  /\ nest \in Seq(DOMAIN source)
  /\ \A k \in DOMAIN scopes :
       scopes[k] \in {"package", "fn", "loop", "compound", "intrinsic"}
                       \X (0..Len(source))
  /\ \A d \in decls : d[2] \in Var /\ d[3] \in DOMAIN source
  /\ funcs \subseteq DOMAIN source
  /\ within \in BOOLEAN
  /\ caught \subseteq DOMAIN source
  /\ found \subseteq (DOMAIN source) \X (DOMAIN source)

Visiting == pc \in {"registering", "prechecking", "checking"}

(* The scopes around the item visited next, by the braces of the source,   *)
(* and the order they are in on the stack: outer constructs first, and a   *)
(* construct before its body.                                              *)
Enclosing == {Root} \cup UNION {ToSet(Pushed(nest[k])) : k \in DOMAIN nest}
IsOuter(a, b) ==
  a[2] < b[2] \/ (a[2] = b[2] /\ a[1] # "compound" /\ b[1] = "compound")
InOrder == \A j, k \in DOMAIN scopes : j < k => IsOuter(scopes[j], scopes[k])

(* Without a test block the stack of scopes is what the braces say: the    *)
(* scopes around the item, each once and in order.                         *)
TestFree == \A i \in DOMAIN source : source[i].op \notin {"tce", "bad_tce"}
ScopesExact ==
  TestFree /\ Visiting => InOrder /\ ToSet(scopes) = Enclosing

(* With test blocks, scopes that should be gone may be on the stack, but   *)
(* it stays in the order of the source, none that encloses the item is     *)
(* missing, and the first is the package: pop_scope never finds an empty   *)
(* stack and top_ctx is the package's context.                             *)
ScopesEnclose ==
  Visiting =>
    /\ scopes # <<>> /\ scopes[1] = Root
    /\ InOrder /\ Enclosing \subseteq ToSet(scopes)

(* What the braces say of an item: the openers around it, the innermost    *)
(* of them, and the declarations that belong to an opener.                 *)
Around(i) == {j \in 1..(i - 1) : source[j].op \in Openers /\ EndOf(j) > i}
Home(i) == IF Around(i) = {} THEN 0
           ELSE CHOOSE j \in Around(i) : \A k \in Around(i) : k <= j
LocalsOf(j, x) == {i \in DOMAIN source : source[i].op = "var" /\ Home(i) = j
                                         /\ source[i].name = x}
ArgOf(j, x) == {i \in {j} : source[i].op = "fn" /\ source[i].name = x}
Inside(i, op) == \E j \in Around(i) : source[j].op = op

Redeclared(i) ==
  source[i].op = "var" /\ \E j \in LocalsOf(Home(i), source[i].name) : j < i
Unknown(i) ==
  /\ source[i].op = "use"
  /\ \A j \in Around(i) :
       LocalsOf(j, source[i].name) \cup ArgOf(j, source[i].name) = {}
Misplaced(i) == \/ source[i].op = "break" /\ ~Inside(i, "loop")
                \/ source[i].op = "return" /\ ~Inside(i, "fn")
Faulty(i) == Redeclared(i) \/ Unknown(i) \/ Misplaced(i)

Legal == \A i \in DOMAIN source : ~Faulty(i)

(* The passes and their stack of scopes accept the sources without test    *)
(* blocks whose names, breaks and returns are legal by the braces,         *)
(* and no other.                                                           *)
AcceptsIffLegal ==
  TestFree => /\ pc = "accepted" => Legal
              /\ pc = "rejected" => ~Legal

(* A name is resolved to a declaration of the nearest enclosing construct  *)
(* that has one, the locals of a function before its argument, even when   *)
(* the declaration stands later (in a source without test blocks).         *)
ResolvesLexically ==
  \A r \in found : TestFree =>
    LET x == source[r[1]].name
        having == {j \in Around(r[1]) : LocalsOf(j, x) \cup ArgOf(j, x) # {}}
    IN  \E j \in having :
          /\ \A k \in having : k <= j
          /\ r[2] \in IF LocalsOf(j, x) # {} THEN LocalsOf(j, x)
                      ELSE ArgOf(j, x)

(* TypeCheck never goes on behind a @test_comp_error block unless the      *)
(* block, or one around it, had an error, in whichever pass: "Expect a     *)
(* compile error".  An accepted source has no other test blocks.           *)
Passed(i) ==
  source[i].op \in {"tce", "bad_tce"} /\ i < pos /\ i \notin ToSet(nest)
EveryTestFailed ==
  pc \in {"checking", "accepted"} =>
    \A i \in DOMAIN source :
      Passed(i) => ({i} \cup Around(i)) \cap caught # {}


=============================================================================
