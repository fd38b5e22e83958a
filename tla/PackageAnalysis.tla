-------------------------- MODULE PackageAnalysis --------------------------
(***************************************************************************)
(* The package pipeline of the driver (driver/driver.cpp compile_tan and   *)
(* stage1_analysis, with OrganizePackages, ScanImports and the Import      *)
(* visitor of TypePrecheck): source files are organised into packages,     *)
(* imports are followed recursively, declarations are copied from package  *)
(* to package, every known package is type checked and the packages of the *)
(* command line are compiled.                                              *)
(*                                                                         *)
(* stage1_analysis calls itself; its activations are the frames of stack.  *)
(* Files are parsed again whenever they are reached again, so one package  *)
(* name may stand for several Package objects: an object is its position   *)
(* in heap.  What a file declares, and the checks of the declarations      *)
(* themselves, are left out: a context is the set of files whose public    *)
(* declarations it holds, each with the object it was parsed for.          *)
(***************************************************************************)
EXTENDS Integers, Sequences, FiniteSets, Functions

CONSTANTS
  File,    \* source files
  Name,    \* package names
  NoName,  \* the empty object file name
  Trees    \* the source trees and command lines considered

(* A source tree: what each file declares with its package statement and   *)
(* its import statements, the candidates resolve_package_import finds for  *)
(* an import (a file is the set of itself, a directory the set of its .tan *)
(* files), and the files given on the command line.                        *)
Tree == [package : [File -> Name],
         imports : [File -> SUBSET Name],
         candidates : [Name -> Seq(SUBSET File)],
         given : SUBSET File]

ASSUME TreesAssumption ==
  /\ IsFiniteSet(File) /\ IsFiniteSet(Name)
  /\ NoName \notin Name
  /\ \A t \in Trees :
       /\ t.package \in [File -> Name]
       /\ t.imports \in [File -> SUBSET Name]
       /\ t.candidates \in [Name -> Seq(SUBSET File)]
       /\ t.given \subseteq File /\ t.given # {}

VARIABLES
  tree,        \* the source tree; never changes
  pc,          \* what the driver does next, or how it ended
  calling,     \* the files handed to the call of stage1_analysis under way
  returned,    \* the vector of objects the last activation returned
  stack,       \* the activations of stage1_analysis, the first one first
  status,      \* _package_status
  packages,    \* _packages: the object registered under a name, 0 if none
  heap,        \* the Package objects
  contexts,    \* object -> the <<file, object>> its context holds
  imported,    \* object -> the objects it imported declarations from
  checked,     \* the objects TypeCheck has run on
  objects      \* compile_tan's ret: the object files

progress == <<stack, status, packages, heap, contexts, imported>>
backend == <<checked, objects>>
vars == <<tree, pc, calling, returned, progress, backend>>

Failed == {"cyclic", "unresolved", "missing"}
Ended == Failed \cup {"done"}

Top == stack[Len(stack)]
WithTop(frame) == [stack EXCEPT ![Len(stack)] = frame]
Current == heap[Top.packages[Top.i]]

ImportsOf(object) == UNION {tree.imports[f] : f \in object.files}

Orders(S) == Bijection(1..Cardinality(S), S)

Init ==
  /\ tree \in Trees
  /\ pc = "enter"
  /\ calling = tree.given
  /\ returned = <<>>
  /\ stack = <<>>
  /\ status = [n \in Name |-> "None"]
  /\ packages = [n \in Name |-> 0]
  /\ heap = <<>>
  /\ contexts = <<>>
  /\ imported = <<>>
  /\ checked = {}
  /\ objects = <<>>

-----------------------------------------------------------------------------
(* stage1_analysis is called: RegisterDeclarations and OrganizePackages    *)
(* turn the files into one new object per package name; the names that are *)
(* done are skipped, the others are registered.  The order of the objects  *)
(* is the order of a hash table.                                           *)
Named(n) == {f \in calling : tree.package[f] = n}
Organized == {tree.package[f] : f \in calling}
Kept == {n \in Organized : status[n] = "None"}

(* The positions the objects of the kept packages get. *)
Ids(order) == [k \in DOMAIN order |-> Len(heap) + k]

(* A slip: the packages are not registered before they are analysed.       *)
RegisterLater(order) == packages

(* register_package for each kept package. *)
Register(order) ==
  [n \in Name |-> IF n \in Kept
                  THEN Len(heap) + CHOOSE k \in DOMAIN order : order[k] = n
                  ELSE packages[n]]

EnterStage1 ==
  /\ pc = "enter"
  /\ \A n \in Organized : status[n] # "Processing"
  /\ \E order \in Orders(Kept) :
       /\ heap' = heap \o [k \in DOMAIN order |->
                             [name |-> order[k], files |-> Named(order[k])]]
       /\ contexts' = contexts \o [k \in DOMAIN order |->
                                     Named(order[k]) \X {Ids(order)[k]}]
       /\ imported' = imported \o [k \in DOMAIN order |-> {}]
       /\ packages' = Register(order)
       /\ stack' = Append(stack, [packages |-> Ids(order), phase |-> "scan",
                                  i |-> 1, names |-> {}])
  /\ pc' = "loop"
  /\ calling' = {}
  /\ UNCHANGED <<tree, returned, status, backend>>

(* A package on the way of being processed is met again. *)
DetectCycle ==
  /\ pc = "enter"
  /\ \E n \in Organized : status[n] = "Processing"
  /\ pc' = "cyclic"
  /\ UNCHANGED <<tree, calling, returned, progress, backend>>

-----------------------------------------------------------------------------
(* The loop that scans the imports of one package after the other. *)
Scanning ==
  /\ pc = "loop"
  /\ Top.phase = "scan"
  /\ Top.i <= Len(Top.packages)

(* ScanImports: the first candidate is taken. *)
Unresolved(object) ==
  \E n \in ImportsOf(object) : tree.candidates[n] = <<>>
ImportFiles(object) == UNION {tree.candidates[n][1] : n \in ImportsOf(object)}
ImportNames(object) ==
  {n \in ImportsOf(object) : tree.candidates[n][1] # {}}

ScanUnresolved ==
  /\ Scanning
  /\ Unresolved(Current)
  /\ status' = [status EXCEPT ![Current.name] = "Processing"]
  /\ pc' = "unresolved"
  /\ UNCHANGED <<tree, calling, returned, stack, packages, heap, contexts,
                 imported, backend>>

(* A slip: the package is not marked while its imports are followed. *)
ScanCallsUnmarked ==
  /\ Scanning
  /\ ~Unresolved(Current)
  /\ ImportFiles(Current) # {}
  /\ stack' = WithTop([Top EXCEPT !.names = ImportNames(Current)])
  /\ calling' = ImportFiles(Current)
  /\ pc' = "enter"
  /\ UNCHANGED <<tree, returned, status, packages, heap, contexts, imported,
                 backend>>

ScanCalls ==
  /\ Scanning
  /\ ~Unresolved(Current)
  /\ ImportFiles(Current) # {}
  /\ status' = [status EXCEPT ![Current.name] = "Processing"]
  /\ stack' = WithTop([Top EXCEPT !.names = ImportNames(Current)])
  /\ calling' = ImportFiles(Current)
  /\ pc' = "enter"
  /\ UNCHANGED <<tree, returned, packages, heap, contexts, imported, backend>>

(* A slip: a package without imports is not passed over. *)
ScanLeafAgain ==
  /\ Scanning
  /\ ~Unresolved(Current)
  /\ ImportFiles(Current) = {}
  /\ status' = [status EXCEPT ![Current.name] = "Done"]
  /\ UNCHANGED <<tree, pc, calling, returned, stack, packages, heap, contexts,
                 imported, backend>>

ScanLeaf ==
  /\ Scanning
  /\ ~Unresolved(Current)
  /\ ImportFiles(Current) = {}
  /\ status' = [status EXCEPT ![Current.name] = "Done"]
  /\ stack' = WithTop([Top EXCEPT !.i = @ + 1])
  /\ UNCHANGED <<tree, pc, calling, returned, packages, heap, contexts,
                 imported, backend>>

(* A slip: a package whose imports were followed stays marked. *)
FinishScanMarked ==
  /\ pc = "return"
  /\ stack # <<>>
  /\ stack' = WithTop([Top EXCEPT !.i = @ + 1, !.names = {}])
  /\ returned' = <<>>
  /\ pc' = "loop"
  /\ UNCHANGED <<tree, calling, status, packages, heap, contexts, imported,
                 backend>>

(* The recursive call is back: the objects it returned are registered if   *)
(* their names are among those imported.                                   *)
FinishScan ==
  /\ pc = "return"
  /\ stack # <<>>
  /\ packages' = [n \in Name |->
       IF \E o \in Range(returned) : heap[o].name = n /\ n \in Top.names
       THEN CHOOSE o \in Range(returned) : heap[o].name = n
       ELSE packages[n]]
  /\ status' = [status EXCEPT ![Current.name] = "Done"]
  /\ stack' = WithTop([Top EXCEPT !.i = @ + 1, !.names = {}])
  /\ returned' = <<>>
  /\ pc' = "loop"
  /\ UNCHANGED <<tree, calling, heap, contexts, imported, backend>>

-----------------------------------------------------------------------------
(* The loop of TypePrecheck, once every package of the frame is scanned. *)
BeginPrecheck ==
  /\ pc = "loop"
  /\ Top.phase = "scan"
  /\ Top.i > Len(Top.packages)
  /\ stack' = WithTop([Top EXCEPT !.phase = "precheck", !.i = 1])
  /\ UNCHANGED <<tree, pc, calling, returned, status, packages, heap, contexts,
                 imported, backend>>

Prechecking ==
  /\ pc = "loop"
  /\ Top.phase = "precheck"
  /\ Top.i <= Len(Top.packages)

(* An import statement copies what the context registered under its name   *)
(* holds and the importing context does not have yet.                      *)
PrecheckImport(n) ==
  /\ Prechecking
  /\ n \in ImportsOf(Current) \ Top.names
  /\ packages[n] # 0
  /\ LET o == Top.packages[Top.i]
         from == packages[n]
         known == {d[1] : d \in contexts[o]}
     IN  /\ contexts' = [contexts EXCEPT
                           ![o] = @ \cup {d \in contexts[from] :
                                             d[1] \notin known}]
         /\ imported' = [imported EXCEPT ![o] = @ \cup {from}]
  /\ stack' = WithTop([Top EXCEPT !.names = @ \cup {n}])
  /\ UNCHANGED <<tree, pc, calling, returned, status, packages, heap, backend>>

(* "Cannot find package named". *)
PrecheckMissing(n) ==
  /\ Prechecking
  /\ n \in ImportsOf(Current) \ Top.names
  /\ packages[n] = 0
  /\ pc' = "missing"
  /\ UNCHANGED <<tree, calling, returned, progress, backend>>

(* A slip: the loop over the children stops at the first import. *)
FinishPrecheckEarly ==
  /\ Prechecking
  /\ ImportsOf(Current) = {} \/ Top.names # {}
  /\ stack' = WithTop([Top EXCEPT !.i = @ + 1, !.names = {}])
  /\ UNCHANGED <<tree, pc, calling, returned, status, packages, heap, contexts,
                 imported, backend>>

FinishPrecheck ==
  /\ Prechecking
  /\ ImportsOf(Current) \subseteq Top.names
  /\ stack' = WithTop([Top EXCEPT !.i = @ + 1, !.names = {}])
  /\ UNCHANGED <<tree, pc, calling, returned, status, packages, heap, contexts,
                 imported, backend>>

LeaveStage1 ==
  /\ pc = "loop"
  /\ Top.phase = "precheck"
  /\ Top.i > Len(Top.packages)
  /\ returned' = Top.packages
  /\ stack' = SubSeq(stack, 1, Len(stack) - 1)
  /\ pc' = IF Len(stack) = 1 THEN "typecheck" ELSE "return"
  /\ UNCHANGED <<tree, calling, status, packages, heap, contexts, imported,
                 backend>>

-----------------------------------------------------------------------------
(* compile_tan after the analysis: TypeCheck runs on every registered      *)
(* package, then the packages the first activation returned are compiled.  *)
Registered == {packages[n] : n \in Name} \ {0}

TypeCheckPackage(o) ==
  /\ pc = "typecheck"
  /\ o \in Registered \ checked
  /\ checked' = checked \cup {o}
  /\ UNCHANGED <<tree, pc, calling, returned, progress, objects>>

(* A slip: type checking stops after the first package. *)
BeginCodegenEarly ==
  /\ pc = "typecheck"
  /\ checked # {}
  /\ pc' = "codegen"
  /\ UNCHANGED <<tree, calling, returned, progress, backend>>

BeginCodegen ==
  /\ pc = "typecheck"
  /\ Registered \subseteq checked
  /\ pc' = "codegen"
  /\ UNCHANGED <<tree, calling, returned, progress, backend>>

(* A slip: the position in the vector is not advanced. *)
CodegenOverwrites ==
  /\ pc = "codegen"
  /\ objects' = [k \in 1..Cardinality(tree.given) |->
                    IF k = 1 THEN heap[returned[Len(returned)]].name
                    ELSE NoName]
  /\ pc' = "done"
  /\ UNCHANGED <<tree, calling, returned, progress, checked>>

(* The object file names stand at the front of a vector as long as the     *)
(* list of source files.                                                   *)
Codegen ==
  /\ pc = "codegen"
  /\ objects' = [k \in 1..Cardinality(tree.given) |->
                    IF k \in DOMAIN returned THEN heap[returned[k]].name
                    ELSE NoName]
  /\ pc' = "done"
  /\ UNCHANGED <<tree, calling, returned, progress, checked>>

-----------------------------------------------------------------------------
Next ==
  \/ EnterStage1
  \/ DetectCycle
  \/ ScanUnresolved
  \/ ScanCalls
  \/ ScanLeaf
  \/ FinishScan
  \/ BeginPrecheck
  \/ \E n \in Name : PrecheckImport(n)
  \/ \E n \in Name : PrecheckMissing(n)
  \/ FinishPrecheck
  \/ LeaveStage1
  \/ \E o \in Registered : TypeCheckPackage(o)
  \/ BeginCodegen
  \/ Codegen

Spec == Init /\ [][Next]_vars

(* The driver is one thread that does not pause. *)
FairSpec == Spec /\ WF_vars(Next)

-----------------------------------------------------------------------------
(* What a source tree itself says. *)
FilesOf(t, n) == {f \in File : t.package[f] = n}
PackageImports(t, n) == UNION {t.imports[f] : f \in FilesOf(t, n)}

(* The packages reached from those in S by zero or more imports: they are  *)
(* in every set around S that no import leads out of.                      *)
Closed(t, T) == \A n \in T : PackageImports(t, n) \subseteq T
ReachedFrom(t, S) ==
  {n \in Name : \A T \in SUBSET Name : S \subseteq T /\ Closed(t, T) => n \in T}

InUse(t) == ReachedFrom(t, {t.package[f] : f \in t.given})
InCycle(t, n) == n \in ReachedFrom(t, PackageImports(t, n))
ImportsNothing(t, n) == \E m \in PackageImports(t, n) : t.candidates[m] = <<>>

HasImportCycle(t) == \E n \in InUse(t) : InCycle(t, n)
HasUnresolvedImport(t) == \E n \in InUse(t) : ImportsNothing(t, n)

(* A tree laid out as PACKAGES.md has it: what an import finds first is    *)
(* the package of that name, all of it, and the command line names whole   *)
(* packages.  The compiler does not insist on it.                          *)
Tidy(t) ==
  /\ \A n \in Name : t.candidates[n] # <<>> => t.candidates[n][1] = FilesOf(t, n)
  /\ \A f \in t.given : FilesOf(t, t.package[f]) \subseteq t.given

Frame == [packages : Seq(Nat), phase : {"scan", "precheck"},
          i : Nat, names : SUBSET Name]

TypeOK ==
  /\ tree \in Trees
  /\ pc \in Ended \cup {"enter", "loop", "return", "typecheck", "codegen"}
  /\ calling \subseteq File
  /\ returned \in Seq(DOMAIN heap)
  /\ stack \in Seq(Frame)
  /\ status \in [Name -> {"None", "Processing", "Done"}]
  /\ packages \in [Name -> DOMAIN heap \cup {0}]
  /\ heap \in Seq([name : Name, files : SUBSET File])
  /\ contexts \in [DOMAIN heap -> SUBSET (File \X DOMAIN heap)]
  /\ imported \in [DOMAIN heap -> SUBSET DOMAIN heap]
  /\ checked \subseteq DOMAIN heap
  /\ objects \in Seq(Name \cup {NoName})

(* "Cyclic package dependency detected" is raised for trees whose packages *)
(* import each other in a circle, and no such tree is compiled: neither    *)
(* the packages that are skipped as done, nor those analysed again, hide   *)
(* or invent a cycle.                                                      *)
CyclicIffImportCycle ==
  /\ pc = "cyclic" => HasImportCycle(tree)
  /\ pc = "done" => ~HasImportCycle(tree)

(* The other ways to fail are justified by the tree: an import that        *)
(* nothing resolves, or whose candidate is not the package.                *)
FailureIsJustified ==
  /\ pc = "unresolved" => HasUnresolvedImport(tree)
  /\ pc = "missing" => \E n \in InUse(tree) : \E m \in PackageImports(tree, n) :
                         tree.candidates[m] # <<>> /\
                         \A f \in tree.candidates[m][1] : tree.package[f] # m
  /\ pc = "done" => ~HasUnresolvedImport(tree)

(* _package_status "is used to avoid recursive importing" (driver.h): the  *)
(* names marked Processing are exactly those whose imports the activations *)
(* on the stack are following, each followed once, so that the recursion   *)
(* is never deeper than there are packages.                                *)
Following(k) == heap[stack[k].packages[stack[k].i]].name
Waiting == IF pc = "loop" THEN 1..(Len(stack) - 1) ELSE 1..Len(stack)

StatusIsStack ==
  pc \notin Failed =>
    /\ {n \in Name : status[n] = "Processing"} = {Following(k) : k \in Waiting}
    /\ \A j, k \in Waiting : Following(j) = Following(k) => j = k
    /\ Len(stack) <= Cardinality(Name) + 1

(* When the objects are written, each package that is compiled or type     *)
(* checked has in its context the declarations of every file of every      *)
(* package it imports, whichever of several objects it took them from.     *)
ImportsVisible ==
  pc = "done" =>
    \A o \in checked \cup Range(returned) : \A n \in ImportsOf(heap[o]) :
      FilesOf(tree, n) \subseteq {d[1] : d \in contexts[o]}

(* PACKAGES.md: "Each package is compiled into a single object file": the  *)
(* object files are those of the packages on the command line, each once.  *)
OneObjectPerPackage ==
  pc = "done" =>
    /\ Range(objects) \ {NoName} = {tree.package[f] : f \in tree.given}
    /\ \A i, j \in DOMAIN objects :
         objects[i] = objects[j] /\ objects[i] # NoName => i = j

(* A package that is compiled was type checked, as that very object,       *)
(* unless another package in use imports it.                               *)
CompiledAreChecked ==
  pc = "done" =>
    \A o \in Range(returned) \ checked :
      \E n \in InUse(tree) : heap[o].name \in PackageImports(tree, n)

(* The analysis ends, whatever imports what. *)
AnalysisEnds == <>(pc \in Ended)

=============================================================================
