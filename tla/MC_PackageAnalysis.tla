------------------------ MODULE MC_PackageAnalysis ------------------------
(* Source trees for TLC: packages "a", "b" and "c", the first of which may *)
(* have a second file "a2"; a name "z" that is no package.                 *)
EXTENDS PackageAnalysis, TLC

LOCAL Package == {"a", "b", "c"}

(* One file per package, named alike, and every import finds that file. *)
Alike(imports, given) ==
  [package |-> [f \in File |-> IF f = "a2" THEN "z" ELSE f],
   imports |-> imports @@ "a2" :> {},
   candidates |-> [n \in Name |-> IF n = "z" THEN <<>> ELSE <<{n}>>],
   given |-> given]

(* Every way the packages can import each other or themselves, with one,   *)
(* two or three of them on the command line; the names are alike.          *)
OneFileTrees ==
  {Alike(imports, given) : imports \in [Package -> SUBSET Package],
                           given \in {{"a"}, {"a", "b"}, {"a", "b", "c"}}}

AtMostOne == {{}} \cup {{n} : n \in Name}

(* Package "a" has the files "a" and "a2"; the candidate of "z" is        *)
(* missing or an empty directory; a file imports at most one package; one  *)
(* package is on the command line.                                         *)
TwoFileTrees ==
  {[package |-> ("a" :> "a" @@ "a2" :> "a" @@ "b" :> "b" @@ "c" :> "c"),
    imports |-> imports,
    candidates |-> ("a" :> <<{"a", "a2"}>> @@ "b" :> <<{"b"}>>
                    @@ "c" :> <<{"c"}>> @@ "z" :> z),
    given |-> given] :
     imports \in [File -> AtMostOne],
     z \in {<<>>, <<{}>>},
     given \in {{"a", "a2"}, {"b"}}}

AllTrees == OneFileTrees \cup TwoFileTrees

ASSUME AllTidy == \A t \in AllTrees : Tidy(t)

=============================================================================
