------------------------ MODULE MC_FunctionSymbols ------------------------
(* Programs for FunctionSymbols: every library of two items with every     *)
(* user of two; users of three items, with bodies of two calls, of a       *)
(* library of one; and three packages that pass functions on.              *)
EXTENDS FunctionSymbols

Fn(pubs, callss) ==
  {[do |-> "fn", name |-> n, pub |-> pub, ext |-> FALSE, calls |-> calls] :
     n \in Name, pub \in pubs, calls \in callss}
Ext == {[do |-> "fn", name |-> n, pub |-> FALSE, ext |-> TRUE, calls |-> <<>>] : n \in Name}
From(ps) == {[do |-> "import", from |-> p] : p \in ps}

Upto(n, S) == UNION {[1..k -> S] : k \in 0..n}
One == {<<>>} \cup {<<n>> : n \in Name}
Two == One \cup {<<m, n>> : m, n \in Name}

Pairs ==
  {<<lib, user>> : lib \in Upto(2, Fn(BOOLEAN, One) \cup Ext),
                   user \in Upto(2, Fn({FALSE}, One) \cup Ext \cup From({1}))}
Users ==
  {<<<<f>>, user>> : f \in Fn({TRUE}, {<<>>}) \cup Ext,
                     user \in [1..3 -> Fn({FALSE}, Two) \cup From({1})]}
Chains ==
  {<<<<f>>, middle, user \o <<g>>>> :
     f \in Fn({TRUE}, {<<>>}) \cup Ext,
     middle \in Upto(2, Fn(BOOLEAN, {<<>>}) \cup From({1})),
     user \in Upto(2, From({1, 2})),
     g \in Fn({FALSE}, One)}

(* One package of two files, each with one function, the names distinct.   *)
Files ==
  {<<<<g, h>>>> : g, h \in Fn({TRUE}, One)}
TwoFiles == {q \in Files : q[1][1].name # q[1][2].name}

ProgramsDef == Pairs \cup Users \cup Chains
=============================================================================
