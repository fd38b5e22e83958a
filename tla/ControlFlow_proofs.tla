------------------------ MODULE ControlFlow_proofs ------------------------
(***************************************************************************)
(* Proofs about ControlFlow, for bodies of any length: the visitors leave  *)
(* the builder where the next item of the body belongs, a function is      *)
(* malformed only for the reasons that MalformedIsExplained names, and one *)
(* that runs evaluates what its source does, in that order, which is the   *)
(* safety part of ImplementsStructuredRun.                                 *)
(***************************************************************************)
EXTENDS ControlFlow, Braces, TLAPS

Opens(s) == {k \in DOMAIN s : s[k] \in Openers}
Ends(s) == {k \in DOMAIN s : s[k] = "end"}

(* Where the item at p of the body s may stand, n being the openers around *)
(* it.                                                                     *)
Placed(s, n, p) ==
  /\ s[p] \in {"elif", "else"} => n # <<>> /\ s[Last(n)] = "if"
  /\ s[p] \in {"break", "continue"} => \E k \in DOMAIN n : s[n[k]] \in LoopHeads

(* A history of the body, and the place of the visitors in it.             *)
Legible(h, s) ==
  /\ s \in Seq(Op)
  /\ IsHistory(h, Opens(s), Ends(s), Len(s))
  /\ \A p \in DOMAIN s : Placed(s, h[p - 1], p)

Visited(h, s, p, n) ==
  /\ p \in 1..(Len(s) + 1)
  /\ h[Len(s)] = <<>>
  /\ n = h[p - 1]

(* The body is one that can be written, and the visitors are where its     *)
(* braces say they are.                                                    *)
Nesting ==
  \E h : /\ Legible(h, source)
         /\ pc = "writing" => nest = h[Len(source)]
         /\ pc # "writing" => Visited(h, source, pos, nest)

-----------------------------------------------------------------------------
(* What a history is, and that no item both opens and ends a construct.    *)
LEMMA LegibleFacts ==
  ASSUME NEW h, NEW s, Legible(h, s)
  PROVE  /\ s \in Seq(Op) /\ Len(s) \in Nat /\ DOMAIN s = 1..Len(s)
         /\ h \in [Nat -> Seq(Nat)]
         /\ IsHistory(h, Opens(s), Ends(s), Len(s))
<1>1. s \in Seq(Op)
  BY DEF Legible
<1>2. Len(s) \in Nat /\ DOMAIN s = 1..Len(s)
  BY <1>1
<1>3. h \in [Nat -> Seq(Nat)] /\ IsHistory(h, Opens(s), Ends(s), Len(s))
  BY DEF Legible, IsHistory
<1> QED BY <1>1, <1>2, <1>3

(* The first body is empty.                                                *)
LEMMA NothingWritten == \E h : Legible(h, <<>>) /\ h[0] = <<>>
<1>1. Opens(<<>>) = {} /\ Ends(<<>>) = {} /\ Len(<<>>) = 0 /\ DOMAIN <<>> = {}
  BY DEF Opens, Ends
<1>2. PICK h : IsHistory(h, {}, {}, 0)
  <2>1. {} \cap {} = {}
    OBVIOUS
  <2> QED BY <2>1, HistoryOfNothing
<1>3. h[0] = <<>>
  BY <1>2 DEF IsHistory
<1>4. <<>> \in Seq(Op)
  OBVIOUS
<1> QED BY <1>1, <1>2, <1>3, <1>4 DEF Legible

(* One more item.                                                          *)
LEMMA ItemWritten ==
  ASSUME NEW s, NEW h, Legible(h, s), NEW op \in Op, NEW n, n = h[Len(s)],
         op = "end" => n # <<>>,
         Placed(Append(s, op), n, Len(s) + 1)
  PROVE  \E g : /\ Legible(g, Append(s, op))
                /\ g[Len(s) + 1] = IF op \in Openers THEN Append(n, Len(s) + 1)
                                   ELSE IF op = "end" THEN Shorter(n) ELSE n
<1>0. /\ s \in Seq(Op) /\ Len(s) \in Nat /\ DOMAIN s = 1..Len(s)
      /\ h \in [Nat -> Seq(Nat)]
  BY LegibleFacts
<1>a. Append(s, op) \in Seq(Op)
  BY <1>0
<1>1. PICK l \in Nat, t \in Seq(Op) : l = Len(s) /\ t = Append(s, op)
  BY <1>0, <1>a
<1>2. /\ Len(t) = l + 1 /\ DOMAIN t = 1..(l + 1) /\ t[l + 1] = op
      /\ \A k \in 1..l : t[k] = s[k]
  BY <1>0, <1>1
<1>3. Opens(t) \cap Ends(t) = {}
  BY DEF Opens, Ends, Openers, LoopHeads
<1>4. Agree(Opens(s), Opens(t), l) /\ Agree(Ends(s), Ends(t), l)
  <2>1. \A k \in 1..l : k \in DOMAIN s /\ k \in DOMAIN t /\ t[k] = s[k]
    BY <1>0, <1>1, <1>2
  <2> QED BY <2>1 DEF Agree, Opens, Ends
<1>5. /\ l + 1 \in Opens(t) <=> op \in Openers
      /\ l + 1 \in Ends(t) <=> op = "end"
  <2>1. l + 1 \in DOMAIN t
    BY <1>2
  <2> QED BY <1>2, <2>1 DEF Opens, Ends
<1>6. InOne(h, Ends(t), l + 1)
  <2>1. l + 1 - 1 = l
    OBVIOUS
  <2> QED BY <1>1, <1>5, <2>1 DEF InOne
<1>7. PICK g : /\ IsHistory(g, Opens(t), Ends(t), l + 1)
               /\ g[l + 1] = Behind(h[l], Opens(t), Ends(t), l + 1)
               /\ Extends(g, h, l)
  <2>1. IsHistory(h, Opens(s), Ends(s), l)
    BY <1>1 DEF Legible
  <2> QED BY <1>3, <1>4, <1>6, <2>1, HistoryGrows
<1>8. g[l + 1] = IF op \in Openers THEN Append(n, l + 1)
                 ELSE IF op = "end" THEN Shorter(n) ELSE n
  BY <1>1, <1>5, <1>7 DEF Behind, Shorter
<1>9. ASSUME NEW p \in DOMAIN t
      PROVE  Placed(t, g[p - 1], p)
  <2>1. CASE p = l + 1
    <3>1. p - 1 = l /\ l \in 0..l
      BY <2>1
    <3>2. g[p - 1] = n
      BY <1>1, <1>7, <3>1 DEF Extends
    <3> QED BY <1>1, <2>1, <3>2
  <2>2. CASE p # l + 1
    <3>1. p \in 1..l /\ p - 1 \in 0..l
      BY <1>2, <2>2
    <3>2. PICK m : m = h[p - 1]
      OBVIOUS
    <3>3. g[p - 1] = m /\ t[p] = s[p]
      BY <1>2, <1>7, <3>1, <3>2 DEF Extends
    <3>4. Placed(s, m, p)
      BY <1>0, <1>1, <3>1, <3>2 DEF Legible
    <3>5. /\ m # <<>> => t[Last(m)] = s[Last(m)]
          /\ \A k \in DOMAIN m : t[m[k]] = s[m[k]]
      <4>1. Recorded(h, Opens(s), Ends(s), p - 1)
        BY <1>1, <3>1 DEF Legible, IsHistory
      <4>2. m \in Seq(1..(p - 1))
        BY <3>2, <4>1 DEF Recorded, Ascending
      <4>3. /\ m # <<>> => Last(m) \in 1..(p - 1)
            /\ \A k \in DOMAIN m : m[k] \in 1..(p - 1)
        BY <4>2, SeqMember DEF Last
      <4>4. 1..(p - 1) \subseteq 1..l
        BY <3>1
      <4> QED BY <1>2, <4>3, <4>4
    <3> QED BY <3>3, <3>4, <3>5 DEF Placed
  <2> QED BY <2>1, <2>2
<1>10. Legible(g, t)
  BY <1>1, <1>2, <1>7, <1>9 DEF Legible
<1> QED BY <1>1, <1>8, <1>10

-----------------------------------------------------------------------------
(* The openers around the item at p stand before it, outer ones first.     *)
LEMMA NestFacts ==
  ASSUME NEW s, NEW h, Legible(h, s), NEW p, NEW n, Visited(h, s, p, n)
  PROVE  /\ p \in Nat /\ p - 1 \in 0..Len(s)
         /\ n \in Seq(Nat) /\ Len(n) \in Nat /\ DOMAIN n = 1..Len(n)
         /\ \A k \in DOMAIN n : n[k] \in 1..(p - 1) /\ n[k] \in Opens(s)
         /\ \A j, k \in DOMAIN n : j < k => n[j] < n[k]
<1>0. Len(s) \in Nat /\ h \in [Nat -> Seq(Nat)]
  BY LegibleFacts
<1>1. p \in Nat /\ p - 1 \in 0..Len(s) /\ p - 1 \in Nat
  BY <1>0 DEF Visited
<1>2. n \in Seq(Nat)
  BY <1>0, <1>1 DEF Visited
<1>3. Ascending(n, Opens(s), p - 1)
  BY <1>1 DEF Visited, Legible, IsHistory, Recorded
<1>4. n \in Seq(1..(p - 1))
  BY <1>3 DEF Ascending
<1>5. \A k \in DOMAIN n : n[k] \in 1..(p - 1)
  BY <1>4, SeqMember
<1>6. Len(n) \in Nat /\ DOMAIN n = 1..Len(n)
  BY <1>2
<1> QED BY <1>1, <1>2, <1>3, <1>5, <1>6 DEF Ascending

(* The innermost of them is the last, and stands behind the others.        *)
LEMMA LastOpener ==
  ASSUME NEW s, NEW h, Legible(h, s), NEW p, NEW n, Visited(h, s, p, n), n # <<>>
  PROVE  /\ Last(n) \in Nat /\ Last(n) < p /\ Last(n) \in Opens(s)
         /\ Last(n) \in Range(n)
         /\ \A j \in Range(n) : j \in Nat /\ j <= Last(n)
         /\ Range(Shorter(n)) = Range(n) \ {Last(n)}
         /\ Shorter(n) \in Seq(Nat) /\ Len(Shorter(n)) = Len(n) - 1
<1>1. /\ n \in Seq(Nat) /\ DOMAIN n = 1..Len(n) /\ p \in Nat
      /\ \A k \in DOMAIN n : n[k] \in 1..(p - 1) /\ n[k] \in Opens(s)
      /\ \A j, k \in DOMAIN n : j < k => n[j] < n[k]
  BY NestFacts
<1>2. PICK b \in Nat : b = Len(n) /\ b # 0
  <2>1. n \in Seq(Nat)
    BY <1>1
  <2> QED BY <2>1
<1>3. b \in DOMAIN n /\ DOMAIN n = 1..b /\ Last(n) = n[b]
  BY <1>1, <1>2 DEF Last
<1>4. PICK i \in Nat : i = Last(n) /\ i = n[b] /\ i < p
  BY <1>1, <1>3
<1>5. PICK l \in Nat : l = b - 1 /\ l \in 0..b /\ l + 1 = b
  BY <1>2
<1>6. PICK m : m = SubSeq(n, 1, l) /\ m = Shorter(n)
  BY <1>2, <1>5 DEF Shorter
<1>7. m \in Seq(Nat) /\ Len(m) = l /\ \A k \in 1..l : m[k] = n[k]
  BY SMTT(30), <1>1, <1>2, <1>5, <1>6, FirstOf
<1>8. DOMAIN m = 1..l
  BY <1>7
<1>9. ASSUME NEW k \in 1..l
      PROVE  k \in DOMAIN n /\ n[k] \in Nat /\ n[k] < i
  <2>1. k \in DOMAIN n /\ k < b
    BY <1>3, <1>5
  <2> QED BY <1>1, <1>3, <1>4, <2>1
<1>10. \A k \in DOMAIN n : k \in 1..l \/ k = b
  BY <1>3, <1>5
<1>11. \A j \in Range(n) : j \in Nat /\ j <= i
  BY <1>4, <1>9, <1>10 DEF Range
<1>12. Range(m) = Range(n) \ {i}
  <2>1. \A k \in DOMAIN m : m[k] = n[k] /\ k \in DOMAIN n /\ n[k] # i
    BY <1>7, <1>8, <1>9
  <2>2. \A k \in DOMAIN n : n[k] # i => k \in DOMAIN m /\ m[k] = n[k]
    BY <1>4, <1>7, <1>8, <1>10
  <2> QED BY <2>1, <2>2 DEF Range
<1>13. i \in Range(n) /\ i \in Opens(s)
  BY <1>1, <1>3, <1>4 DEF Range
<1> QED BY <1>2, <1>4, <1>5, <1>6, <1>7, <1>11, <1>12, <1>13

(* The next item, after an opener, an end and any other item.              *)
LEMMA NestMoves ==
  ASSUME NEW s, NEW h, Legible(h, s), NEW p \in DOMAIN s, NEW n, Visited(h, s, p, n)
  PROVE  /\ s[p] \in Openers => Visited(h, s, p + 1, Append(n, p))
         /\ s[p] = "end" => n # <<>> /\ Visited(h, s, p + 1, Shorter(n))
         /\ s[p] \notin Openers /\ s[p] # "end" => Visited(h, s, p + 1, n)
<1>0. Len(s) \in Nat /\ DOMAIN s = 1..Len(s) /\ p \in Nat /\ p \in 1..Len(s)
  BY LegibleFacts
<1>1. Step(h, Opens(s), Ends(s), p)
  BY <1>0 DEF Legible, IsHistory
<1>2. /\ h[p] = Behind(n, Opens(s), Ends(s), p)
      /\ p \in Ends(s) => n # <<>>
  BY <1>1 DEF Step, Visited
<1>3. /\ p \in Opens(s) <=> s[p] \in Openers
      /\ p \in Ends(s) <=> s[p] = "end"
  BY DEF Opens, Ends
<1>4. h[Len(s)] = <<>> /\ p + 1 \in 1..(Len(s) + 1) /\ p + 1 - 1 = p
  BY <1>0 DEF Visited
<1>5. \A m : h[p] = m => Visited(h, s, p + 1, m)
  BY <1>4 DEF Visited
<1>6. "end" \notin Openers
  BY DEF Openers, LoopHeads
<1> QED BY <1>2, <1>3, <1>5, <1>6 DEF Behind, Shorter

-----------------------------------------------------------------------------
(* Depth, EndOf and Branches, said of the body s.                          *)
DepthOf(s, i, j) ==
  Cardinality({k \in i..j : s[k] \in Openers})
  - Cardinality({k \in i..j : s[k] = "end"})
EndIn(s, i) == CHOOSE j \in i..Len(s) :
                 DepthOf(s, i, j) = 0 /\ \A k \in i..(j - 1) : DepthOf(s, i, k) > 0
BranchesIn(s, i) ==
  {i} \cup {b \in (i + 1)..(EndIn(s, i) - 1) :
              s[b] \in {"elif", "else"} /\ DepthOf(s, i, b) = 1}

(* They are those of the source.                                           *)
LEMMA SameCounts ==
  /\ \A i : EndOf(i) = EndIn(source, i)
  /\ \A i : Branches(i) = BranchesIn(source, i)
<1>1. \A i : EndOf(i) = EndIn(source, i)
  BY DEF EndOf, EndIn, Depth, DepthOf
<1>2. \A i : Branches(i) = BranchesIn(source, i)
  BY <1>1 DEF Branches, BranchesIn, Depth, DepthOf
<1> QED BY <1>1, <1>2

(* The depth is the balance of the braces.                                 *)
LEMMA DepthIs ==
  ASSUME NEW h, NEW s, Legible(h, s), NEW i \in 1..Len(s), NEW j \in i..Len(s)
  PROVE  DepthOf(s, i, j) = Balance(Opens(s), Ends(s), i, j)
<1>1. i..j \subseteq DOMAIN s
  <2>1. Len(s) \in Nat /\ DOMAIN s = 1..Len(s)
    BY LegibleFacts
  <2> QED BY <2>1
<1>2. /\ {k \in i..j : s[k] \in Openers} = {k \in i..j : k \in Opens(s)}
      /\ {k \in i..j : s[k] = "end"} = {k \in i..j : k \in Ends(s)}
  BY <1>1 DEF Opens, Ends
<1> QED BY <1>2 DEF DepthOf, Balance

(* The end of a construct exists, and is what is counted.                  *)
LEMMA EndInIs ==
  ASSUME NEW h, NEW s, Legible(h, s), h[Len(s)] = <<>>, NEW i \in Opens(s)
  PROVE  /\ i \in 1..Len(s) /\ EndIn(s, i) \in i..Len(s)
         /\ \A e \in i..Len(s) :
              IsEnd(Opens(s), Ends(s), i, Len(s), e) => EndIn(s, i) = e
         /\ IsEnd(Opens(s), Ends(s), i, Len(s), EndIn(s, i))
<1>0. PICK l \in Nat : l = Len(s)
  BY LegibleFacts
<1>1. PICK O, E : l = Len(s) /\ O = Opens(s) /\ E = Ends(s)
  BY <1>0
<1>2. DOMAIN s = 1..l /\ i \in 1..l /\ i \in O /\ IsHistory(h, O, E, l) /\ h[l] = <<>>
  BY <1>1, LegibleFacts DEF Opens
<1> DEFINE P(j) == DepthOf(s, i, j) = 0 /\ \A k \in i..(j - 1) : DepthOf(s, i, k) > 0
<1>3. ASSUME NEW j \in i..l
      PROVE  IsEnd(O, E, i, l, j) <=> P(j)
  <2>1. \A k \in i..l : DepthOf(s, i, k) = Balance(O, E, i, k)
    BY <1>1, <1>2, DepthIs
  <2>2. \A k \in i..(j - 1) : k \in i..l
    BY <1>2
  <2> QED BY <2>1, <2>2 DEF IsEnd
<1>4. PICK e \in i..l : IsEnd(O, E, i, l, e)
  BY <1>2, EndExists
<1>5. EndIn(s, i) = CHOOSE j \in i..l : P(j)
  BY <1>1 DEF EndIn
<1>6. ASSUME NEW j \in i..l, NEW k \in i..l, P(j), P(k)
      PROVE  j = k
  <2>1. ~(j < k)
    <3> SUFFICES ASSUME j < k PROVE FALSE
      OBVIOUS
    <3>1. j \in i..(k - 1)
      BY <1>2
    <3>2. DepthOf(s, i, j) = 0 /\ DepthOf(s, i, j) > 0
      BY <1>6, <3>1
    <3> QED BY <3>2
  <2>2. ~(k < j)
    <3> SUFFICES ASSUME k < j PROVE FALSE
      OBVIOUS
    <3>1. k \in i..(j - 1)
      BY <1>2
    <3>2. DepthOf(s, i, k) = 0 /\ DepthOf(s, i, k) > 0
      BY <1>6, <3>1
    <3> QED BY <3>2
  <2> QED BY <1>2, <2>1, <2>2
<1> HIDE DEF P
<1>7. EndIn(s, i) \in i..l /\ P(EndIn(s, i))
  BY <1>3, <1>4, <1>5
<1>8. \A j \in i..l : IsEnd(O, E, i, l, j) => EndIn(s, i) = j
  BY <1>3, <1>6, <1>7
<1>9. IsEnd(O, E, i, l, EndIn(s, i))
  BY <1>3, <1>7
<1> QED BY <1>1, <1>2, <1>7, <1>8, <1>9

(* An end is that of the innermost construct.                              *)
LEMMA EndFound ==
  ASSUME NEW s, NEW h, Legible(h, s), NEW p \in DOMAIN s, NEW n, Visited(h, s, p, n),
         s[p] = "end"
  PROVE  EndIn(s, Last(n)) = p
<1>0. PICK l \in Nat : l = Len(s)
  BY LegibleFacts
<1>1. PICK O, E : l = Len(s) /\ O = Opens(s) /\ E = Ends(s)
  BY <1>0
<1>2. /\ IsHistory(h, O, E, l) /\ h[l] = <<>> /\ n = h[p - 1] /\ n \in Seq(Nat)
      /\ p \in 1..l /\ n # <<>>
  BY ZenonT(40), <1>1, LegibleFacts, NestFacts, NestMoves DEF Visited
<1>3. PICK i \in Nat : i = Last(n) /\ i < p /\ i \in O
  BY <1>1, <1>2, LastOpener
<1>4. PICK b \in Nat : b = Len(n) /\ b # 0
  BY <1>2
<1>5. b \in DOMAIN n /\ n[b] = i
  BY <1>2, <1>3, <1>4 DEF Last
<1>6. Recorded(h, O, E, p - 1) /\ Step(h, O, E, p)
  <2>1. p - 1 \in 0..l
    BY <1>2
  <2> QED BY <1>2, <2>1 DEF IsHistory
<1>7. Len(h[i - 1]) = b - 1 /\ \A j \in i..(p - 1) : b <= Len(h[j])
  BY <1>2, <1>5, <1>6 DEF Recorded, Levels
<1>8. Len(h[p]) = b - 1
  <2>1. p \in E
    BY <1>1, <1>2 DEF Ends
  <2>2. n \in Seq(Nat) /\ h[p] \in Seq(Nat) /\ h[p] = Behind(n, O, E, p) /\ O \cap E = {}
    BY <1>2, <1>6 DEF Step
  <2>3. PICK m \in Seq(Nat) : m = h[p]
    BY <2>2
  <2>4. Len(m) = Len(n) - 1
    BY SMTT(30), <1>2, <2>1, <2>2, <2>3, Down
  <2> QED BY <1>4, <2>3, <2>4
<1>9. Returns(h, i, p)
  <2>1. \A k \in i..(p - 1) : Len(h[k]) > b - 1
    <3> SUFFICES ASSUME NEW k \in i..(p - 1) PROVE Len(h[k]) > b - 1
      OBVIOUS
    <3>1. h[k] \in Seq(Nat)
      BY <1>2, <1>3 DEF IsHistory
    <3>2. PICK c \in Nat : c = Len(h[k])
      BY <3>1
    <3>3. b <= c
      BY <1>7, <3>2
    <3>4. c > b - 1
      BY <3>3
    <3> QED BY <3>2, <3>4
  <2> QED BY <1>7, <1>8, <2>1 DEF Returns
<1>10. i \in 1..l /\ p \in i..l
  <2>1. i \in DOMAIN s /\ DOMAIN s = 1..l
    BY <1>1, <1>3, LegibleFacts DEF Opens
  <2> QED BY <1>2, <1>3, <2>1
<1>11. IsEnd(O, E, i, l, p)
  BY <1>2, <1>9, <1>10, EndReturns
<1> QED BY <1>1, <1>2, <1>3, <1>10, <1>11, EndInIs

(* An elif or else is a branch of the innermost construct, which is an if. *)
LEMMA BranchFound ==
  ASSUME NEW s, NEW h, Legible(h, s), NEW p \in DOMAIN s, NEW n, Visited(h, s, p, n),
         s[p] \in {"elif", "else"}
  PROVE  n # <<>> /\ s[Last(n)] = "if" /\ p \in BranchesIn(s, Last(n))
<1>0. PICK l \in Nat : l = Len(s)
  BY LegibleFacts
<1>1. PICK O, E : l = Len(s) /\ O = Opens(s) /\ E = Ends(s)
  BY <1>0
<1>2. n # <<>> /\ s[Last(n)] = "if"
  BY DEF Legible, Visited, Placed
<1>3. /\ IsHistory(h, O, E, l) /\ h[l] = <<>> /\ n \in Seq(Nat) /\ p \in 1..l
      /\ h \in [Nat -> Seq(Nat)]
  BY <1>1, LegibleFacts, NestFacts DEF Visited
<1>4. n = h[p]
  <2>1. s[p] \notin Openers /\ s[p] # "end"
    BY DEF Openers, LoopHeads
  <2>2. Visited(h, s, p + 1, n)
    BY <2>1, NestMoves
  <2>3. p + 1 - 1 = p
    BY <1>3
  <2> QED BY <2>2, <2>3 DEF Visited
<1>5. PICK i \in Nat : i = Last(n) /\ i < p /\ i \in O /\ i \in 1..l
  BY <1>1, <1>2, LastOpener, LegibleFacts DEF Opens
<1>6. PICK b \in Nat : b = Len(n) /\ b # 0
  BY <1>2, <1>3
<1>7. b \in DOMAIN n /\ n[b] = i
  <2>1. DOMAIN n = 1..Len(n)
    BY <1>3
  <2>2. b \in DOMAIN n
    BY <1>6, <2>1
  <2> QED BY <1>5, <1>6, <2>2 DEF Last
<1>p. p \in Nat /\ p \in 1..l
  BY <1>3
<1>8. PICK e \in i..l : e = EndIn(s, i) /\ IsEnd(O, E, i, l, e)
  BY <1>1, <1>3, <1>5, EndInIs
<1>9. e > p
  <2>1. IsOpenAt(h, O, E, l, p, n, b)
    <3>1. p \in 0..l
      BY <1>3
    <3> QED BY <1>3, <1>4, <1>7, <3>1, OuterPart
  <2> QED BY <1>7, <1>8, <2>1 DEF IsOpenAt, EndsAfter
<1>10. DepthOf(s, i, p) = 1
  <2>1. Recorded(h, O, E, p)
    <3>1. p \in 0..l
      BY <1>3
    <3> QED BY <1>3, <3>1 DEF IsHistory
  <2>2. Len(h[i - 1]) = b - 1
    BY <1>4, <1>7, <2>1 DEF Recorded, Levels
  <2>3. i - 1 \in 0..p /\ i - 1 + 1 = i
    BY <1>p, <1>5
  <2>4. Balance(O, E, i, p) = Len(n) - Len(h[i - 1])
    BY <1>4, <2>1, <2>3 DEF Recorded, Counts
  <2>5. Balance(O, E, i, p) = b - (b - 1)
    BY <1>6, <2>2, <2>4
  <2>6. p \in i..l
    BY <1>p, <1>5
  <2>7. DepthOf(s, i, p) = Balance(O, E, i, p)
    BY <1>1, <1>5, <2>6, DepthIs
  <2>8. b - (b - 1) = 1
    OBVIOUS
  <2> QED BY <2>5, <2>7, <2>8
<1>11. p \in (i + 1)..(e - 1)
  BY <1>p, <1>5, <1>9
<1>12. p \in BranchesIn(s, i)
  BY <1>8, <1>10, <1>11 DEF BranchesIn
<1> QED BY <1>2, <1>5, <1>12

-----------------------------------------------------------------------------
(* Before the visit nothing is laid out.                                   *)
Phases == {"writing", "emitting", "running", "returned", "malformed"}

Quiet ==
  pc = "writing" =>
    pos = 1 /\ branch = <<>> /\ insert = Entry /\ blocks = [b \in {Entry} |-> <<>>]

Base == pc \in Phases /\ Nesting /\ Quiet

(* The visitors move with the braces.                                      *)
LEMMA NestingElim ==
  ASSUME Nesting, pc # "writing"
  PROVE  \E h : Legible(h, source) /\ Visited(h, source, pos, nest)
BY DEF Nesting

(* After a step of them the body is the same.                              *)
LEMMA NestingIntro ==
  ASSUME NEW h, Legible(h, source), source' = source, pc' # "writing",
         Visited(h, source, pos', nest')
  PROVE  Nesting'
BY DEF Nesting

(* The item that is visited is one of the body.                            *)
LEMMA AtFacts ==
  ASSUME NEW h, Legible(h, source), Visited(h, source, pos, nest), NEW op, At(op)
  PROVE  pos \in DOMAIN source /\ source[pos] = op /\ pc = "emitting"
<1>1. Len(source) \in Nat /\ DOMAIN source = 1..Len(source)
  BY LegibleFacts
<1> QED BY <1>1 DEF At, Visited

(* An item is written where the braces allow it.                           *)
LEMMA WriteNests ==
  ASSUME Base, NEW op \in Op, Write(op)
  PROVE  Nesting' /\ pc' = "writing"
<1>1. PICK h : Legible(h, source) /\ nest = h[Len(source)]
  BY DEF Base, Nesting, Write
<1>2. /\ source \in Seq(Op) /\ Len(source) \in Nat /\ DOMAIN source = 1..Len(source)
      /\ h \in [Nat -> Seq(Nat)]
  BY <1>1, LegibleFacts
<1>l. PICK l \in Nat : l = Len(source)
  BY <1>2
<1>3. PICK t, n : l = Len(source) /\ t = Append(source, op) /\ n = nest
  BY <1>l
<1>4. t[l + 1] = op /\ \A k \in 1..l : t[k] = source[k]
  BY <1>2, <1>3
<1>5. /\ n # <<>> => Last(n) \in 1..l
      /\ \A k \in DOMAIN n : n[k] \in 1..l
  <2>1. Recorded(h, Opens(source), Ends(source), l)
    <3>1. l \in 0..l
      OBVIOUS
    <3> QED BY <1>1, <1>3, <3>1 DEF Legible, IsHistory
  <2>2. n \in Seq(1..l)
    BY <1>1, <1>3, <2>1 DEF Recorded, Ascending
  <2> QED BY <2>2, SeqMember DEF Last
<1>6. MayWrite(op)
  BY DEF Write
<1>7. Placed(t, n, l + 1)
  <2>1. op \in {"elif", "else"} => n # <<>> /\ source[Last(n)] = "if"
    BY <1>3, <1>6 DEF MayWrite
  <2>2. op \in {"break", "continue"} => \E k \in DOMAIN n : source[n[k]] \in LoopHeads
    BY <1>3, <1>6 DEF MayWrite, InLoop
  <2> QED BY <1>4, <1>5, <2>1, <2>2 DEF Placed
<1>8. op = "end" => n # <<>>
  BY <1>3, <1>6 DEF MayWrite
<1>9. PICK g : /\ Legible(g, t)
               /\ g[l + 1] = IF op \in Openers THEN Append(n, l + 1)
                             ELSE IF op = "end" THEN Shorter(n) ELSE n
  BY <1>1, <1>3, <1>7, <1>8, ItemWritten
<1>10. nest' = g[Len(source')] /\ source' = t /\ pc' = "writing"
  <2>1. source' = t /\ pc' = "writing"
    BY <1>3 DEF Write
  <2>2. Len(source') = l + 1
    BY <1>2, <1>3, <2>1
  <2>3. nest' = IF op \in Openers THEN Append(n, l + 1)
                ELSE IF op = "end" THEN Shorter(n) ELSE n
    BY <1>3 DEF Write
  <2> QED BY <1>9, <2>1, <2>2, <2>3
<1> QED BY <1>9, <1>10 DEF Nesting

(* A visitor goes on to the next item, and to the openers around it.       *)
Plain == EmitStmt \/ EmitReturn \/ EmitBreak \/ EmitContinue
Visit == Plain \/ EmitIf \/ EmitBranch \/ EmitEndIf \/ EmitLoop \/ EmitEndLoop

(* What each visitor visits, and that it moves with the braces.            *)
LEMMA VisitMoves ==
  ASSUME Base, Visit
  PROVE  /\ pc = "emitting" /\ pc' = "emitting" /\ source' = source /\ pos' = pos + 1
         /\ \E h : /\ Legible(h, source) /\ Visited(h, source, pos, nest)
                   /\ Visited(h, source, pos', nest')
         /\ pos \in DOMAIN source
         /\ Plain => source[pos] \in {"stmt", "return", "break", "continue"}
         /\ EmitIf => source[pos] = "if"
         /\ EmitBranch => source[pos] \in {"elif", "else"}
         /\ EmitEndIf => source[pos] = "end" /\ nest # <<>> /\ source[Last(nest)] = "if"
         /\ EmitEndLoop => /\ source[pos] = "end" /\ nest # <<>>
                           /\ source[Last(nest)] \in LoopHeads
         /\ EmitLoop => source[pos] \in LoopHeads
<1>1. Advance
  BY DEF Visit, Plain, EmitStmt, EmitReturn, EmitBreak, EmitContinue, EmitIf, EmitBranch,
     EmitEndIf, EmitLoop, EmitEndLoop
<1>2. PICK op : At(op)
  BY DEF Visit, Plain, EmitStmt, EmitReturn, EmitBreak, EmitContinue, EmitIf, EmitBranch,
     EmitEndIf, EmitLoop, EmitEndLoop
<1>3. pc = "emitting"
  BY <1>2 DEF At
<1>4. PICK h : Legible(h, source) /\ Visited(h, source, pos, nest)
  BY <1>3, NestingElim DEF Base
<1>5. pos \in DOMAIN source /\ \A o : At(o) => source[pos] = o
  BY <1>2, <1>4, AtFacts
<1>6. pos' = pos + 1 /\ source' = source /\ pc' = pc
  BY <1>1 DEF Advance
<1>7. CASE Plain
  <2>1. source[pos] \in {"stmt", "return", "break", "continue"} /\ nest' = nest
    BY <1>5, <1>7 DEF Plain, EmitStmt, EmitReturn, EmitBreak, EmitContinue
  <2>2. Visited(h, source, pos', nest')
    BY <1>4, <1>5, <1>6, <2>1, NestMoves DEF Openers, LoopHeads
  <2> QED BY <1>3, <1>4, <1>5, <1>6, <2>1, <2>2 DEF EmitIf, EmitBranch, EmitEndIf,
          EmitEndLoop, EmitLoop, LoopHeads
<1>8. CASE EmitIf
  <2>1. source[pos] = "if" /\ nest' = Append(nest, pos)
    BY <1>5, <1>8 DEF EmitIf
  <2>2. Visited(h, source, pos', nest')
    BY <1>4, <1>5, <1>6, <2>1, NestMoves DEF Openers
  <2> QED BY <1>3, <1>4, <1>5, <1>6, <2>1, <2>2 DEF Plain, EmitStmt, EmitReturn,
          EmitBreak, EmitContinue, EmitBranch, EmitEndIf, EmitEndLoop, EmitLoop, LoopHeads
<1>9. CASE EmitBranch
  <2>1. source[pos] \in {"elif", "else"} /\ nest' = nest
    BY <1>5, <1>9 DEF EmitBranch
  <2>2. Visited(h, source, pos', nest')
    BY <1>4, <1>5, <1>6, <2>1, NestMoves DEF Openers, LoopHeads
  <2> QED BY <1>3, <1>4, <1>5, <1>6, <2>1, <2>2 DEF Plain, EmitStmt, EmitReturn,
          EmitBreak, EmitContinue, EmitIf, EmitEndIf, EmitEndLoop, EmitLoop, LoopHeads
<1>10. CASE EmitEndIf \/ EmitEndLoop
  <2>1. source[pos] = "end" /\ nest' = Shorter(nest)
    BY <1>5, <1>10 DEF EmitEndIf, EmitEndLoop
  <2>2. Visited(h, source, pos', nest') /\ nest # <<>>
    BY <1>4, <1>5, <1>6, <2>1, NestMoves
  <2>3. /\ EmitEndIf => source[Last(nest)] = "if"
        /\ EmitEndLoop => source[Last(nest)] \in LoopHeads
    BY DEF EmitEndIf, EmitEndLoop
  <2> QED BY <1>3, <1>4, <1>5, <1>6, <2>1, <2>2, <2>3 DEF Plain, EmitStmt, EmitReturn,
          EmitBreak, EmitContinue, EmitIf, EmitBranch, EmitLoop, LoopHeads
<1>11. CASE EmitLoop
  <2>1. source[pos] \in LoopHeads /\ nest' = Append(nest, pos)
    BY <1>5, <1>11 DEF EmitLoop
  <2>2. Visited(h, source, pos', nest')
    BY <1>4, <1>5, <1>6, <2>1, NestMoves DEF Openers
  <2> QED BY <1>3, <1>4, <1>5, <1>6, <2>1, <2>2 DEF Plain, EmitStmt, EmitReturn,
          EmitBreak, EmitContinue, EmitIf, EmitBranch, EmitEndIf, EmitEndLoop, LoopHeads
<1> QED BY <1>7, <1>8, <1>9, <1>10, <1>11 DEF Visit

(* All steps, and what the ones that visit nothing do.                     *)
LEMMA StepKinds ==
  ASSUME Base, [Next]_vars
  PROVE  \/ UNCHANGED vars
         \/ \E op \in Op : Write(op)
         \/ BeginEmit
         \/ Visit
         \/ EmitEndFunction
         \/ RunStep
BY DEF Next, Visit, Plain

(* The place of the visitors is inductive.                                 *)
LEMMA BaseInit == Init => Base
<1> SUFFICES ASSUME Init PROVE Base
  OBVIOUS
<1>1. Nesting
  <2>1. PICK h : Legible(h, <<>>) /\ h[0] = <<>>
    BY NothingWritten
  <2>2. source = <<>> /\ nest = <<>> /\ pc = "writing" /\ Len(source) = 0
    BY DEF Init
  <2> QED BY <2>1, <2>2 DEF Nesting
<1> QED BY <1>1 DEF Init, Base, Quiet, Phases

(* So it is in every state.                                                *)
LEMMA BaseStep == Base /\ [Next]_vars => Base'
<1> SUFFICES ASSUME Base, [Next]_vars PROVE Base'
  OBVIOUS
<1>1. CASE UNCHANGED vars
  BY <1>1 DEF vars, emission, Base, Nesting, Quiet
<1>2. ASSUME NEW op \in Op, Write(op) PROVE Base'
  <2>1. Nesting' /\ pc' = "writing"
    BY <1>2, WriteNests
  <2>2. Quiet'
    BY <1>2 DEF Base, Write, Quiet
  <2> QED BY <2>1, <2>2 DEF Base, Phases
<1>3. CASE BeginEmit
  <2>1. PICK h : Legible(h, source) /\ nest = h[Len(source)]
    BY <1>3 DEF BeginEmit, Base, Nesting
  <2>2. Visited(h, source, 1, nest)
    <3>1. h[Len(source)] = <<>> /\ h[0] = <<>> /\ nest = <<>>
      BY <1>3, <2>1 DEF BeginEmit, Legible, IsHistory
    <3>2. 1 \in 1..(Len(source) + 1) /\ 1 - 1 = 0
      BY <2>1, LegibleFacts
    <3> QED BY <3>1, <3>2 DEF Visited
  <2>3. pos' = 1 /\ nest' = nest /\ source' = source /\ pc' = "emitting"
    BY <1>3 DEF BeginEmit, Base, Quiet, emission
  <2>4. Nesting'
    BY <2>1, <2>2, <2>3, NestingIntro
  <2> QED BY <2>3, <2>4 DEF Base, Quiet, Phases
<1>4. CASE Visit
  <2>1. /\ pc = "emitting" /\ pc' = "emitting" /\ source' = source
        /\ \E h : Legible(h, source) /\ Visited(h, source, pos', nest')
    BY <1>4, VisitMoves
  <2>2. Nesting'
    BY <2>1, NestingIntro
  <2> QED BY <2>1, <2>2 DEF Base, Quiet, Phases
<1>5. CASE EmitEndFunction \/ RunStep
  <2>1. /\ pc # "writing" /\ pc' \in {"running", "returned", "malformed"}
        /\ source' = source /\ pos' = pos /\ nest' = nest
    BY <1>5 DEF EmitEndFunction, RunStep, RunEvaluate, RunBranch, RunReturn, Running,
       emission
  <2>2. PICK h : Legible(h, source) /\ Visited(h, source, pos, nest)
    BY <2>1, NestingElim DEF Base
  <2>3. Nesting'
    BY <2>1, <2>2, NestingIntro
  <2> QED BY <2>1, <2>3 DEF Base, Quiet, Phases
<1> QED BY <1>1, <1>2, <1>3, <1>4, <1>5, StepKinds

-----------------------------------------------------------------------------
(* The builder stands in the block where the list of statements began, or  *)
(* in the last block of a construct of that list.                          *)
HomeOf(s, n, b) ==
  IF n = <<>> THEN Entry
  ELSE IF s[Last(n)] = "if" THEN <<"branch", Last(b)>>
       ELSE <<"loop_body", Last(n)>>
HasEnded(s, i, p) == EndIn(s, i) \in 1..(p - 1)
AtHome(s, n, b, i, p) ==
  \/ i = HomeOf(s, n, b)
  \/ /\ i[1] \in {"endif", "loop_end"}
     /\ HasEnded(s, i[2], p)
     /\ \A j \in Range(n) : j < i[2]

Placement ==
  pc = "emitting" =>
    /\ branch \in Seq(Nat) /\ Len(branch) = Len(nest)
    /\ AtHome(source, nest, branch, insert, pos)

(* What has ended stays so.                                                *)
LEMMA EndedLater ==
  ASSUME NEW s, NEW i, NEW p \in Nat, HasEnded(s, i, p)
  PROVE  HasEnded(s, i, p + 1)
<1>1. EndIn(s, i) \in 1..(p - 1)
  BY DEF HasEnded
<1>2. PICK e \in Nat : e = EndIn(s, i) /\ e \in 1..(p - 1)
  BY <1>1
<1>3. e \in 1..(p + 1 - 1)
  BY <1>2
<1> QED BY <1>2, <1>3 DEF HasEnded

(* Every visitor leaves it there.                                          *)
LEMMA PlacementStep == Base /\ Placement /\ [Next]_vars => Placement'
<1> SUFFICES ASSUME Base, Placement, [Next]_vars PROVE Placement'
  OBVIOUS
<1>1. CASE UNCHANGED vars
  BY <1>1 DEF vars, emission, Placement
<1>2. ASSUME NEW op \in Op, Write(op) PROVE Placement'
  BY <1>2 DEF Write, Placement
<1>3. CASE BeginEmit
  <2>1. /\ nest' = <<>> /\ branch' = <<>> /\ insert' = Entry
    BY <1>3 DEF BeginEmit, Base, Quiet, emission
  <2> QED BY <2>1 DEF Placement, AtHome, HomeOf
<1>4. CASE Visit
  <2>1. /\ pc = "emitting" /\ source' = source /\ pos' = pos + 1 /\ pos \in DOMAIN source
        /\ Plain => source[pos] \in {"stmt", "return", "break", "continue"}
        /\ EmitIf => source[pos] = "if"
        /\ EmitBranch => source[pos] \in {"elif", "else"}
        /\ EmitEndIf \/ EmitEndLoop => source[pos] = "end" /\ nest # <<>>
        /\ EmitLoop => source[pos] \in LoopHeads
    BY <1>4, VisitMoves
  <2>2. PICK h : Legible(h, source) /\ Visited(h, source, pos, nest)
    BY <2>1, NestingElim DEF Base
  <2>3. pos \in Nat /\ nest \in Seq(Nat)
    BY <2>2, NestFacts
  <2>4. /\ branch \in Seq(Nat) /\ Len(branch) = Len(nest)
        /\ AtHome(source, nest, branch, insert, pos)
    BY <2>1 DEF Placement
  <2>5. CASE Plain
    <3>1. nest' = nest /\ branch' = branch /\ insert' = insert
      BY <2>5 DEF Plain, EmitStmt, EmitReturn, EmitBreak, EmitContinue
    <3>3. AtHome(source, nest, branch, insert, pos + 1)
      <4>1. CASE insert = HomeOf(source, nest, branch)
        BY <4>1 DEF AtHome
      <4>2. CASE insert # HomeOf(source, nest, branch)
        <5>1. HasEnded(source, insert[2], pos)
          BY <2>4, <4>2 DEF AtHome
        <5>2. HasEnded(source, insert[2], pos + 1)
          BY <2>3, <5>1, EndedLater
        <5> QED BY <2>4, <4>2, <5>2 DEF AtHome
      <4> QED BY <4>1, <4>2
    <3> QED BY <2>1, <2>4, <3>1, <3>3 DEF Placement
  <2>6. CASE EmitIf \/ EmitLoop
    <3>1. /\ nest' = Append(nest, pos) /\ branch' = Append(branch, pos)
          /\ insert' = IF source[pos] = "if" THEN <<"branch", pos>>
                       ELSE <<"loop_body", pos>>
      BY <2>1, <2>6 DEF EmitIf, EmitLoop, LoopHeads
    <3>2. /\ branch' \in Seq(Nat) /\ Len(branch') = Len(nest') /\ nest' # <<>>
          /\ Last(nest') = pos /\ Last(branch') = pos
      BY SMTT(30), <2>3, <2>4, <3>1 DEF Last
    <3> QED BY <2>1, <3>1, <3>2 DEF Placement, AtHome, HomeOf
  <2>7. CASE EmitBranch
    <3>1. /\ nest' = nest /\ branch' = [branch EXCEPT ![Len(branch)] = pos]
          /\ insert' = <<"branch", pos>>
      BY <2>7 DEF EmitBranch
    <3>2. nest # <<>> /\ source[Last(nest)] = "if"
      BY <2>1, <2>2, <2>7, BranchFound
    <3>3. Len(branch) \in DOMAIN branch
      BY <2>3, <2>4, <3>2
    <3>4. branch' \in Seq(Nat) /\ Len(branch') = Len(nest') /\ Last(branch') = pos
      BY <2>3, <2>4, <3>1, <3>3 DEF Last
    <3> QED BY <2>1, <3>1, <3>2, <3>4 DEF Placement, AtHome, HomeOf
  <2>8. CASE EmitEndIf \/ EmitEndLoop
    <3>1. PICK i : i = Last(nest)
      OBVIOUS
    <3>2. /\ insert' = <<"endif", i>> \/ insert' = <<"loop_end", i>>
          /\ nest' = Shorter(nest) /\ branch' = Shorter(branch)
      BY <2>8, <3>1 DEF EmitEndIf, EmitEndLoop
    <3>3. /\ i \in Nat /\ Shorter(nest) \in Seq(Nat) /\ Len(Shorter(nest)) = Len(nest) - 1
          /\ Range(Shorter(nest)) = Range(nest) \ {i}
          /\ \A j \in Range(nest) : j \in Nat /\ j <= i
      BY <2>1, <2>2, <2>8, <3>1, LastOpener
    <3>4. \A j \in Range(nest') : j < i
      BY <3>2, <3>3
    <3>5. HasEnded(source, i, pos + 1)
      <4>1. EndIn(source, i) = pos
        BY <2>1, <2>2, <2>8, <3>1, EndFound
      <4>2. pos \in 1..(pos + 1 - 1)
        <5>1. pos \in 1..Len(source)
          BY <2>1, <2>2, LegibleFacts
        <5> QED BY <2>3, <5>1
      <4> QED BY <4>1, <4>2 DEF HasEnded
    <3>6. branch' \in Seq(Nat) /\ Len(branch') = Len(nest')
      <4>1. PICK b \in Nat : b = Len(nest) /\ b # 0
        BY <2>1, <2>3, <2>8
      <4>2. PICK l \in Nat : l = b - 1 /\ l \in 0..b
        BY <4>1
      <4>3. Shorter(branch) = SubSeq(branch, 1, l) /\ l \in 0..Len(branch)
        BY <2>4, <4>1, <4>2 DEF Shorter
      <4>4. Shorter(branch) \in Seq(Nat) /\ Len(Shorter(branch)) = l
        BY <2>4, <4>3, FirstOf
      <4> QED BY <3>2, <3>3, <4>1, <4>2, <4>4
    <3>7. AtHome(source, nest', branch', insert', pos + 1)
      <4>1. insert'[1] \in {"endif", "loop_end"} /\ insert'[2] = i
        BY <3>2
      <4> QED BY <3>4, <3>5, <4>1 DEF AtHome
    <3> QED BY <2>1, <3>6, <3>7 DEF Placement
  <2> QED BY <1>4, <2>5, <2>6, <2>7, <2>8 DEF Visit
<1>5. CASE EmitEndFunction \/ RunStep
  BY <1>5 DEF EmitEndFunction, RunStep, RunEvaluate, RunBranch, RunReturn, Running,
     Placement
<1> QED BY <1>1, <1>2, <1>3, <1>4, <1>5, StepKinds

(* The visitors leave the builder where the next item belongs: in the      *)
(* block of the list of statements being visited, or in the last block of  *)
(* a construct of that list that has ended, for bodies of any length.      *)
THEOREM BuilderAtHome == Spec => []InsertAtHome
<1>1. Init => Base /\ Placement
  BY BaseInit DEF Init, Placement
<1>2. Base /\ Placement /\ [Next]_vars => (Base /\ Placement)'
  BY BaseStep, PlacementStep
<1>3. Base /\ Placement => InsertAtHome
  <2> SUFFICES ASSUME Base, Placement, pc = "emitting"
               PROVE  \/ insert = Home
                      \/ /\ insert[1] \in {"endif", "loop_end"}
                         /\ EndOf(insert[2]) < pos
                         /\ \A i \in Range(nest) : i < insert[2]
    BY DEF InsertAtHome
  <2>1. AtHome(source, nest, branch, insert, pos)
    BY DEF Placement
  <2>2. pos \in Nat
    BY NestingElim, NestFacts DEF Base
  <2>3. Home = HomeOf(source, nest, branch)
    BY DEF Home, HomeOf
  <2>4. EndOf(insert[2]) = EndIn(source, insert[2])
    BY SameCounts
  <2>5. EndIn(source, insert[2]) \in 1..(pos - 1) => EndIn(source, insert[2]) < pos
    BY <2>2
  <2> QED BY <2>1, <2>3, <2>4, <2>5 DEF AtHome, HasEnded
<1> QED BY <1>1, <1>2, <1>3, PTL DEF Spec

-----------------------------------------------------------------------------
(* Code: the instructions of a block.  It may have its terminator at the   *)
(* end, none at all, or one that is not at the end.                        *)
IsCode(c) == \E S : c \in Seq(S)
Done(c) == c # <<>> /\ \A k \in DOMAIN c : IsTerminator(c[k]) <=> k = Len(c)
Straight(c) == \A k \in DOMAIN c : ~IsTerminator(c[k])
Ended(c) == c # <<>> /\ IsTerminator(Last(c))
Cut(c) == \E k \in DOMAIN c : IsTerminator(c[k]) /\ k # Len(c)

(* What is appended decides how the code ends.                             *)
LEMMA Glued ==
  ASSUME NEW c, IsCode(c), NEW t, IsCode(t)
  PROVE  /\ IsCode(c \o t)
         /\ Straight(c) /\ Done(t) => Done(c \o t)
         /\ Straight(c) /\ Straight(t) => Straight(c \o t)
         /\ Ended(c) /\ t # <<>> => Cut(c \o t)
         /\ Cut(c) => Cut(c \o t)
         /\ Ended(t) => Ended(c \o t)
         /\ t # <<>> => c \o t # <<>>
         /\ t = <<>> => c \o t = c
         /\ c = <<>> => c \o t = t
<1>1. PICK S : c \in Seq(S)
  BY DEF IsCode
<1>2. PICK T : t \in Seq(T)
  BY DEF IsCode
<1>3. c \in Seq(S \cup T) /\ t \in Seq(S \cup T)
  BY <1>1, <1>2, SeqWider
<1>4. PICK g \in Seq(S \cup T) : g = c \o t
  <2>1. c \o t \in Seq(S \cup T)
    BY <1>3
  <2> QED BY <2>1
<1>5. PICK a, b \in Nat : a = Len(c) /\ b = Len(t)
  BY <1>3
<1>6. DOMAIN c = 1..a /\ DOMAIN t = 1..b
  BY <1>3, <1>5
<1>7. Len(g) = a + b /\ DOMAIN g = 1..(a + b)
  BY <1>3, <1>4, <1>5
<1>8. \A k \in 1..a : g[k] = c[k]
  BY <1>3, <1>4, <1>5
<1>9. \A k \in 1..b : g[a + k] = t[k]
  BY <1>3, <1>4, <1>5
<1>10. \A k \in 1..(a + b) : k \in 1..a \/ \E j \in 1..b : k = a + j
  <2> SUFFICES ASSUME NEW k \in 1..(a + b), k \notin 1..a
               PROVE  \E j \in 1..b : k = a + j
    OBVIOUS
  <2>1. k - a \in 1..b /\ k = a + (k - a)
    OBVIOUS
  <2> QED BY <2>1
<1>11. (c = <<>> <=> a = 0) /\ (t = <<>> <=> b = 0) /\ (g = <<>> <=> a + b = 0)
  BY <1>3, <1>4, <1>5, <1>7
<1>12. Straight(c) /\ Done(t) => Done(g)
  <2> SUFFICES ASSUME Straight(c), Done(t) PROVE Done(g)
    OBVIOUS
  <2>1. b # 0 /\ \A k \in 1..b : IsTerminator(t[k]) <=> k = b
    BY <1>5, <1>6, <1>11 DEF Done
  <2>2. \A k \in 1..a : ~IsTerminator(g[k]) /\ k # a + b
    BY <1>6, <1>8, <2>1 DEF Straight
  <2>3. \A k \in 1..(a + b) : IsTerminator(g[k]) <=> k = a + b
    <3> SUFFICES ASSUME NEW k \in 1..(a + b), k \notin 1..a
                 PROVE  IsTerminator(g[k]) <=> k = a + b
      BY <2>2
    <3>1. PICK j \in 1..b : k = a + j
      BY <1>10
    <3>2. k = a + b <=> j = b
      BY <3>1
    <3>3. g[k] = t[j]
      BY <1>9, <3>1
    <3> QED BY <2>1, <3>2, <3>3
  <2>4. g # <<>>
    BY <1>11, <2>1
  <2> QED BY <1>7, <2>3, <2>4 DEF Done
<1>13. Straight(c) /\ Straight(t) => Straight(g)
  <2> SUFFICES ASSUME Straight(c), Straight(t), NEW k \in 1..(a + b)
               PROVE  ~IsTerminator(g[k])
    BY <1>7 DEF Straight
  <2>1. CASE k \in 1..a
    BY <1>6, <1>8, <2>1 DEF Straight
  <2>2. CASE k \notin 1..a
    <3>1. PICK j \in 1..b : k = a + j
      BY <1>10, <2>2
    <3>2. g[k] = t[j]
      BY <1>9, <3>1
    <3> QED BY <1>6, <3>2 DEF Straight
  <2> QED BY <2>1, <2>2
<1>14. Ended(c) /\ t # <<>> => Cut(g)
  <2> SUFFICES ASSUME Ended(c), b # 0 PROVE Cut(g)
    BY <1>11
  <2>1. a # 0 /\ IsTerminator(c[a])
    BY <1>5, <1>11 DEF Ended, Last
  <2>2. a \in 1..a /\ a \in 1..(a + b) /\ a # a + b
    BY <2>1
  <2> QED BY <1>7, <1>8, <2>1, <2>2 DEF Cut
<1>15. Cut(c) => Cut(g)
  <2> SUFFICES ASSUME NEW k \in 1..a, IsTerminator(c[k]), k # a PROVE Cut(g)
    BY <1>5, <1>6 DEF Cut
  <2>1. k \in 1..(a + b) /\ k # a + b
    OBVIOUS
  <2> QED BY <1>7, <1>8, <2>1 DEF Cut
<1>16. Ended(t) => Ended(g)
  <2> SUFFICES ASSUME Ended(t) PROVE Ended(g)
    OBVIOUS
  <2>1. b # 0 /\ IsTerminator(t[b])
    BY <1>5, <1>11 DEF Ended, Last
  <2>2. b \in 1..b /\ g[a + b] = t[b]
    BY <1>9, <2>1
  <2> QED BY <1>7, <1>11, <2>1, <2>2 DEF Ended, Last
<1>17. t # <<>> => g # <<>>
  BY <1>11
<1>18. (t = <<>> => g = c) /\ (c = <<>> => g = t)
  BY <1>3, <1>4
<1>19. IsCode(g)
  BY DEF IsCode
<1> QED BY <1>4, <1>12, <1>13, <1>14, <1>15, <1>16, <1>17, <1>18, <1>19

(* Code of one or two instructions.                                        *)
LEMMA ShortCode ==
  /\ IsCode(<<>>) /\ Straight(<<>>)
  /\ \A x : /\ IsCode(<<x>>) /\ <<x>> # <<>>
            /\ IsTerminator(x) => Done(<<x>>) /\ Ended(<<x>>)
            /\ ~IsTerminator(x) => Straight(<<x>>)
  /\ \A x, y : /\ IsCode(<<x, y>>) /\ <<x, y>> # <<>>
               /\ ~IsTerminator(x) /\ IsTerminator(y) => Done(<<x, y>>) /\ Ended(<<x, y>>)
<1>1. IsCode(<<>>) /\ Straight(<<>>)
  <2>1. <<>> \in Seq({})
    OBVIOUS
  <2>2. IsCode(<<>>)
    BY <2>1 DEF IsCode
  <2> QED BY <2>2 DEF Straight
<1>2. ASSUME NEW x
      PROVE  /\ IsCode(<<x>>) /\ <<x>> # <<>>
             /\ IsTerminator(x) => Done(<<x>>) /\ Ended(<<x>>)
             /\ ~IsTerminator(x) => Straight(<<x>>)
  <2>1. PICK c : c = <<x>>
    OBVIOUS
  <2>2. c \in Seq({x}) /\ Len(c) = 1 /\ DOMAIN c = {1} /\ c[1] = x /\ c # <<>>
    BY <2>1
  <2>3. IsCode(c)
    BY <2>2 DEF IsCode
  <2> QED BY <2>1, <2>2, <2>3 DEF Done, Ended, Straight, Last
<1>3. ASSUME NEW x, NEW y
      PROVE  /\ IsCode(<<x, y>>) /\ <<x, y>> # <<>>
             /\ ~IsTerminator(x) /\ IsTerminator(y)
                  => Done(<<x, y>>) /\ Ended(<<x, y>>)
  <2>1. PICK c : c = <<x, y>>
    OBVIOUS
  <2>2. /\ c \in Seq({x, y}) /\ Len(c) = 2 /\ DOMAIN c = {1, 2} /\ c[1] = x /\ c[2] = y
        /\ c # <<>>
    BY <2>1
  <2>3. IsCode(c)
    BY <2>2 DEF IsCode
  <2> QED BY <2>1, <2>2, <2>3 DEF Done, Ended, Last
<1> QED BY <1>1, <1>2, <1>3

(* Whether code has its terminator shows at its last instruction.          *)
LEMMA LastShows ==
  ASSUME NEW c, IsCode(c)
  PROVE  /\ Done(c) => Ended(c)
         /\ Straight(c) => ~Ended(c)
         /\ Cut(c) => ~Done(c)
<1>1. PICK S : c \in Seq(S)
  BY DEF IsCode
<1>2. PICK a \in Nat : a = Len(c) /\ DOMAIN c = 1..a /\ (c # <<>> => a \in 1..a)
  <2>1. PICK a \in Nat : a = Len(c)
    BY <1>1
  <2>2. DOMAIN c = 1..a
    BY <1>1, <2>1
  <2>3. c # <<>> => a # 0
    BY <1>1, <2>1
  <2> QED BY <2>1, <2>2, <2>3
<1> QED BY <1>2 DEF Done, Ended, Straight, Cut, Last

(* The instructions that are terminators.                                  *)
LEMMA Terminators ==
  /\ \A b : IsTerminator(Br(b))
  /\ \A b, c : IsTerminator(CondBr(b, c))
  /\ IsTerminator(Ret)
  /\ \A part, p : ~IsTerminator(Run(part, p))
BY DEF IsTerminator, Br, CondBr, Ret, Run

(* The code of a branch's condition.                                       *)
LEMMA ConditionDone ==
  ASSUME NEW i, NEW b
  PROVE  Done(Condition(i, b)) /\ IsCode(Condition(i, b))
<1>1. \E c, d : \/ Condition(i, b) = <<Br(c)>>
                \/ Condition(i, b) = <<Run("cond", b), CondBr(c, d)>>
  BY DEF Condition
<1> QED BY <1>1, ShortCode, Terminators

-----------------------------------------------------------------------------
(* What the items before p say about the layout: one of them follows a     *)
(* jump, none is a reason for a malformed function, the last is a jump.    *)
FollowsIn(s, p) ==
  p > 1 /\ s[p - 1] \in Jumps /\ s[p] \in {"stmt", "if"} \cup Jumps
AsksIn(s, p) ==
  /\ s[p] \in {"elif", "else", "end"} \cup LoopHeads
  /\ p = 1 \/ s[p - 1] \in Openers \cup {"elif", "else", "end"}

Followed(s, p) == \E q \in 1..(p - 1) : FollowsIn(s, q)
Clear(s, p) == \A q \in 1..(p - 1) : ~FollowsIn(s, q) /\ ~AsksIn(s, q)
Jumped(s, p) == p > 1 /\ s[p - 1] \in Jumps

(* The item of the block b stands before p.                                *)
Past(b, p) == b[2] \in 0..(p - 1)

(* One item further.                                                       *)
LEMMA Further ==
  ASSUME NEW s, NEW p \in Nat, p # 0
  PROVE  /\ Followed(s, p + 1) <=> Followed(s, p) \/ FollowsIn(s, p)
         /\ Clear(s, p + 1) <=> Clear(s, p) /\ ~FollowsIn(s, p) /\ ~AsksIn(s, p)
         /\ Jumped(s, p + 1) <=> s[p] \in Jumps
         /\ \A b : Past(b, p + 1) <=> Past(b, p) \/ b[2] = p
         /\ \A b : b[2] = p => ~Past(b, p)
<1>1. \A q : q \in 1..(p + 1 - 1) <=> q \in 1..(p - 1) \/ q = p
  OBVIOUS
<1>2. \A q : q \in 0..(p + 1 - 1) <=> q \in 0..(p - 1) \/ q = p
  OBVIOUS
<1>3. p + 1 - 1 = p /\ p + 1 > 1 /\ p \notin 0..(p - 1)
  OBVIOUS
<1>4. Followed(s, p + 1) <=> Followed(s, p) \/ FollowsIn(s, p)
  BY <1>1 DEF Followed
<1>5. Clear(s, p + 1) <=> Clear(s, p) /\ ~FollowsIn(s, p) /\ ~AsksIn(s, p)
  BY <1>1 DEF Clear
<1>6. Jumped(s, p + 1) <=> s[p] \in Jumps
  BY <1>3 DEF Jumped
<1>7. \A b : Past(b, p + 1) <=> Past(b, p) \/ b[2] = p
  BY <1>2 DEF Past
<1>8. \A b : b[2] = p => ~Past(b, p)
  BY <1>3 DEF Past
<1> QED BY <1>4, <1>5, <1>6, <1>7, <1>8

(* If p is no reason itself, how the block that p is laid out in ends.     *)
LEMMA BeforeIt ==
  ASSUME NEW s \in Seq(Op), NEW p \in DOMAIN s
  PROVE  /\ ~FollowsIn(s, p) /\ s[p] \in {"stmt", "if"} \cup Jumps => ~Jumped(s, p)
         /\ ~AsksIn(s, p) /\ s[p] \in {"elif", "else", "end"} \cup LoopHeads
              => p > 1 /\ (Jumped(s, p) \/ s[p - 1] = "stmt")
<1>1. ~FollowsIn(s, p) /\ s[p] \in {"stmt", "if"} \cup Jumps => ~Jumped(s, p)
  BY DEF FollowsIn, Jumped
<1>2. ASSUME ~AsksIn(s, p), s[p] \in {"elif", "else", "end"} \cup LoopHeads
      PROVE  p > 1 /\ (Jumped(s, p) \/ s[p - 1] = "stmt")
  <2>1. p # 1 /\ s[p - 1] \notin Openers \cup {"elif", "else", "end"}
    BY <1>2 DEF AsksIn
  <2>2. p > 1 /\ p - 1 \in DOMAIN s
    BY <2>1
  <2>3. s[p - 1] \in AllOps
    BY <2>2, OpAssumption
  <2> QED BY <2>1, <2>2, <2>3 DEF AllOps, Jumped, Jumps, Openers, LoopHeads
<1> QED BY <1>1, <1>2

-----------------------------------------------------------------------------
(* The blocks.  Each is created for an item of the right kind; before the  *)
(* visit of p, some of them wait for a later visitor: the blocks of later  *)
(* branches, and the last blocks of the constructs around p.               *)
RoleOf(s, b) ==
  /\ b \in Roles \X Nat
  /\ b[1] \in {"cond", "branch"} => b[2] \in DOMAIN s
  /\ b[1] = "endif" => s[b[2]] = "if"
  /\ b[1] \in {"iter", "loop_end"} => s[b[2]] \in LoopHeads
Waits(n, p, b) ==
  \/ b[1] \in {"cond", "branch"} /\ ~Past(b, p)
  \/ b[1] \in {"endif", "iter", "loop_end"} /\ b[2] \in Range(n)
HasBlocks(s, k, d) ==
  /\ s[k] = "if" => <<"endif", k>> \in d /\ {"cond", "branch"} \X BranchesIn(s, k) \subseteq d
  /\ s[k] \in LoopHeads => {"predicate", "iter", "loop_end"} \X {k} \subseteq d
Here == {"func_entry", "branch", "endif", "loop_body", "loop_end"}

(* What a block that waits holds, and where the builder is.                *)
Laid(s, n, p, bs, i) ==
  /\ \A b \in DOMAIN bs : /\ RoleOf(s, b) /\ IsCode(bs[b])
                          /\ ~Past(b, p) => s[b[2]] \in {"elif", "else"}
                          /\ Waits(n, p, b) => bs[b] = <<>>
  /\ i \in DOMAIN bs /\ i[1] \in Here /\ Past(i, p) /\ ~Waits(n, p, i)
  /\ \A k \in Range(n) : HasBlocks(s, k, DOMAIN bs)

(* After a jump the block ends; what follows it is behind a terminator.    *)
Torn(s, p, bs, i) ==
  /\ Jumped(s, p) => Ended(bs[i])
  /\ Followed(s, p) => \E b \in DOMAIN bs : Cut(bs[b])

(* Without a reason against it the blocks that do not wait are done, the   *)
(* one of the builder excepted, which has room unless a jump came last.    *)
Whole(s, n, p, bs, i) ==
  Clear(s, p) =>
    /\ IF Jumped(s, p) THEN Done(bs[i]) ELSE Straight(bs[i])
    /\ p > 1 /\ s[p - 1] = "stmt" => bs[i] # <<>>
    /\ \A b \in DOMAIN bs : b # i /\ ~Waits(n, p, b) => Done(bs[b])

(* A visitor appends t to the block i of the builder, creates the blocks   *)
(* new and fills those of full.                                            *)
Lays(bs, cs, i, t, new, full) ==
  /\ DOMAIN cs = DOMAIN bs \cup new
  /\ IsCode(t) /\ cs[i] = bs[i] \o t
  /\ i \notin full /\ full \subseteq DOMAIN cs
  /\ \A b \in full : IsCode(cs[b]) /\ Done(cs[b]) /\ (b \in DOMAIN bs => bs[b] = <<>>)
  /\ \A b \in DOMAIN cs :
       b # i /\ b \notin full => cs[b] = IF b \in DOMAIN bs THEN bs[b] ELSE <<>>

(* It appends t and fills the blocks of full, and the builder goes on to   *)
(* the block i2, which is empty.                                           *)
LaysAndLeaves(bs, cs, i, t, full, i2) ==
  (\E new : Lays(bs, cs, i, t, new, full)) /\ cs[i2] = <<>> /\ i2 # i

(* The builder goes on to the block i2, n2 being the openers around the    *)
(* item after p: what waits then has waited before or is new.              *)
Continues(s, n, p, bs, i, n2, cs, i2, new, full) ==
  /\ \A b \in new : RoleOf(s, b) /\ (~Past(b, p + 1) => s[b[2]] \in {"elif", "else"})
  /\ \A b \in DOMAIN cs : Waits(n2, p + 1, b) =>
       b \notin full /\ b # i /\ (b \in DOMAIN bs => Waits(n, p, b))
  /\ i2 \in DOMAIN cs /\ i2[1] \in Here /\ Past(i2, p + 1) /\ ~Waits(n2, p + 1, i2)
  /\ \A k \in Range(n2) : k \in Range(n) \/ HasBlocks(s, k, DOMAIN cs)

(* The layout is kept.                                                     *)
LEMMA LaidKept ==
  ASSUME NEW s, NEW n, NEW p \in Nat, p # 0, NEW bs, NEW i, Laid(s, n, p, bs, i),
         NEW cs, NEW t, NEW new, NEW full, Lays(bs, cs, i, t, new, full),
         NEW n2, NEW i2, Continues(s, n, p, bs, i, n2, cs, i2, new, full)
  PROVE  Laid(s, n2, p + 1, cs, i2)
<1>1. DOMAIN cs = DOMAIN bs \cup new
  BY DEF Lays
<1>2. ASSUME NEW b \in DOMAIN cs
      PROVE  /\ RoleOf(s, b) /\ IsCode(cs[b])
             /\ ~Past(b, p + 1) => s[b[2]] \in {"elif", "else"}
             /\ Waits(n2, p + 1, b) => cs[b] = <<>>
  <2>1. RoleOf(s, b) /\ (~Past(b, p + 1) => s[b[2]] \in {"elif", "else"})
    BY <1>1, Further DEF Laid, Continues
  <2>2. IsCode(cs[b])
    <3>1. CASE b = i
      <4>1. IsCode(bs[i]) /\ IsCode(t) /\ cs[i] = bs[i] \o t
        BY DEF Lays, Laid
      <4>2. PICK c : c = bs[i]
        OBVIOUS
      <4>3. IsCode(c \o t)
        BY <4>1, <4>2, Glued
      <4> QED BY <3>1, <4>1, <4>2, <4>3
    <3>2. CASE b # i
      BY <3>2, ShortCode DEF Lays, Laid
    <3> QED BY <3>1, <3>2
  <2>3. Waits(n2, p + 1, b) => cs[b] = <<>>
    BY DEF Lays, Laid, Continues
  <2> QED BY <2>1, <2>2, <2>3
<1>3. \A k \in Range(n2) : HasBlocks(s, k, DOMAIN cs)
  BY <1>1 DEF Laid, HasBlocks, Continues
<1> QED BY <1>2, <1>3 DEF Laid, Continues

(* So is what a jump does.                                                 *)
LEMMA TornKept ==
  ASSUME NEW s, NEW n, NEW p \in Nat, p # 0, NEW bs, NEW i,
         Laid(s, n, p, bs, i), Torn(s, p, bs, i),
         NEW cs, NEW t, NEW new, NEW full, Lays(bs, cs, i, t, new, full), NEW i2,
         s[p] \in Jumps => Ended(t) /\ i2 = i,
         FollowsIn(s, p) => t # <<>>
  PROVE  Torn(s, p + 1, cs, i2)
<1>1. /\ IsCode(bs[i]) /\ IsCode(t) /\ cs[i] = bs[i] \o t /\ i \in DOMAIN bs
      /\ DOMAIN bs \subseteq DOMAIN cs
  BY DEF Laid, Lays
<1>2. Jumped(s, p + 1) => Ended(cs[i2])
  <2>1. Ended(t) => Ended(cs[i])
    BY <1>1, Glued
  <2>2. Jumped(s, p + 1) <=> s[p] \in Jumps
    BY Further
  <2> QED BY <2>1, <2>2
<1>3. ASSUME FollowsIn(s, p)
      PROVE  \E b \in DOMAIN cs : Cut(cs[b])
  <2>1. Jumped(s, p)
    BY <1>3 DEF FollowsIn, Jumped
  <2>2. Cut(cs[i])
    BY <1>1, <1>3, <2>1, Glued DEF Torn
  <2> QED BY <1>1, <2>2
<1>4. ASSUME NEW b \in DOMAIN bs, Cut(bs[b])
      PROVE  Cut(cs[b])
  <2>1. CASE b = i
    BY <1>1, <1>4, <2>1, Glued
  <2>2. CASE b # i
    <3>1. b \notin full
      BY <1>4 DEF Lays, Cut
    <3> QED BY <1>1, <1>4, <2>2, <3>1 DEF Lays
  <2> QED BY <2>1, <2>2
<1>5. Followed(s, p) => \E b \in DOMAIN cs : Cut(cs[b])
  BY <1>1, <1>4 DEF Torn
<1> QED BY <1>2, <1>3, <1>5, Further DEF Torn

(* And so is that the blocks are done.                                     *)
LEMMA WholeKept ==
  ASSUME NEW s, NEW n, NEW p \in Nat, p # 0, NEW bs, NEW i, Whole(s, n, p, bs, i),
         NEW cs, NEW t, NEW new, NEW full, Lays(bs, cs, i, t, new, full),
         NEW n2, NEW i2,
         Clear(s, p + 1) =>
           /\ IF s[p] \in Jumps THEN Done(cs[i2]) ELSE Straight(cs[i2])
           /\ s[p] = "stmt" => cs[i2] # <<>>
           /\ i2 # i => Done(cs[i]),
         \A b \in DOMAIN cs : b # i2 /\ ~Waits(n2, p + 1, b) =>
           \/ b = i \/ b \in full
           \/ b \in DOMAIN bs /\ ~Waits(n, p, b)
  PROVE  Whole(s, n2, p + 1, cs, i2)
<1> SUFFICES ASSUME Clear(s, p + 1)
             PROVE  /\ IF Jumped(s, p + 1) THEN Done(cs[i2]) ELSE Straight(cs[i2])
                    /\ p + 1 > 1 /\ s[p + 1 - 1] = "stmt" => cs[i2] # <<>>
                    /\ \A b \in DOMAIN cs :
                         b # i2 /\ ~Waits(n2, p + 1, b) => Done(cs[b])
  BY DEF Whole
<1>1. (Jumped(s, p + 1) <=> s[p] \in Jumps) /\ Clear(s, p)
  BY Further
<1>2. p + 1 - 1 = p
  OBVIOUS
<1>3. ASSUME NEW b \in DOMAIN cs, b # i2, ~Waits(n2, p + 1, b)
      PROVE  Done(cs[b])
  <2>1. CASE b = i
    BY <1>3, <2>1
  <2>2. CASE b \in full
    BY <2>2 DEF Lays
  <2>3. CASE b # i /\ b \notin full
    <3>1. b \in DOMAIN bs /\ ~Waits(n, p, b)
      BY <1>3, <2>3
    <3>2. cs[b] = bs[b]
      BY <2>3, <3>1 DEF Lays
    <3> QED BY <1>1, <2>3, <3>1, <3>2 DEF Whole
  <2> QED BY <2>1, <2>2, <2>3
<1> QED BY <1>1, <1>2, <1>3

-----------------------------------------------------------------------------
(* What Emit changes.                                                      *)
Appends(bs, b, x, cs) ==
  /\ DOMAIN cs = DOMAIN bs /\ cs[b] = bs[b] \o x
  /\ \A c \in DOMAIN bs : c # b => cs[c] = bs[c]

(* Emit appends to one block.                                              *)
LEMMA Emitted ==
  ASSUME NEW bs, NEW b \in DOMAIN bs, NEW x
  PROVE  Appends(bs, b, x, Emit(bs, b, x))
BY DEF Emit, Appends

(* What a visitor appends that looks for a terminator first: the block is  *)
(* done if there was something to look at.                                 *)
Jump(terminated, b) == IF terminated THEN <<>> ELSE <<Br(b)>>

(* A jump that looked first leaves the block done.                         *)
LEMMA Looked ==
  ASSUME NEW bs, NEW b \in DOMAIN bs, IsCode(bs[b]), NEW target,
         NEW terminated \in IF bs[b] = <<>> THEN BOOLEAN ELSE {IsTerminator(Last(bs[b]))},
         NEW cs, cs = EmitUnless(terminated, bs, b, <<Br(target)>>)
  PROVE  /\ IsCode(Jump(terminated, target))
         /\ Appends(bs, b, Jump(terminated, target), cs)
         /\ bs[b] # <<>> /\ (Done(bs[b]) \/ Straight(bs[b])) => Done(cs[b])
<1>1. PICK c : c = bs[b]
  OBVIOUS
<1>2. IsCode(c) /\ IsCode(<<Br(target)>>) /\ Done(<<Br(target)>>) /\ IsCode(<<>>)
  BY <1>1, ShortCode, Terminators
<1>3. terminated \in BOOLEAN /\ (c # <<>> => terminated = IsTerminator(Last(c)))
  BY <1>1 DEF IsTerminator
<1>4. CASE terminated
  <2>1. cs = bs /\ Jump(terminated, target) = <<>> /\ c \o <<>> = c
    BY <1>2, <1>4, Glued DEF EmitUnless, Jump
  <2>2. c # <<>> => Ended(c)
    BY <1>3, <1>4 DEF Ended
  <2>3. c # <<>> /\ (Done(c) \/ Straight(c)) => Done(c)
    BY <1>2, <2>2, LastShows
  <2>4. Appends(bs, b, <<>>, cs)
    BY <1>1, <2>1 DEF Appends
  <2> QED BY <1>1, <1>2, <2>1, <2>3, <2>4
<1>5. CASE ~terminated
  <2>1. cs = Emit(bs, b, <<Br(target)>>) /\ Jump(terminated, target) = <<Br(target)>>
    BY <1>5 DEF EmitUnless, Jump
  <2>2. c # <<>> => ~Ended(c)
    BY <1>3, <1>5 DEF Ended
  <2>3. c # <<>> /\ (Done(c) \/ Straight(c)) => Straight(c)
    BY <1>2, <2>2, LastShows
  <2>4. Straight(c) => Done(c \o <<Br(target)>>)
    BY <1>2, Glued
  <2>5. Appends(bs, b, <<Br(target)>>, cs)
    BY <2>1, Emitted
  <2>6. cs[b] = c \o <<Br(target)>>
    BY <1>1, <2>5 DEF Appends
  <2> QED BY <1>1, <1>2, <2>1, <2>3, <2>4, <2>5, <2>6
<1> QED BY <1>3, <1>4, <1>5

-----------------------------------------------------------------------------
(* The layout of the blocks, and that every visitor keeps it.              *)
Layout ==
  pc = "emitting" =>
    /\ Laid(source, nest, pos, blocks, insert)
    /\ Torn(source, pos, blocks, insert)
    /\ Whole(source, nest, pos, blocks, insert)

(* What the proofs about each visitor start from.                          *)
LEMMA Visiting ==
  ASSUME Base, Layout, Visit
  PROVE  /\ pc = "emitting" /\ pc' = "emitting" /\ source' = source /\ pos' = pos + 1
         /\ pos \in Nat /\ pos # 0 /\ pos \in DOMAIN source /\ source \in Seq(Op)
         /\ nest \in Seq(Nat) /\ insert \in DOMAIN blocks /\ IsCode(blocks[insert])
         /\ Laid(source, nest, pos, blocks, insert)
         /\ Torn(source, pos, blocks, insert)
         /\ Whole(source, nest, pos, blocks, insert)
<1>1. /\ pc = "emitting" /\ pc' = "emitting" /\ source' = source /\ pos' = pos + 1
      /\ \E h : Legible(h, source) /\ Visited(h, source, pos, nest)
      /\ pos \in DOMAIN source
  BY VisitMoves
<1>2. PICK h : Legible(h, source) /\ Visited(h, source, pos, nest)
  BY <1>1
<1>3. source \in Seq(Op) /\ pos \in Nat /\ nest \in Seq(Nat)
  BY <1>2, LegibleFacts, NestFacts
<1>4. pos # 0
  BY <1>1, <1>3
<1>5. /\ Laid(source, nest, pos, blocks, insert)
      /\ Torn(source, pos, blocks, insert)
      /\ Whole(source, nest, pos, blocks, insert)
  BY <1>1 DEF Layout
<1>6. insert \in DOMAIN blocks /\ IsCode(blocks[insert])
  BY <1>5 DEF Laid
<1> QED BY <1>1, <1>3, <1>4, <1>5, <1>6

(* A statement or a jump.                                                  *)
LEMMA PlainLays ==
  ASSUME Base, Layout, Plain
  PROVE  Layout'
<1>1. /\ pc = "emitting" /\ pc' = "emitting" /\ source' = source /\ pos' = pos + 1
      /\ pos \in Nat /\ pos # 0 /\ pos \in DOMAIN source /\ source \in Seq(Op)
      /\ nest \in Seq(Nat) /\ insert \in DOMAIN blocks /\ IsCode(blocks[insert])
      /\ Laid(source, nest, pos, blocks, insert)
      /\ Torn(source, pos, blocks, insert)
      /\ Whole(source, nest, pos, blocks, insert)
  BY Visiting DEF Visit
<1>2. source[pos] \in {"stmt", "return", "break", "continue"}
  BY VisitMoves DEF Visit
<1>3. PICK t : /\ blocks' = Emit(blocks, insert, t) /\ insert' = insert /\ nest' = nest
               /\ IsCode(t) /\ t # <<>>
               /\ source[pos] = "stmt" => Straight(t)
               /\ source[pos] \in Jumps => Done(t) /\ Ended(t)
  <2>1. CASE EmitStmt
    <3>1. source[pos] = "stmt"
      BY <2>1 DEF EmitStmt, At
    <3> QED BY <2>1, <3>1, ShortCode, Terminators DEF EmitStmt, Jumps
  <2>2. CASE EmitReturn
    <3>1. source[pos] = "return"
      BY <2>2 DEF EmitReturn, At
    <3> QED BY <2>2, <3>1, ShortCode, Terminators DEF EmitReturn, Jumps
  <2>3. CASE EmitBreak
    <3>1. source[pos] = "break"
      BY <2>3 DEF EmitBreak, At
    <3> QED BY <2>3, <3>1, ShortCode, Terminators DEF EmitBreak, Jumps
  <2>4. CASE EmitContinue
    <3>1. source[pos] = "continue"
      BY <2>4 DEF EmitContinue, At
    <3> QED BY <2>4, <3>1, ShortCode, Terminators DEF EmitContinue, Jumps
  <2> QED BY <2>1, <2>2, <2>3, <2>4 DEF Plain
<1>4. PICK cs : cs = blocks'
  OBVIOUS
<1>5. /\ DOMAIN cs = DOMAIN blocks /\ cs[insert] = blocks[insert] \o t
      /\ \A b \in DOMAIN blocks : b # insert => cs[b] = blocks[b]
  <2>1. Appends(blocks, insert, t, cs)
    BY <1>1, <1>3, <1>4, Emitted
  <2> QED BY <2>1 DEF Appends
<1>6. Lays(blocks, cs, insert, t, {}, {})
  BY <1>3, <1>5 DEF Lays
<1>7. \A b \in DOMAIN blocks : Waits(nest, pos + 1, b) <=> Waits(nest, pos, b)
  <2> SUFFICES ASSUME NEW b \in DOMAIN blocks
               PROVE  Waits(nest, pos + 1, b) <=> Waits(nest, pos, b)
    OBVIOUS
  <2>1. ~Past(b, pos) => source[b[2]] \in {"elif", "else"}
    BY <1>1 DEF Laid
  <2>2. b[2] # pos \/ Past(b, pos)
    BY <1>2, <2>1
  <2>3. Past(b, pos + 1) <=> Past(b, pos)
    BY <1>1, <2>2, Further
  <2> QED BY <2>3 DEF Waits
<1>8. Laid(source, nest, pos + 1, cs, insert)
  <2>1. /\ insert \in DOMAIN cs /\ insert[1] \in Here /\ Past(insert, pos + 1)
        /\ ~Waits(nest, pos + 1, insert) /\ ~Waits(nest, pos, insert)
    BY <1>1, <1>5, <1>7, Further DEF Laid
  <2>2. Continues(source, nest, pos, blocks, insert, nest, cs, insert, {}, {})
    BY <1>5, <1>7, <2>1 DEF Continues
  <2> QED BY <1>1, <1>6, <2>2, LaidKept
<1>9. Torn(source, pos + 1, cs, insert)
  <2>1. /\ pos \in Nat /\ pos # 0
        /\ Laid(source, nest, pos, blocks, insert) /\ Torn(source, pos, blocks, insert)
    BY <1>1
  <2>2. /\ source[pos] \in Jumps => Ended(t) /\ insert = insert
        /\ FollowsIn(source, pos) => t # <<>>
    BY <1>3
  <2> QED BY <1>6, <2>1, <2>2, TornKept
<1>10. Whole(source, nest, pos + 1, cs, insert)
  <2>1. ASSUME Clear(source, pos + 1)
        PROVE  /\ IF source[pos] \in Jumps THEN Done(cs[insert]) ELSE Straight(cs[insert])
               /\ cs[insert] # <<>>
    <3>1. Clear(source, pos) /\ ~Jumped(source, pos)
      BY <1>1, <1>2, <2>1, Further, BeforeIt DEF Jumps
    <3>2. PICK c : c = blocks[insert]
      OBVIOUS
    <3>3. IsCode(c) /\ Straight(c) /\ cs[insert] = c \o t
      BY <1>1, <1>5, <3>1, <3>2 DEF Whole
    <3>4. /\ Straight(t) => Straight(c \o t)
          /\ Done(t) => Done(c \o t)
          /\ c \o t # <<>>
      BY <1>3, <3>3, Glued
    <3> QED BY <1>2, <1>3, <3>3, <3>4 DEF Jumps
  <2> QED BY <1>1, <1>5, <1>6, <1>7, <2>1, WholeKept
<1> QED BY <1>1, <1>3, <1>4, <1>8, <1>9, <1>10 DEF Layout

-----------------------------------------------------------------------------
(* One opener more.                                                        *)
LEMMA RangeGrows ==
  ASSUME NEW n \in Seq(Nat), NEW p \in Nat
  PROVE  Range(Append(n, p)) = Range(n) \cup {p}
<1>1. PICK l \in Nat, m \in Seq(Nat) : l = Len(n) /\ m = Append(n, p)
  <2>1. Len(n) \in Nat /\ Append(n, p) \in Seq(Nat)
    OBVIOUS
  <2> QED BY <2>1
<1>2. DOMAIN n = 1..l /\ DOMAIN m = 1..(l + 1)
  BY <1>1
<1>3. m[l + 1] = p /\ \A k \in 1..l : m[k] = n[k]
  BY <1>1
<1>4. \A k : k \in 1..(l + 1) <=> k \in 1..l \/ k = l + 1
  OBVIOUS
<1> QED BY <1>1, <1>2, <1>3, <1>4 DEF Range

(* Nothing has been created for an item that is not an elif or else before *)
(* its visit.                                                              *)
LEMMA Fresh ==
  ASSUME NEW s, NEW n, NEW p \in Nat, p # 0, NEW bs, NEW i, Laid(s, n, p, bs, i),
         s[p] \notin {"elif", "else"}
  PROVE  \A b \in DOMAIN bs : b[2] # p /\ (Past(b, p + 1) <=> Past(b, p))
<1> SUFFICES ASSUME NEW b \in DOMAIN bs
             PROVE  b[2] # p /\ (Past(b, p + 1) <=> Past(b, p))
  OBVIOUS
<1>1. ~Past(b, p) => s[b[2]] \in {"elif", "else"}
  BY DEF Laid
<1>2. b[2] # p
  BY <1>1, Further
<1> QED BY <1>2, Further

(* The branches of an if are it and elifs and elses behind it.             *)
LEMMA BranchesAre ==
  ASSUME NEW s, NEW h, Legible(h, s), h[Len(s)] = <<>>, NEW i \in Opens(s), i # 0
  PROVE  /\ i \in BranchesIn(s, i)
         /\ \A k \in BranchesIn(s, i) :
              /\ k \in Nat /\ k \in DOMAIN s
              /\ k # i => s[k] \in {"elif", "else"} /\ k \notin 0..(i - 1)
<1>1. PICK l \in Nat : l = Len(s) /\ DOMAIN s = 1..l
  BY LegibleFacts
<1>2. PICK e \in Nat : e = EndIn(s, i) /\ e \in i..l /\ i \in 1..l
  <2>1. i \in 1..l /\ EndIn(s, i) \in i..l
    BY <1>1, EndInIs
  <2> QED BY <2>1
<1>3. ASSUME NEW k \in (i + 1)..(e - 1)
      PROVE  k \in Nat /\ k \in 1..l /\ k \notin 0..(i - 1)
  BY <1>2
<1>4. i \in Nat /\ i \in 1..l
  BY <1>2
<1> QED BY <1>1, <1>2, <1>3, <1>4 DEF BranchesIn

(* What Created adds.                                                      *)
LEMMA CreatedIs ==
  ASSUME NEW new
  PROVE  /\ DOMAIN Created(new) = DOMAIN blocks \cup new
         /\ \A b \in DOMAIN blocks \cup new :
              Created(new)[b] = IF b \in DOMAIN blocks THEN blocks[b] ELSE <<>>
BY DEF Created

(* An if.                                                                  *)
LEMMA IfLays ==
  ASSUME Base, Layout, EmitIf
  PROVE  /\ Layout' /\ insert' = <<"branch", pos>>
         /\ LaysAndLeaves(blocks, blocks', insert, <<Br(<<"cond", pos>>)>>,
                          {<<"cond", pos>>}, insert')
         /\ blocks'[<<"cond", pos>>] = Condition(pos, pos)
<1>1. /\ pc = "emitting" /\ pc' = "emitting" /\ source' = source /\ pos' = pos + 1
      /\ pos \in Nat /\ pos # 0 /\ pos \in DOMAIN source /\ source \in Seq(Op)
      /\ nest \in Seq(Nat) /\ insert \in DOMAIN blocks /\ IsCode(blocks[insert])
      /\ Laid(source, nest, pos, blocks, insert)
      /\ Torn(source, pos, blocks, insert)
      /\ Whole(source, nest, pos, blocks, insert)
  BY Visiting DEF Visit
<1>2. source[pos] = "if"
  BY VisitMoves DEF Visit
<1>3. PICK n : n = Append(nest, pos) /\ nest' = n /\ Range(n) = Range(nest) \cup {pos}
  <2>1. nest' = Append(nest, pos)
    BY DEF EmitIf
  <2> QED BY <1>1, <2>1, RangeGrows
<1> DEFINE cond == <<"cond", pos>>
           home == <<"branch", pos>>
           merge == <<"endif", pos>>
           new == ({"cond", "branch"} \X BranchesIn(source, pos)) \cup {merge}
           t == <<Br(cond)>>
<1>4. PICK d1, d2, d3 : /\ d1 = Created(new) /\ d2 = Emit(d1, insert, t)
                        /\ d3 = Emit(d2, cond, Condition(pos, pos))
                        /\ blocks' = d3 /\ insert' = home
  BY SameCounts DEF EmitIf
<1>5. /\ pos \in BranchesIn(source, pos)
      /\ \A k \in BranchesIn(source, pos) :
           /\ k \in Nat /\ k \in DOMAIN source
           /\ k # pos => source[k] \in {"elif", "else"} /\ k \notin 0..(pos - 1)
  <2>1. PICK h : Legible(h, source) /\ Visited(h, source, pos, nest)
    BY <1>1, NestingElim DEF Base
  <2>2. pos \in Opens(source) /\ h[Len(source)] = <<>>
    BY <1>1, <1>2, <2>1 DEF Opens, Openers, Visited
  <2> QED BY <1>1, <2>1, <2>2, BranchesAre
<1>6. /\ \A b \in DOMAIN blocks : b[2] # pos /\ (Past(b, pos + 1) <=> Past(b, pos))
      /\ Past(insert, pos) /\ insert[1] \in Here /\ ~Waits(nest, pos, insert)
  <2>1. \A b \in DOMAIN blocks : b[2] # pos /\ (Past(b, pos + 1) <=> Past(b, pos))
    BY <1>1, <1>2, Fresh
  <2> QED BY <1>1, <2>1 DEF Laid
<1>7. /\ cond \in new /\ home \in new /\ merge \in new
      /\ cond \notin DOMAIN blocks /\ home \notin DOMAIN blocks /\ merge \notin DOMAIN blocks
      /\ cond # home /\ cond # merge /\ home # merge /\ insert \notin {cond, home, merge}
  BY <1>1, <1>5, <1>6
<1>8. ASSUME NEW b \in new
      PROVE  /\ RoleOf(source, b) /\ (b[1] \in {"cond", "branch"} \/ b = merge)
             /\ b[2] # pos => source[b[2]] \in {"elif", "else"} /\ ~Past(b, pos + 1)
                              /\ b[1] \in {"cond", "branch"}
             /\ b[2] = pos => Past(b, pos + 1)
             /\ b[2] = pos => b \in {cond, home, merge}
  <2>1. CASE b = merge
    BY <1>1, <1>2, <2>1, Further DEF RoleOf, Roles
  <2>2. CASE b # merge
    <3>1. PICK r \in {"cond", "branch"}, k \in BranchesIn(source, pos) : b = <<r, k>>
      BY <2>2
    <3>2. k \in Nat /\ k \in DOMAIN source
      BY <1>5
    <3>3. RoleOf(source, b)
      BY <3>1, <3>2 DEF RoleOf, Roles
    <3>4. k # pos => source[k] \in {"elif", "else"} /\ ~Past(b, pos + 1)
      <4>1. k # pos => source[k] \in {"elif", "else"} /\ ~Past(b, pos)
        BY <1>5, <3>1 DEF Past
      <4> QED BY <1>1, <3>1, <4>1, Further
    <3>5. k = pos => Past(b, pos + 1)
      BY <1>1, <3>1, Further
    <3> QED BY <3>1, <3>3, <3>4, <3>5
  <2> QED BY <2>1, <2>2
<1> HIDE DEF cond, home, merge, new, t
<1>9. /\ DOMAIN d1 = DOMAIN blocks \cup new
      /\ \A b \in DOMAIN d1 : d1[b] = IF b \in DOMAIN blocks THEN blocks[b] ELSE <<>>
  BY <1>4, CreatedIs
<1>10. Appends(d1, insert, t, d2)
  BY <1>1, <1>4, <1>9, Emitted
<1>11. Appends(d2, cond, Condition(pos, pos), d3)
  <2>1. cond \in DOMAIN d2
    BY <1>7, <1>9, <1>10 DEF Appends
  <2> QED BY <1>4, <2>1, Emitted
<1>12. IsCode(t) /\ Done(t) /\ Ended(t) /\ t # <<>>
  BY ShortCode, Terminators DEF t
<1>13. d3[cond] = Condition(pos, pos)
  <2>1. d2[cond] = <<>>
    BY <1>7, <1>9, <1>10 DEF Appends
  <2>2. d3[cond] = <<>> \o Condition(pos, pos)
    BY <1>11, <2>1 DEF Appends
  <2>3. IsCode(Condition(pos, pos)) /\ IsCode(<<>>)
    BY ConditionDone, ShortCode
  <2> QED BY <2>2, <2>3, Glued
<1>14. Lays(blocks, d3, insert, t, new, {cond})
  <2>1. DOMAIN d3 = DOMAIN blocks \cup new
    BY <1>9, <1>10, <1>11 DEF Appends
  <2>2. d3[insert] = blocks[insert] \o t
    <3>1. d3[insert] = d2[insert]
      BY <1>1, <1>7, <1>9, <1>10, <1>11 DEF Appends
    <3>2. d2[insert] = d1[insert] \o t /\ d1[insert] = blocks[insert]
      BY <1>1, <1>9, <1>10 DEF Appends
    <3> QED BY <3>1, <3>2
  <2>3. ASSUME NEW b \in DOMAIN d3, b # insert, b # cond
        PROVE  d3[b] = IF b \in DOMAIN blocks THEN blocks[b] ELSE <<>>
    <3>1. b \in DOMAIN d1 /\ b \in DOMAIN d2
      BY <1>9, <1>10, <2>1 DEF Appends
    <3>2. d3[b] = d2[b] /\ d2[b] = d1[b]
      BY <1>10, <1>11, <2>3, <3>1 DEF Appends
    <3> QED BY <1>9, <3>1, <3>2
  <2>4. IsCode(d3[cond]) /\ Done(d3[cond])
    BY <1>13, ConditionDone
  <2>5. insert # cond /\ cond \in DOMAIN d3 /\ cond \notin DOMAIN blocks
    BY <1>7, <2>1
  <2> QED BY <1>12, <2>1, <2>2, <2>3, <2>4, <2>5 DEF Lays
<1>15. /\ DOMAIN d3 = DOMAIN blocks \cup new
       /\ cond[1] = "cond" /\ cond[2] = pos /\ home[1] = "branch" /\ home[2] = pos
       /\ merge[1] = "endif" /\ merge[2] = pos
  BY <1>14 DEF Lays, cond, home, merge
<1>16. \A b \in DOMAIN blocks : Waits(n, pos + 1, b) <=> Waits(nest, pos, b)
  BY <1>3, <1>6 DEF Waits
<1>17. ASSUME NEW b \in new
       PROVE  Waits(n, pos + 1, b) <=> b # cond /\ b # home
  <2>1. CASE b[2] = pos
    BY <1>3, <1>8, <1>15, <2>1 DEF Waits
  <2>2. CASE b[2] # pos
    BY <1>8, <1>15, <2>2 DEF Waits
  <2> QED BY <2>1, <2>2
<1>18. Laid(source, n, pos + 1, d3, home)
  <2>1. \A b \in new :
          RoleOf(source, b) /\ (~Past(b, pos + 1) => source[b[2]] \in {"elif", "else"})
    BY <1>8
  <2>2. home \in DOMAIN d3 /\ home[1] \in Here /\ Past(home, pos + 1)
        /\ ~Waits(n, pos + 1, home)
    BY <1>7, <1>8, <1>15, <1>17 DEF Here
  <2>3. HasBlocks(source, pos, DOMAIN d3)
    BY <1>2, <1>15 DEF HasBlocks, LoopHeads, new, merge
  <2>4. \A b \in DOMAIN d3 : Waits(n, pos + 1, b) =>
           b \notin {cond} /\ b # insert /\ (b \in DOMAIN blocks => Waits(nest, pos, b))
    <3> SUFFICES ASSUME NEW b \in DOMAIN d3, Waits(n, pos + 1, b)
                 PROVE  /\ b # cond /\ b # insert
                        /\ b \in DOMAIN blocks => Waits(nest, pos, b)
      OBVIOUS
    <3>1. b \in DOMAIN blocks => Waits(nest, pos, b)
      BY <1>16
    <3>2. b # insert
      BY <1>1, <1>6, <3>1
    <3>3. b # cond
      BY <1>7, <1>17
    <3> QED BY <3>1, <3>2, <3>3
  <2>5. Continues(source, nest, pos, blocks, insert, n, d3, home, new, {cond})
    BY <1>3, <2>1, <2>2, <2>3, <2>4 DEF Continues
  <2> QED BY <1>1, <1>14, <2>5, LaidKept
<1>19. Torn(source, pos + 1, d3, home)
  <2>1. source[pos] \notin Jumps
    BY <1>2 DEF Jumps
  <2> QED BY <1>1, <1>12, <1>14, <2>1, TornKept
<1>20. d3[home] = <<>>
  BY <1>7, <1>14, <1>15 DEF Lays
<1>21. Whole(source, n, pos + 1, d3, home)
  <2>1. ASSUME Clear(source, pos + 1)
        PROVE  Done(d3[insert])
    <3>1. Clear(source, pos) /\ ~Jumped(source, pos)
      BY <1>1, <1>2, <2>1, Further, BeforeIt
    <3>2. PICK c : c = blocks[insert]
      OBVIOUS
    <3>3. IsCode(c) /\ Straight(c) /\ d3[insert] = c \o t
      BY <1>1, <1>14, <3>1, <3>2 DEF Whole, Lays
    <3> QED BY <1>12, <3>3, Glued
  <2>2. Straight(d3[home])
    BY <1>20, ShortCode
  <2>3. source[pos] \notin Jumps /\ source[pos] # "stmt"
    BY <1>2 DEF Jumps
  <2>4. \A b \in DOMAIN d3 : b # home /\ ~Waits(n, pos + 1, b) =>
           \/ b = insert \/ b \in {cond}
           \/ b \in DOMAIN blocks /\ ~Waits(nest, pos, b)
    BY <1>15, <1>16, <1>17
  <2> QED BY <1>1, <1>14, <2>1, <2>2, <2>3, <2>4, WholeKept
<1>22. LaysAndLeaves(blocks, d3, insert, t, {cond}, home)
  BY <1>7, <1>14, <1>20 DEF LaysAndLeaves
<1>23. Layout'
  BY <1>1, <1>3, <1>4, <1>18, <1>19, <1>21 DEF Layout
<1> QED BY <1>4, <1>13, <1>22, <1>23 DEF t, cond, home

(* An elif or an else.                                                     *)
LEMMA BranchLays ==
  ASSUME Base, Layout, EmitBranch
  PROVE  /\ Layout' /\ insert' = <<"branch", pos>>
         /\ \E terminated :
              LaysAndLeaves(blocks, blocks', insert,
                            Jump(terminated, <<"endif", Last(nest)>>),
                            {<<"cond", pos>>}, insert')
         /\ blocks'[<<"cond", pos>>] = Condition(Last(nest), pos)
<1>1. /\ pc = "emitting" /\ pc' = "emitting" /\ source' = source /\ pos' = pos + 1
      /\ pos \in Nat /\ pos # 0 /\ pos \in DOMAIN source /\ source \in Seq(Op)
      /\ nest \in Seq(Nat) /\ insert \in DOMAIN blocks /\ IsCode(blocks[insert])
      /\ Laid(source, nest, pos, blocks, insert)
      /\ Torn(source, pos, blocks, insert)
      /\ Whole(source, nest, pos, blocks, insert)
  BY Visiting DEF Visit
<1>2. source[pos] \in {"elif", "else"}
  BY VisitMoves DEF Visit
<1> DEFINE cond == <<"cond", pos>>
           home == <<"branch", pos>>
<1>3. PICK i : i = Last(nest)
  OBVIOUS
<1>4. i \in Range(nest) /\ source[i] = "if" /\ pos \in BranchesIn(source, i)
  <2>1. PICK h : Legible(h, source) /\ Visited(h, source, pos, nest)
    BY <1>1, NestingElim DEF Base
  <2>2. nest # <<>> /\ source[i] = "if" /\ pos \in BranchesIn(source, i)
    BY <1>1, <1>2, <1>3, <2>1, BranchFound
  <2> QED BY <1>3, <2>1, <2>2, LastOpener
<1>5. PICK terminated, d2, d3 :
        /\ terminated \in Terminated(insert)
        /\ d2 = EmitUnless(terminated, blocks, insert, <<Br(<<"endif", i>>)>>)
        /\ d3 = Emit(d2, cond, Condition(i, pos))
        /\ blocks' = d3 /\ insert' = home /\ nest' = nest
  BY <1>3 DEF EmitBranch
<1>6. PICK t : t = Jump(terminated, <<"endif", i>>)
  OBVIOUS
<1>7. /\ IsCode(t) /\ Appends(blocks, insert, t, d2)
      /\ blocks[insert] # <<>> /\ (Done(blocks[insert]) \/ Straight(blocks[insert]))
           => Done(d2[insert])
  BY <1>1, <1>5, <1>6, Looked DEF Terminated
<1>8. /\ Past(insert, pos) /\ insert[1] \in Here /\ ~Waits(nest, pos, insert)
      /\ HasBlocks(source, i, DOMAIN blocks)
  BY <1>1, <1>4 DEF Laid
<1>9. cond \in DOMAIN blocks /\ home \in DOMAIN blocks
  BY <1>4, <1>8 DEF HasBlocks
<1>10. /\ cond[1] = "cond" /\ cond[2] = pos /\ home[1] = "branch" /\ home[2] = pos
       /\ cond # home
  OBVIOUS
<1>11. \A b \in DOMAIN blocks :
         b[1] \in {"cond", "branch"} /\ b[2] = pos => b \in {cond, home}
  <2> SUFFICES ASSUME NEW b \in DOMAIN blocks, b[1] \in {"cond", "branch"}, b[2] = pos
               PROVE  b \in {cond, home}
    OBVIOUS
  <2>1. b \in Roles \X Nat
    BY <1>1 DEF Laid, RoleOf
  <2> QED BY <2>1
<1> HIDE DEF cond, home
<1>12. ~Past(cond, pos) /\ ~Past(home, pos) /\ Past(cond, pos + 1) /\ Past(home, pos + 1)
  BY <1>1, <1>10, Further
<1>13. Waits(nest, pos, cond) /\ Waits(nest, pos, home)
  BY <1>10, <1>12 DEF Waits
<1>14. insert # cond /\ insert # home
  BY <1>8, <1>12
<1>15. blocks[cond] = <<>> /\ blocks[home] = <<>>
  BY <1>1, <1>9, <1>13 DEF Laid
<1>16. Appends(d2, cond, Condition(i, pos), d3)
  <2>1. cond \in DOMAIN d2
    BY <1>7, <1>9 DEF Appends
  <2> QED BY <1>5, <2>1, Emitted
<1>17. d3[cond] = Condition(i, pos)
  <2>1. d2[cond] = <<>>
    BY <1>7, <1>9, <1>14, <1>15 DEF Appends
  <2>2. d3[cond] = <<>> \o Condition(i, pos)
    BY <1>16, <2>1 DEF Appends
  <2>3. IsCode(Condition(i, pos)) /\ IsCode(<<>>)
    BY ConditionDone, ShortCode
  <2> QED BY <2>2, <2>3, Glued
<1>18. Lays(blocks, d3, insert, t, {}, {cond})
  <2>1. DOMAIN d3 = DOMAIN blocks /\ DOMAIN d2 = DOMAIN blocks
    BY <1>7, <1>16 DEF Appends
  <2>2. d3[insert] = blocks[insert] \o t
    <3>1. d3[insert] = d2[insert]
      BY <1>1, <1>14, <1>16, <2>1 DEF Appends
    <3>2. d2[insert] = blocks[insert] \o t
      BY <1>7 DEF Appends
    <3> QED BY <3>1, <3>2
  <2>3. ASSUME NEW b \in DOMAIN d3, b # insert, b # cond
        PROVE  d3[b] = IF b \in DOMAIN blocks THEN blocks[b] ELSE <<>>
    <3>1. d3[b] = d2[b] /\ d2[b] = blocks[b]
      BY <1>7, <1>16, <2>1, <2>3 DEF Appends
    <3> QED BY <2>1, <2>3, <3>1
  <2>4. IsCode(d3[cond]) /\ Done(d3[cond])
    BY <1>17, ConditionDone
  <2> QED BY <1>7, <1>9, <1>14, <1>15, <2>1, <2>2, <2>3, <2>4 DEF Lays
<1>19. DOMAIN d3 = DOMAIN blocks
  BY <1>18 DEF Lays
<1>20. \A b \in DOMAIN blocks :
         Waits(nest, pos + 1, b) <=> Waits(nest, pos, b) /\ b # cond /\ b # home
  <2> SUFFICES ASSUME NEW b \in DOMAIN blocks
               PROVE  Waits(nest, pos + 1, b)
                        <=> Waits(nest, pos, b) /\ b # cond /\ b # home
    OBVIOUS
  <2>1. Past(b, pos + 1) <=> Past(b, pos) \/ b[2] = pos
    BY <1>1, Further
  <2>2. CASE b \in {cond, home}
    BY <1>10, <1>12, <2>2 DEF Waits
  <2>3. CASE b \notin {cond, home}
    BY <1>11, <2>1, <2>3 DEF Waits
  <2> QED BY <2>2, <2>3
<1>21. Laid(source, nest, pos + 1, d3, home)
  <2>1. /\ home \in DOMAIN d3 /\ home[1] \in Here /\ Past(home, pos + 1)
        /\ ~Waits(nest, pos + 1, home)
    BY <1>9, <1>10, <1>12, <1>19, <1>20 DEF Here
  <2>2. \A b \in DOMAIN d3 : Waits(nest, pos + 1, b) =>
           b \notin {cond} /\ b # insert /\ (b \in DOMAIN blocks => Waits(nest, pos, b))
    BY <1>8, <1>19, <1>20
  <2>3. Continues(source, nest, pos, blocks, insert, nest, d3, home, {}, {cond})
    BY <2>1, <2>2 DEF Continues
  <2> QED BY <1>1, <1>18, <2>3, LaidKept
<1>22. Torn(source, pos + 1, d3, home)
  <2>1. source[pos] \notin Jumps /\ ~FollowsIn(source, pos)
    BY <1>2 DEF Jumps, FollowsIn
  <2> QED BY <1>1, <1>18, <2>1, TornKept
<1>23. d3[home] = <<>>
  BY <1>9, <1>10, <1>14, <1>15, <1>18 DEF Lays
<1>24. Whole(source, nest, pos + 1, d3, home)
  <2>1. ASSUME Clear(source, pos + 1)
        PROVE  Done(d3[insert])
    <3>1. Clear(source, pos) /\ pos > 1 /\ (Jumped(source, pos) \/ source[pos - 1] = "stmt")
      BY <1>1, <1>2, <2>1, Further, BeforeIt
    <3>2. /\ blocks[insert] # <<>>
          /\ Done(blocks[insert]) \/ Straight(blocks[insert])
      BY <1>1, <3>1 DEF Whole, Done
    <3>3. d3[insert] = d2[insert]
      BY <1>1, <1>7, <1>14, <1>16 DEF Appends
    <3> QED BY <1>7, <3>2, <3>3
  <2>2. Straight(d3[home])
    BY <1>23, ShortCode
  <2>3. source[pos] \notin Jumps /\ source[pos] # "stmt"
    BY <1>2 DEF Jumps
  <2>4. \A b \in DOMAIN d3 : b # home /\ ~Waits(nest, pos + 1, b) =>
           \/ b = insert \/ b \in {cond}
           \/ b \in DOMAIN blocks /\ ~Waits(nest, pos, b)
    BY <1>19, <1>20
  <2> QED BY <1>1, <1>18, <2>1, <2>2, <2>3, <2>4, WholeKept
<1>25. LaysAndLeaves(blocks, d3, insert, t, {cond}, home)
  BY <1>14, <1>18, <1>23 DEF LaysAndLeaves
<1>26. Layout'
  BY <1>1, <1>5, <1>21, <1>22, <1>24 DEF Layout
<1> QED BY <1>3, <1>5, <1>6, <1>17, <1>25, <1>26 DEF cond, home

(* What an end leaves.                                                     *)
LEMMA Closing ==
  ASSUME Base, Layout, EmitEndIf \/ EmitEndLoop
  PROVE  /\ source[pos] = "end" /\ Last(nest) \in Range(nest) /\ Last(nest) \in Nat
         /\ Range(Shorter(nest)) = Range(nest) \ {Last(nest)} /\ nest' = Shorter(nest)
         /\ \A b \in DOMAIN blocks :
              /\ Past(b, pos + 1) <=> Past(b, pos)
              /\ Waits(Shorter(nest), pos + 1, b) =>
                   Waits(nest, pos, b) /\ ~(b[1] \in {"endif", "iter", "loop_end"}
                                            /\ b[2] = Last(nest))
              /\ ~Waits(Shorter(nest), pos + 1, b) /\ Waits(nest, pos, b) =>
                   /\ b[1] \in {"endif", "iter", "loop_end"} /\ b = <<b[1], Last(nest)>>
                   /\ b[1] = "endif" => source[Last(nest)] = "if"
                   /\ b[1] \in {"iter", "loop_end"} => source[Last(nest)] \in LoopHeads
         /\ HasBlocks(source, Last(nest), DOMAIN blocks)
<1>1. /\ pc = "emitting" /\ pos \in Nat /\ pos # 0 /\ pos \in DOMAIN source
      /\ Laid(source, nest, pos, blocks, insert)
  BY Visiting DEF Visit
<1>2. source[pos] = "end" /\ nest # <<>> /\ nest' = Shorter(nest)
  BY VisitMoves DEF Visit, EmitEndIf, EmitEndLoop
<1>3. PICK h : Legible(h, source) /\ Visited(h, source, pos, nest)
  BY <1>1, NestingElim DEF Base
<1>4. PICK i, m : i = Last(nest) /\ m = Shorter(nest)
  OBVIOUS
<1>5. i \in Range(nest) /\ i \in Nat /\ Range(m) = Range(nest) \ {i}
  BY <1>2, <1>3, <1>4, LastOpener
<1>6. \A b \in DOMAIN blocks : Past(b, pos + 1) <=> Past(b, pos)
  BY <1>1, <1>2, Fresh
<1>7. \A b \in DOMAIN blocks : RoleOf(source, b)
  BY <1>1 DEF Laid
<1>8. ASSUME NEW b \in DOMAIN blocks, Waits(m, pos + 1, b)
      PROVE  /\ Waits(nest, pos, b)
             /\ ~(b[1] \in {"endif", "iter", "loop_end"} /\ b[2] = i)
  BY <1>5, <1>6, <1>8 DEF Waits
<1>9. ASSUME NEW b \in DOMAIN blocks, ~Waits(m, pos + 1, b), Waits(nest, pos, b)
      PROVE  /\ b[1] \in {"endif", "iter", "loop_end"} /\ b = <<b[1], i>>
             /\ b[1] = "endif" => source[i] = "if"
             /\ b[1] \in {"iter", "loop_end"} => source[i] \in LoopHeads
  <2>1. b[1] \in {"endif", "iter", "loop_end"} /\ b[2] = i
    BY <1>5, <1>6, <1>9 DEF Waits
  <2>2. b \in Roles \X Nat
    BY <1>7 DEF RoleOf
  <2> QED BY <1>7, <2>1, <2>2 DEF RoleOf
<1>10. HasBlocks(source, i, DOMAIN blocks)
  BY <1>1, <1>5 DEF Laid
<1> QED BY <1>2, <1>4, <1>5, <1>6, <1>8, <1>9, <1>10

(* The end of an if.                                                       *)
LEMMA EndIfLays ==
  ASSUME Base, Layout, EmitEndIf
  PROVE  /\ Layout' /\ insert' = <<"endif", Last(nest)>>
         /\ \E terminated :
              LaysAndLeaves(blocks, blocks', insert,
                            Jump(terminated, <<"endif", Last(nest)>>), {}, insert')
<1>1. /\ pc = "emitting" /\ pc' = "emitting" /\ source' = source /\ pos' = pos + 1
      /\ pos \in Nat /\ pos # 0 /\ pos \in DOMAIN source /\ source \in Seq(Op)
      /\ nest \in Seq(Nat) /\ insert \in DOMAIN blocks /\ IsCode(blocks[insert])
      /\ Laid(source, nest, pos, blocks, insert)
      /\ Torn(source, pos, blocks, insert)
      /\ Whole(source, nest, pos, blocks, insert)
  BY Visiting DEF Visit
<1>2. PICK i, m : i = Last(nest) /\ m = Shorter(nest)
  OBVIOUS
<1>3. /\ source[pos] = "end" /\ i \in Range(nest) /\ i \in Nat
      /\ Range(m) = Range(nest) \ {i} /\ nest' = m
      /\ HasBlocks(source, i, DOMAIN blocks)
  BY <1>2, Closing
<1>4. ASSUME NEW b \in DOMAIN blocks
      PROVE  /\ Past(b, pos + 1) <=> Past(b, pos)
             /\ Waits(m, pos + 1, b) =>
                  Waits(nest, pos, b) /\ ~(b[1] \in {"endif", "iter", "loop_end"} /\ b[2] = i)
             /\ ~Waits(m, pos + 1, b) /\ Waits(nest, pos, b) =>
                  /\ b[1] \in {"endif", "iter", "loop_end"} /\ b = <<b[1], i>>
                  /\ b[1] = "endif" => source[i] = "if"
                  /\ b[1] \in {"iter", "loop_end"} => source[i] \in LoopHeads
  BY <1>2, Closing
<1> DEFINE merge == <<"endif", i>>
<1>5. source[i] = "if"
  BY <1>2 DEF EmitEndIf
<1>6. PICK terminated, d2 :
        /\ terminated \in Terminated(insert)
        /\ d2 = EmitUnless(terminated, blocks, insert, <<Br(merge)>>)
        /\ blocks' = d2 /\ insert' = merge
  BY <1>2 DEF EmitEndIf
<1>7. PICK t : t = Jump(terminated, merge)
  OBVIOUS
<1>8. /\ IsCode(t) /\ Appends(blocks, insert, t, d2)
      /\ blocks[insert] # <<>> /\ (Done(blocks[insert]) \/ Straight(blocks[insert]))
           => Done(d2[insert])
  BY <1>1, <1>6, <1>7, Looked DEF Terminated
<1>9. /\ merge \in DOMAIN blocks /\ merge[1] = "endif" /\ merge[2] = i
      /\ ~Waits(nest, pos, insert)
  BY <1>1, <1>3, <1>5 DEF HasBlocks, Laid
<1>10. Waits(nest, pos, merge) /\ ~Waits(m, pos + 1, merge)
  BY <1>3, <1>9 DEF Waits
<1> HIDE DEF merge
<1>11. insert # merge /\ blocks[merge] = <<>> /\ Past(merge, pos + 1)
  <2>1. Past(merge, pos)
    <3>1. PICK h : Legible(h, source) /\ Visited(h, source, pos, nest)
      BY <1>1, NestingElim DEF Base
    <3>2. nest # <<>>
      BY VisitMoves DEF Visit
    <3>3. i \in Nat /\ i < pos
      BY <1>2, <3>1, <3>2, LastOpener
    <3>4. i \in 0..(pos - 1)
      BY <1>1, <3>3
    <3> QED BY <1>9, <3>4 DEF Past
  <2> QED BY <1>1, <1>4, <1>9, <1>10, <2>1 DEF Laid
<1>12. Lays(blocks, d2, insert, t, {}, {})
  BY <1>8 DEF Lays, Appends
<1>13. DOMAIN d2 = DOMAIN blocks
  BY <1>8 DEF Appends
<1>14. Laid(source, m, pos + 1, d2, merge)
  <2>1. merge \in DOMAIN d2 /\ merge[1] \in Here
    BY <1>9, <1>13 DEF Here
  <2>2. \A b \in DOMAIN d2 : Waits(m, pos + 1, b) =>
           b # insert /\ (b \in DOMAIN blocks => Waits(nest, pos, b))
    BY <1>4, <1>9, <1>13
  <2>3. Continues(source, nest, pos, blocks, insert, m, d2, merge, {}, {})
    BY <1>3, <1>10, <1>11, <2>1, <2>2 DEF Continues
  <2> QED BY <1>1, <1>12, <2>3, LaidKept
<1>15. Torn(source, pos + 1, d2, merge)
  <2>1. source[pos] \notin Jumps /\ ~FollowsIn(source, pos)
    BY <1>3 DEF Jumps, FollowsIn
  <2> QED BY <1>1, <1>12, <2>1, TornKept
<1>16. d2[merge] = <<>>
  BY <1>8, <1>9, <1>11 DEF Appends
<1>17. Whole(source, m, pos + 1, d2, merge)
  <2>1. ASSUME Clear(source, pos + 1)
        PROVE  Done(d2[insert])
    <3>1. Clear(source, pos) /\ pos > 1 /\ (Jumped(source, pos) \/ source[pos - 1] = "stmt")
      BY <1>1, <1>3, <2>1, Further, BeforeIt
    <3>2. /\ blocks[insert] # <<>>
          /\ Done(blocks[insert]) \/ Straight(blocks[insert])
      BY <1>1, <3>1 DEF Whole, Done
    <3> QED BY <1>8, <3>2
  <2>2. Straight(d2[merge])
    BY <1>16, ShortCode
  <2>3. source[pos] \notin Jumps /\ source[pos] # "stmt"
    BY <1>3 DEF Jumps
  <2>4. \A b \in DOMAIN d2 : b # merge /\ ~Waits(m, pos + 1, b) =>
           \/ b = insert \/ b \in {}
           \/ b \in DOMAIN blocks /\ ~Waits(nest, pos, b)
    <3> SUFFICES ASSUME NEW b \in DOMAIN d2, b # merge, ~Waits(m, pos + 1, b)
                 PROVE  b \in DOMAIN blocks /\ ~Waits(nest, pos, b)
      OBVIOUS
    <3>1. Waits(nest, pos, b) => b = merge
      BY <1>4, <1>5, <1>13 DEF merge, LoopHeads
    <3> QED BY <1>13, <3>1
  <2> QED BY <1>1, <1>12, <2>1, <2>2, <2>3, <2>4, WholeKept
<1>18. LaysAndLeaves(blocks, d2, insert, t, {}, merge)
  BY <1>11, <1>12, <1>16 DEF LaysAndLeaves
<1>19. Layout'
  BY <1>1, <1>3, <1>6, <1>14, <1>15, <1>17 DEF Layout
<1> QED BY <1>2, <1>6, <1>7, <1>18, <1>19 DEF merge

(* The code of the initialisation or the iteration of a loop.              *)
LEMMA StepCode ==
  ASSUME NEW c, c = <<>> \/ \E part, k : c = <<Run(part, k)>>, NEW b
  PROVE  IsCode(c \o <<Br(b)>>) /\ Done(c \o <<Br(b)>>)
<1>1. IsCode(c) /\ Straight(c)
  BY ShortCode, Terminators
<1>2. IsCode(<<Br(b)>>) /\ Done(<<Br(b)>>)
  BY ShortCode, Terminators
<1> QED BY <1>1, <1>2, Glued

(* A loop.                                                                 *)
LEMMA LoopLays ==
  ASSUME Base, Layout, EmitLoop
  PROVE  /\ Layout' /\ insert' = <<"loop_body", pos>>
         /\ \E terminated :
              LaysAndLeaves(blocks, blocks', insert, Jump(terminated, <<"init", pos>>),
                            {<<"init", pos>>, <<"predicate", pos>>}, insert')
         /\ blocks'[<<"init", pos>>] =
              (IF At("for") THEN <<Run("init", pos)>> ELSE <<>>)
                \o <<Br(<<"predicate", pos>>)>>
         /\ blocks'[<<"predicate", pos>>] =
              <<Run("cond", pos), CondBr(<<"loop_body", pos>>, <<"loop_end", pos>>)>>
<1>1. /\ pc = "emitting" /\ pc' = "emitting" /\ source' = source /\ pos' = pos + 1
      /\ pos \in Nat /\ pos # 0 /\ pos \in DOMAIN source /\ source \in Seq(Op)
      /\ nest \in Seq(Nat) /\ insert \in DOMAIN blocks /\ IsCode(blocks[insert])
      /\ Laid(source, nest, pos, blocks, insert)
      /\ Torn(source, pos, blocks, insert)
      /\ Whole(source, nest, pos, blocks, insert)
  BY Visiting DEF Visit
<1>2. source[pos] \in LoopHeads
  BY VisitMoves DEF Visit
<1>3. PICK n : n = Append(nest, pos) /\ nest' = n /\ Range(n) = Range(nest) \cup {pos}
  <2>1. nest' = Append(nest, pos)
    BY DEF EmitLoop
  <2> QED BY <1>1, <2>1, RangeGrows
<1> DEFINE init == <<"init", pos>>
           predicate == <<"predicate", pos>>
           body == <<"loop_body", pos>>
           new == {"init", "predicate", "loop_body", "iter", "loop_end"} \X {pos}
           test == <<Run("cond", pos), CondBr(body, <<"loop_end", pos>>)>>
<1>4. PICK terminated, x, d1, d2, d3, d4 :
        /\ terminated \in Terminated(insert)
        /\ d1 = Created(new) /\ d2 = EmitUnless(terminated, d1, insert, <<Br(init)>>)
        /\ x = (IF At("for") THEN <<Run("init", pos)>> ELSE <<>>) \o <<Br(predicate)>>
        /\ d3 = Emit(d2, init, x) /\ d4 = Emit(d3, predicate, test)
        /\ blocks' = d4 /\ insert' = body
  BY DEF EmitLoop
<1>5. PICK t : t = Jump(terminated, init)
  OBVIOUS
<1>6. /\ \A b \in DOMAIN blocks : b[2] # pos /\ (Past(b, pos + 1) <=> Past(b, pos))
      /\ Past(insert, pos) /\ insert[1] \in Here /\ ~Waits(nest, pos, insert)
  <2>1. source[pos] \notin {"elif", "else"}
    BY <1>2 DEF LoopHeads
  <2>2. \A b \in DOMAIN blocks : b[2] # pos /\ (Past(b, pos + 1) <=> Past(b, pos))
    BY <1>1, <2>1, Fresh
  <2> QED BY <1>1, <2>2 DEF Laid
<1>7. /\ init \in new /\ predicate \in new /\ body \in new
      /\ \A b \in new : b \notin DOMAIN blocks /\ b # insert
      /\ init # predicate /\ init # body /\ predicate # body
  BY <1>1, <1>6
<1>8. ASSUME NEW b \in new
      PROVE  /\ RoleOf(source, b) /\ b[2] = pos /\ Past(b, pos + 1)
             /\ b \in {init, predicate, body} \/ b[1] \in {"iter", "loop_end"}
  <2>1. PICK r \in {"init", "predicate", "loop_body", "iter", "loop_end"} : b = <<r, pos>>
    OBVIOUS
  <2>2. RoleOf(source, b)
    BY <1>1, <1>2, <2>1 DEF RoleOf, Roles
  <2>3. Past(b, pos + 1)
    BY <1>1, <2>1, Further
  <2> QED BY <2>1, <2>2, <2>3
<1>9. /\ init[1] = "init" /\ predicate[1] = "predicate" /\ body[1] = "loop_body"
      /\ <<"iter", pos>> \in new /\ <<"loop_end", pos>> \in new
  OBVIOUS
<1>10. IsCode(x) /\ Done(x) /\ IsCode(test) /\ Done(test)
  <2>1. IsCode(test) /\ Done(test)
    BY ShortCode, Terminators
  <2>2. IsCode(x) /\ Done(x)
    BY <1>4, StepCode
  <2> QED BY <2>1, <2>2
<1> HIDE DEF init, predicate, body, new, test
<1>11. /\ DOMAIN d1 = DOMAIN blocks \cup new
       /\ \A b \in DOMAIN d1 : d1[b] = IF b \in DOMAIN blocks THEN blocks[b] ELSE <<>>
  BY <1>4, CreatedIs
<1>12. insert \in DOMAIN d1 /\ d1[insert] = blocks[insert]
  BY <1>1, <1>11
<1>13. /\ IsCode(t) /\ Appends(d1, insert, t, d2)
       /\ blocks[insert] # <<>> /\ (Done(blocks[insert]) \/ Straight(blocks[insert]))
            => Done(d2[insert])
  <2>1. terminated \in IF d1[insert] = <<>> THEN BOOLEAN
                       ELSE {IsTerminator(Last(d1[insert]))}
    BY <1>4, <1>12 DEF Terminated
  <2>2. IsCode(d1[insert])
    BY <1>1, <1>12
  <2>3. /\ IsCode(t) /\ Appends(d1, insert, t, d2)
        /\ d1[insert] # <<>> /\ (Done(d1[insert]) \/ Straight(d1[insert]))
             => Done(d2[insert])
    BY <1>4, <1>5, <1>12, <2>1, <2>2, Looked
  <2> QED BY <1>12, <2>3
<1>14. DOMAIN d2 = DOMAIN d1 /\ init \in DOMAIN d2 /\ predicate \in DOMAIN d2
  BY <1>7, <1>11, <1>13 DEF Appends
<1>15. Appends(d2, init, x, d3)
  BY <1>4, <1>14, Emitted
<1>16. DOMAIN d3 = DOMAIN d1
  BY <1>14, <1>15 DEF Appends
<1>17. Appends(d3, predicate, test, d4)
  BY <1>4, <1>14, <1>16, Emitted
<1>18. DOMAIN d4 = DOMAIN blocks \cup new
  BY <1>11, <1>16, <1>17 DEF Appends
<1>19. d4[init] = x
  <2>1. d2[init] = <<>>
    BY <1>7, <1>11, <1>13, <1>14 DEF Appends
  <2>2. d3[init] = <<>> \o x
    BY <1>15, <2>1 DEF Appends
  <2>3. d4[init] = d3[init]
    BY <1>7, <1>14, <1>16, <1>17 DEF Appends
  <2> QED BY <1>10, <2>2, <2>3, Glued, ShortCode
<1>20. d4[predicate] = test
  <2>1. d2[predicate] = <<>>
    BY <1>7, <1>11, <1>13, <1>14 DEF Appends
  <2>2. d3[predicate] = <<>>
    BY <1>7, <1>14, <1>15, <2>1 DEF Appends
  <2>3. d4[predicate] = <<>> \o test
    BY <1>17, <2>2 DEF Appends
  <2> QED BY <1>10, <2>3, Glued, ShortCode
<1>21. d4[insert] = d2[insert] /\ d4[insert] = blocks[insert] \o t
  <2>1. insert # init /\ insert # predicate
    BY <1>7
  <2>2. d4[insert] = d3[insert] /\ d3[insert] = d2[insert]
    BY <1>12, <1>14, <1>15, <1>16, <1>17, <2>1 DEF Appends
  <2>3. d2[insert] = blocks[insert] \o t
    BY <1>12, <1>13 DEF Appends
  <2> QED BY <2>2, <2>3
<1>22. Lays(blocks, d4, insert, t, new, {init, predicate})
  <2>1. ASSUME NEW b \in DOMAIN d4, b # insert, b \notin {init, predicate}
        PROVE  d4[b] = IF b \in DOMAIN blocks THEN blocks[b] ELSE <<>>
    <3>1. b \in DOMAIN d1 /\ b \in DOMAIN d2 /\ b \in DOMAIN d3
      BY <1>11, <1>14, <1>16, <1>18
    <3>2. d4[b] = d3[b] /\ d3[b] = d2[b] /\ d2[b] = d1[b]
      BY <1>13, <1>15, <1>17, <2>1, <3>1 DEF Appends
    <3> QED BY <1>11, <3>1, <3>2
  <2>2. ASSUME NEW b \in {init, predicate}
        PROVE  IsCode(d4[b]) /\ Done(d4[b]) /\ b \in DOMAIN d4 /\ b \notin DOMAIN blocks
    BY <1>7, <1>10, <1>18, <1>19, <1>20
  <2>3. insert \notin {init, predicate}
    BY <1>7
  <2> QED BY <1>13, <1>18, <1>21, <2>1, <2>2, <2>3 DEF Lays
<1>23. \A b \in DOMAIN blocks : Waits(n, pos + 1, b) <=> Waits(nest, pos, b)
  BY <1>3, <1>6 DEF Waits
<1>24. ASSUME NEW b \in new
       PROVE  /\ Waits(n, pos + 1, b) => b \notin {init, predicate} /\ b # body
              /\ ~Waits(n, pos + 1, b) => b \in {init, predicate, body}
  BY <1>3, <1>8, <1>9 DEF Waits
<1>25. Laid(source, n, pos + 1, d4, body)
  <2>1. \A b \in new :
          RoleOf(source, b) /\ (~Past(b, pos + 1) => source[b[2]] \in {"elif", "else"})
    BY <1>8
  <2>2. /\ body \in DOMAIN d4 /\ body[1] \in Here /\ Past(body, pos + 1)
        /\ ~Waits(n, pos + 1, body)
    BY <1>7, <1>8, <1>9, <1>18, <1>24 DEF Here
  <2>3. HasBlocks(source, pos, DOMAIN d4)
    <3>1. {"predicate", "iter", "loop_end"} \X {pos} \subseteq new
      BY DEF new
    <3> QED BY <1>2, <1>18, <3>1 DEF HasBlocks, LoopHeads
  <2>4. \A b \in DOMAIN d4 : Waits(n, pos + 1, b) =>
           /\ b \notin {init, predicate} /\ b # insert
           /\ b \in DOMAIN blocks => Waits(nest, pos, b)
    <3> SUFFICES ASSUME NEW b \in DOMAIN d4, Waits(n, pos + 1, b)
                 PROVE  /\ b \notin {init, predicate} /\ b # insert
                        /\ b \in DOMAIN blocks => Waits(nest, pos, b)
      OBVIOUS
    <3>1. b \in DOMAIN blocks => Waits(nest, pos, b)
      BY <1>23
    <3>2. b # insert
      BY <1>1, <1>6, <3>1
    <3>3. b \notin {init, predicate}
      BY <1>7, <1>24
    <3> QED BY <3>1, <3>2, <3>3
  <2>5. Continues(source, nest, pos, blocks, insert, n, d4, body, new, {init, predicate})
    BY <1>3, <2>1, <2>2, <2>3, <2>4 DEF Continues
  <2> QED BY <1>1, <1>22, <2>5, LaidKept
<1>26. source[pos] \notin Jumps /\ source[pos] # "stmt" /\ ~FollowsIn(source, pos)
  BY <1>2 DEF Jumps, FollowsIn, LoopHeads
<1>27. Torn(source, pos + 1, d4, body)
  BY <1>1, <1>22, <1>26, TornKept
<1>28. d4[body] = <<>> /\ body # insert
  <2>1. body \in DOMAIN d4 /\ body # insert /\ body \notin {init, predicate}
    BY <1>7, <1>18
  <2> QED BY <1>7, <1>22, <2>1 DEF Lays
<1>29. Whole(source, n, pos + 1, d4, body)
  <2>1. ASSUME Clear(source, pos + 1)
        PROVE  Done(d4[insert])
    <3>1. Clear(source, pos) /\ pos > 1 /\ (Jumped(source, pos) \/ source[pos - 1] = "stmt")
      BY <1>1, <1>2, <2>1, Further, BeforeIt
    <3>2. /\ blocks[insert] # <<>>
          /\ Done(blocks[insert]) \/ Straight(blocks[insert])
      BY <1>1, <3>1 DEF Whole, Done
    <3> QED BY <1>13, <1>21, <3>2
  <2>2. Straight(d4[body])
    BY <1>28, ShortCode
  <2>3. \A b \in DOMAIN d4 : b # body /\ ~Waits(n, pos + 1, b) =>
           \/ b = insert \/ b \in {init, predicate}
           \/ b \in DOMAIN blocks /\ ~Waits(nest, pos, b)
    BY <1>18, <1>23, <1>24
  <2> QED BY <1>1, <1>22, <1>26, <2>1, <2>2, <2>3, WholeKept
<1>30. LaysAndLeaves(blocks, d4, insert, t, {init, predicate}, body)
  BY <1>22, <1>28 DEF LaysAndLeaves
<1>31. Layout'
  BY <1>1, <1>3, <1>4, <1>25, <1>27, <1>29 DEF Layout
<1> QED BY <1>4, <1>5, <1>19, <1>20, <1>30, <1>31 DEF init, predicate, body, test

(* The end of a loop.                                                      *)
LEMMA EndLoopLays ==
  ASSUME Base, Layout, EmitEndLoop
  PROVE  /\ Layout' /\ insert' = <<"loop_end", Last(nest)>>
         /\ \E terminated :
              LaysAndLeaves(blocks, blocks', insert, Jump(terminated, <<"iter", Last(nest)>>),
                            {<<"iter", Last(nest)>>}, insert')
         /\ blocks'[<<"iter", Last(nest)>>] =
              (IF source[Last(nest)] = "for" THEN <<Run("iter", Last(nest))>> ELSE <<>>)
                \o <<Br(<<"predicate", Last(nest)>>)>>
<1>1. /\ pc = "emitting" /\ pc' = "emitting" /\ source' = source /\ pos' = pos + 1
      /\ pos \in Nat /\ pos # 0 /\ pos \in DOMAIN source /\ source \in Seq(Op)
      /\ nest \in Seq(Nat) /\ insert \in DOMAIN blocks /\ IsCode(blocks[insert])
      /\ Laid(source, nest, pos, blocks, insert)
      /\ Torn(source, pos, blocks, insert)
      /\ Whole(source, nest, pos, blocks, insert)
  BY Visiting DEF Visit
<1>2. PICK i, m : i = Last(nest) /\ m = Shorter(nest)
  OBVIOUS
<1>3. /\ source[pos] = "end" /\ i \in Range(nest) /\ i \in Nat
      /\ Range(m) = Range(nest) \ {i} /\ nest' = m
      /\ HasBlocks(source, i, DOMAIN blocks)
  BY <1>2, Closing
<1>4. ASSUME NEW b \in DOMAIN blocks
      PROVE  /\ Past(b, pos + 1) <=> Past(b, pos)
             /\ Waits(m, pos + 1, b) =>
                  Waits(nest, pos, b) /\ ~(b[1] \in {"endif", "iter", "loop_end"} /\ b[2] = i)
             /\ ~Waits(m, pos + 1, b) /\ Waits(nest, pos, b) =>
                  /\ b[1] \in {"endif", "iter", "loop_end"} /\ b = <<b[1], i>>
                  /\ b[1] = "endif" => source[i] = "if"
                  /\ b[1] \in {"iter", "loop_end"} => source[i] \in LoopHeads
  BY <1>2, Closing
<1> DEFINE iter == <<"iter", i>>
           end == <<"loop_end", i>>
<1>5. source[i] \in LoopHeads
  BY <1>2 DEF EmitEndLoop
<1>6. PICK terminated, x, d2, d3 :
        /\ terminated \in Terminated(insert)
        /\ d2 = EmitUnless(terminated, blocks, insert, <<Br(iter)>>)
        /\ x = (IF source[i] = "for" THEN <<Run("iter", i)>> ELSE <<>>)
                 \o <<Br(<<"predicate", i>>)>>
        /\ d3 = Emit(d2, iter, x)
        /\ blocks' = d3 /\ insert' = end
  BY <1>2 DEF EmitEndLoop
<1>7. PICK t : t = Jump(terminated, iter)
  OBVIOUS
<1>8. /\ IsCode(t) /\ Appends(blocks, insert, t, d2)
      /\ blocks[insert] # <<>> /\ (Done(blocks[insert]) \/ Straight(blocks[insert]))
           => Done(d2[insert])
  BY <1>1, <1>6, <1>7, Looked DEF Terminated
<1>9. /\ iter \in DOMAIN blocks /\ iter[1] = "iter" /\ iter[2] = i
      /\ end \in DOMAIN blocks /\ end[1] = "loop_end" /\ end[2] = i
      /\ ~Waits(nest, pos, insert) /\ iter # end
  BY <1>1, <1>3, <1>5 DEF HasBlocks, Laid
<1>10. /\ Waits(nest, pos, end) /\ ~Waits(m, pos + 1, end)
       /\ Waits(nest, pos, iter) /\ ~Waits(m, pos + 1, iter)
  BY <1>3, <1>9 DEF Waits
<1>11. IsCode(x) /\ Done(x)
  BY <1>6, StepCode
<1> HIDE DEF iter, end
<1>12. /\ insert # end /\ blocks[end] = <<>> /\ insert # iter /\ blocks[iter] = <<>>
       /\ Past(end, pos + 1)
  <2>1. Past(end, pos)
    <3>1. PICK h : Legible(h, source) /\ Visited(h, source, pos, nest)
      BY <1>1, NestingElim DEF Base
    <3>2. nest # <<>>
      BY VisitMoves DEF Visit
    <3>3. i \in Nat /\ i < pos
      BY <1>2, <3>1, <3>2, LastOpener
    <3>4. i \in 0..(pos - 1)
      BY <1>1, <3>3
    <3> QED BY <1>9, <3>4 DEF Past
  <2> QED BY <1>1, <1>4, <1>9, <1>10, <2>1 DEF Laid
<1>13. DOMAIN d2 = DOMAIN blocks
  BY <1>8 DEF Appends
<1>14. Appends(d2, iter, x, d3)
  BY <1>6, <1>9, <1>13, Emitted
<1>15. DOMAIN d3 = DOMAIN blocks
  BY <1>13, <1>14 DEF Appends
<1>16. d3[iter] = x
  <2>1. d2[iter] = <<>>
    BY <1>8, <1>9, <1>12 DEF Appends
  <2>2. d3[iter] = <<>> \o x
    BY <1>14, <2>1 DEF Appends
  <2> QED BY <1>11, <2>2, Glued, ShortCode
<1>17. d3[insert] = d2[insert] /\ d3[insert] = blocks[insert] \o t
  <2>1. d3[insert] = d2[insert]
    BY <1>1, <1>12, <1>13, <1>14 DEF Appends
  <2>2. d2[insert] = blocks[insert] \o t
    BY <1>8 DEF Appends
  <2> QED BY <2>1, <2>2
<1>18. Lays(blocks, d3, insert, t, {}, {iter})
  <2>1. ASSUME NEW b \in DOMAIN d3, b # insert, b # iter
        PROVE  d3[b] = IF b \in DOMAIN blocks THEN blocks[b] ELSE <<>>
    <3>1. d3[b] = d2[b] /\ d2[b] = blocks[b]
      BY <1>8, <1>13, <1>14, <1>15, <2>1 DEF Appends
    <3> QED BY <1>15, <2>1, <3>1
  <2> QED BY <1>8, <1>9, <1>11, <1>12, <1>15, <1>16, <1>17, <2>1 DEF Lays
<1>19. Laid(source, m, pos + 1, d3, end)
  <2>1. end \in DOMAIN d3 /\ end[1] \in Here
    BY <1>9, <1>15 DEF Here
  <2>2. \A b \in DOMAIN d3 : Waits(m, pos + 1, b) =>
           b # iter /\ b # insert /\ (b \in DOMAIN blocks => Waits(nest, pos, b))
    BY <1>4, <1>9, <1>10, <1>15
  <2>3. Continues(source, nest, pos, blocks, insert, m, d3, end, {}, {iter})
    BY <1>3, <1>10, <1>12, <2>1, <2>2 DEF Continues
  <2> QED BY <1>1, <1>18, <2>3, LaidKept
<1>20. source[pos] \notin Jumps /\ source[pos] # "stmt" /\ ~FollowsIn(source, pos)
  BY <1>3 DEF Jumps, FollowsIn
<1>21. Torn(source, pos + 1, d3, end)
  BY <1>1, <1>18, <1>20, TornKept
<1>22. d3[end] = <<>>
  BY <1>9, <1>12, <1>15, <1>18 DEF Lays
<1>23. Whole(source, m, pos + 1, d3, end)
  <2>1. ASSUME Clear(source, pos + 1)
        PROVE  Done(d3[insert])
    <3>1. Clear(source, pos) /\ pos > 1 /\ (Jumped(source, pos) \/ source[pos - 1] = "stmt")
      BY <1>1, <1>3, <2>1, Further, BeforeIt
    <3>2. /\ blocks[insert] # <<>>
          /\ Done(blocks[insert]) \/ Straight(blocks[insert])
      BY <1>1, <3>1 DEF Whole, Done
    <3> QED BY <1>8, <1>17, <3>2
  <2>2. Straight(d3[end])
    BY <1>22, ShortCode
  <2>3. \A b \in DOMAIN d3 : b # end /\ ~Waits(m, pos + 1, b) =>
           \/ b = insert \/ b \in {iter}
           \/ b \in DOMAIN blocks /\ ~Waits(nest, pos, b)
    <3> SUFFICES ASSUME NEW b \in DOMAIN d3, b # end, b # iter, ~Waits(m, pos + 1, b)
                 PROVE  b \in DOMAIN blocks /\ ~Waits(nest, pos, b)
      OBVIOUS
    <3>1. Waits(nest, pos, b) => b \in {iter, end}
      BY <1>4, <1>5, <1>15 DEF iter, end, LoopHeads
    <3> QED BY <1>15, <3>1
  <2> QED BY <1>1, <1>18, <1>20, <2>1, <2>2, <2>3, WholeKept
<1>24. LaysAndLeaves(blocks, d3, insert, t, {iter}, end)
  BY <1>12, <1>18, <1>22 DEF LaysAndLeaves
<1>25. Layout'
  BY <1>1, <1>3, <1>6, <1>19, <1>21, <1>23 DEF Layout
<1> QED BY <1>2, <1>6, <1>7, <1>16, <1>24, <1>25 DEF iter, end

(* Every step keeps the layout.                                            *)
LEMMA LayoutStep == Base /\ Layout /\ [Next]_vars => Layout'
<1> SUFFICES ASSUME Base, Layout, [Next]_vars PROVE Layout'
  OBVIOUS
<1>1. CASE UNCHANGED vars
  BY <1>1 DEF vars, emission, Layout
<1>2. ASSUME NEW op \in Op, Write(op) PROVE Layout'
  BY <1>2 DEF Write, Layout
<1>3. CASE BeginEmit
  <2>1. /\ source' = source /\ nest' = <<>> /\ pos' = 1 /\ insert' = Entry
        /\ blocks' = [b \in {Entry} |-> <<>>]
    BY <1>3 DEF BeginEmit, Base, Quiet, emission
  <2>2. PICK bs : bs = [b \in {Entry} |-> <<>>]
    OBVIOUS
  <2>3. DOMAIN bs = {Entry} /\ bs[Entry] = <<>>
    BY <2>2
  <2>4. Entry \in Roles \X Nat /\ Entry[1] = "func_entry" /\ Past(Entry, 1)
    BY DEF Entry, Roles, Past
  <2>5. RoleOf(source, Entry) /\ ~Waits(<<>>, 1, Entry) /\ Entry[1] \in Here
    BY <2>4 DEF RoleOf, Waits, Here
  <2>6. Range(<<>>) = {}
    BY DEF Range
  <2>7. Laid(source, <<>>, 1, bs, Entry)
    BY <2>3, <2>4, <2>5, <2>6, ShortCode DEF Laid
  <2>8. ~Jumped(source, 1) /\ ~Followed(source, 1) /\ ~(1 > 1)
    BY DEF Jumped, Followed
  <2>9. Torn(source, 1, bs, Entry)
    BY <2>8 DEF Torn
  <2>10. Whole(source, <<>>, 1, bs, Entry)
    BY <2>3, <2>8, ShortCode DEF Whole
  <2> QED BY <2>1, <2>2, <2>7, <2>9, <2>10 DEF Layout
<1>4. CASE Visit
  BY <1>4, PlainLays, IfLays, BranchLays, EndIfLays, LoopLays, EndLoopLays DEF Visit
<1>5. CASE EmitEndFunction \/ RunStep
  <2>1. pc' # "emitting"
    BY <1>5 DEF EmitEndFunction, RunStep, RunEvaluate, RunBranch, RunReturn, Running
  <2> QED BY <2>1 DEF Layout
<1> QED BY <1>1, <1>2, <1>3, <1>4, <1>5, StepKinds

-----------------------------------------------------------------------------
(* What the check of the blocks at the end of the function finds.          *)
LEMMA EndChecks ==
  ASSUME Base, Layout, EmitEndFunction
  PROVE  /\ source' = source /\ pos = Len(source) + 1
         /\ pc' \in {"running", "malformed"}
         /\ pc' = "malformed" => ~Clear(source, pos)
         /\ pc' = "running" => ~Followed(source, pos)
<1>1. /\ pc = "emitting" /\ source' = source /\ pos = Len(source) + 1
      /\ pc' = IF WellFormed(blocks') THEN "running" ELSE "malformed"
  BY DEF EmitEndFunction
<1>2. /\ Laid(source, nest, pos, blocks, insert)
      /\ Torn(source, pos, blocks, insert)
      /\ Whole(source, nest, pos, blocks, insert)
  BY <1>1 DEF Layout
<1>3. PICK h : Legible(h, source) /\ Visited(h, source, pos, nest)
  BY <1>1, NestingElim DEF Base
<1>4. PICK l \in Nat : l = Len(source) /\ DOMAIN source = 1..l /\ pos = l + 1
  BY <1>1, <1>3, LegibleFacts
<1>5. nest = <<>> /\ Range(nest) = {}
  <2>1. pos - 1 = l
    BY <1>4
  <2>2. nest = <<>>
    BY <1>3, <1>4, <2>1 DEF Visited
  <2> QED BY <2>2 DEF Range
<1>6. \A b \in DOMAIN blocks : ~Waits(nest, pos, b)
  <2> SUFFICES ASSUME NEW b \in DOMAIN blocks, b[1] \in {"cond", "branch"}
               PROVE  Past(b, pos)
    BY <1>5 DEF Waits
  <2>1. b[2] \in 1..l
    BY <1>2, <1>4 DEF Laid, RoleOf
  <2>2. 1..l \subseteq 0..(pos - 1)
    BY <1>4
  <2> QED BY <2>1, <2>2 DEF Past
<1>7. PICK c : c = blocks[insert] /\ IsCode(c)
  BY <1>2 DEF Laid
<1>8. insert \in DOMAIN blocks
  BY <1>2 DEF Laid
<1>9. blocks' = IF Ended(c) THEN blocks ELSE Emit(blocks, insert, <<Ret>>)
  BY <1>7 DEF EmitEndFunction, Ended
<1>10. Appends(blocks, insert, <<Ret>>, Emit(blocks, insert, <<Ret>>))
  BY <1>8, Emitted
<1>11. IsCode(<<Ret>>) /\ Done(<<Ret>>)
  BY ShortCode, Terminators
<1>12. ASSUME Clear(source, pos)
       PROVE  WellFormed(blocks')
  <2>1. /\ IF Jumped(source, pos) THEN Done(c) ELSE Straight(c)
        /\ \A b \in DOMAIN blocks : b # insert => Done(blocks[b])
    BY <1>2, <1>6, <1>7, <1>12 DEF Whole
  <2>2. CASE Done(c)
    <3>1. Ended(c)
      BY <1>7, <2>2, LastShows
    <3> QED BY <1>7, <1>9, <2>1, <2>2, <3>1 DEF WellFormed, Done
  <2>3. CASE Straight(c)
    <3>1. ~Ended(c)
      BY <1>7, <2>3, LastShows
    <3>2. Done(c \o <<Ret>>)
      BY <1>7, <1>11, <2>3, Glued
    <3>3. PICK cs : cs = blocks'
      OBVIOUS
    <3>4. Appends(blocks, insert, <<Ret>>, cs)
      BY <1>9, <1>10, <3>1, <3>3
    <3>5. \A b \in DOMAIN cs : Done(cs[b])
      BY <1>7, <2>1, <3>2, <3>4 DEF Appends
    <3> QED BY <3>3, <3>5 DEF WellFormed, Done
  <2> QED BY <2>1, <2>2, <2>3
<1>13. ASSUME Followed(source, pos)
       PROVE  ~WellFormed(blocks')
  <2>1. PICK b \in DOMAIN blocks : Cut(blocks[b])
    BY <1>2, <1>13 DEF Torn
  <2>2. PICK cs : cs = blocks'
    OBVIOUS
  <2>3. b \in DOMAIN cs /\ Cut(cs[b])
    <3>1. CASE Ended(c)
      BY <1>9, <2>1, <2>2, <3>1
    <3>2. CASE ~Ended(c)
      <4>1. Appends(blocks, insert, <<Ret>>, cs)
        BY <1>9, <1>10, <2>2, <3>2
      <4>2. CASE b = insert
        BY <1>7, <1>11, <2>1, <4>1, <4>2, Glued DEF Appends
      <4>3. CASE b # insert
        BY <2>1, <4>1, <4>3 DEF Appends
      <4> QED BY <4>2, <4>3
    <3> QED BY <3>1, <3>2
  <2>4. ~Done(cs[b])
    BY <2>3 DEF Cut, Done
  <2> QED BY <2>2, <2>3, <2>4 DEF WellFormed, Done
<1> QED BY <1>1, <1>12, <1>13

(* A function that is malformed has a reason for it, and one that runs has *)
(* no item that follows a jump.                                            *)
Verdict ==
  /\ pc = "malformed" => ~Clear(source, Len(source) + 1)
  /\ pc \in {"running", "returned"} => ~Followed(source, Len(source) + 1)

(* No step changes the verdict.                                            *)
LEMMA VerdictStep == Base /\ Layout /\ Verdict /\ [Next]_vars => Verdict'
<1> SUFFICES ASSUME Base, Layout, Verdict, [Next]_vars PROVE Verdict'
  OBVIOUS
<1>1. CASE UNCHANGED vars
  BY <1>1 DEF vars, Verdict
<1>2. CASE (\E op \in Op : Write(op)) \/ BeginEmit \/ Visit
  <2>1. pc' \in {"writing", "emitting"}
    <3>1. CASE Visit
      BY <3>1, VisitMoves
    <3>2. CASE (\E op \in Op : Write(op)) \/ BeginEmit
      BY <3>2 DEF Write, BeginEmit
    <3> QED BY <1>2, <3>1, <3>2
  <2> QED BY <2>1 DEF Verdict
<1>3. CASE EmitEndFunction
  <2>1. /\ source' = source /\ pos = Len(source) + 1 /\ pc' \in {"running", "malformed"}
        /\ pc' = "malformed" => ~Clear(source, pos)
        /\ pc' = "running" => ~Followed(source, pos)
    BY <1>3, EndChecks
  <2> QED BY <2>1 DEF Verdict
<1>4. CASE RunStep
  <2>1. source' = source /\ pc = "running" /\ pc' \in {"running", "returned"}
    BY <1>4 DEF RunStep, RunEvaluate, RunBranch, RunReturn, Running
  <2> QED BY <2>1 DEF Verdict
<1> QED BY <1>1, <1>2, <1>3, <1>4, StepKinds

(* A function of any length is malformed only when an item follows a jump  *)
(* or the terminator of an empty block is asked for, and always is when a  *)
(* statement, an if or a jump follows a jump.                              *)
THEOREM MalformedForAReason == Spec => []MalformedIsExplained
<1>1. Init => Base /\ Layout /\ Verdict
  BY BaseInit DEF Init, Layout, Verdict
<1>2. Base /\ Layout /\ Verdict /\ [Next]_vars => (Base /\ Layout /\ Verdict)'
  BY BaseStep, LayoutStep, VerdictStep
<1>3. Base /\ Layout /\ Verdict => MalformedIsExplained
  <2> SUFFICES ASSUME Base, Verdict PROVE MalformedIsExplained
    OBVIOUS
  <2>1. PICK h : Legible(h, source)
    BY DEF Base, Nesting
  <2>2. Len(source) \in Nat /\ DOMAIN source = 1..Len(source)
    BY <2>1, LegibleFacts
  <2>3. DOMAIN source = 1..(Len(source) + 1 - 1)
    BY <2>2
  <2>4. \A p : FollowsIn(source, p) <=> FollowsJump(p)
    BY DEF FollowsIn, FollowsJump
  <2>5. \A p : AsksIn(source, p) <=> AsksEmpty(p)
    BY DEF AsksIn, AsksEmpty
  <2>6. Clear(source, Len(source) + 1)
          <=> \A p \in DOMAIN source : ~FollowsJump(p) /\ ~AsksEmpty(p)
    BY <2>3, <2>4, <2>5 DEF Clear
  <2>7. Followed(source, Len(source) + 1) <=> \E p \in DOMAIN source : FollowsJump(p)
    BY <2>3, <2>4 DEF Followed
  <2> QED BY <2>6, <2>7 DEF Verdict, MalformedIsExplained
<1> QED BY <1>1, <1>2, <1>3, PTL DEF Spec

-----------------------------------------------------------------------------
(* What the source means, by SR: what comes first at each item and where a *)
(* false condition leads.  The source alone decides it.                    *)
Others == [p \in DOMAIN source |-> SR!Otherwise(p)]

(* It stays as it is with the source.                                      *)
LEMMA SameMeaning ==
  ASSUME source' = source
  PROVE  SR!First' = SR!First /\ Others' = Others
<1>1. SR!First' = SR!First
  BY DEF SR!First, SR!Leads, SR!EndOf, SR!InnermostOf, SR!Encloses, SR!OpenerOf,
     SR!Count, SR!LoopHeads, SR!Openers, SR!Returned
<1>2. Others' = Others
  BY <1>1 DEF Others, SR!Otherwise, SR!IsOf, SR!ChainOf, SR!EndOf, SR!InnermostOf,
     SR!Encloses, SR!Count, SR!LoopHeads, SR!Openers
<1> QED BY <1>1, <1>2

(* The innermost loop of the openers n.                                    *)
LoopsOf(s, n) == {k \in DOMAIN n : s[n[k]] \in LoopHeads}
LoopOf(s, n) ==
  n[CHOOSE k \in LoopsOf(s, n) : \A j \in LoopsOf(s, n) : j <= k]

(* A break or continue goes to it.                                         *)
LEMMA ParentIs == ParentLoop = LoopOf(source, nest)
BY DEF ParentLoop, LoopOf, LoopsOf

(* It is one of them, and the last loop.                                   *)
LEMMA LoopFacts ==
  ASSUME NEW s, NEW n \in Seq(Nat), NEW q \in DOMAIN n, s[n[q]] \in LoopHeads,
         \A j, k \in DOMAIN n : j < k => n[j] < n[k]
  PROVE  /\ LoopOf(s, n) \in Range(n) /\ s[LoopOf(s, n)] \in LoopHeads
         /\ \A i \in Range(n) : s[i] \in LoopHeads => i <= LoopOf(s, n)
<1>1. PICK l \in Nat : l = Len(n) /\ DOMAIN n = 1..l
  <2>1. Len(n) \in Nat /\ DOMAIN n = 1..Len(n)
    OBVIOUS
  <2> QED BY <2>1
<1>2. LoopsOf(s, n) \in SUBSET (1..l) /\ LoopsOf(s, n) # {}
  BY <1>1 DEF LoopsOf
<1>3. PICK b \in LoopsOf(s, n) : \A j \in LoopsOf(s, n) : j <= b
  BY <1>1, <1>2, NatMax
<1>4. PICK c : c = CHOOSE k \in LoopsOf(s, n) : \A j \in LoopsOf(s, n) : j <= k
  OBVIOUS
<1>5. c \in LoopsOf(s, n) /\ \A j \in LoopsOf(s, n) : j <= c
  BY <1>3, <1>4
<1>6. LoopOf(s, n) = n[c] /\ c \in DOMAIN n /\ c \in Nat
  BY <1>1, <1>2, <1>4, <1>5 DEF LoopOf
<1>7. ASSUME NEW k \in DOMAIN n, s[n[k]] \in LoopHeads
      PROVE  n[k] <= n[c]
  <2>1. k \in LoopsOf(s, n) /\ k \in Nat
    BY <1>1, <1>7 DEF LoopsOf
  <2>2. k < c \/ k = c
    BY <1>5, <1>6, <2>1
  <2>3. n[k] \in Nat /\ n[c] \in Nat
    BY <1>6, SeqMember
  <2>4. CASE k < c
    <3>1. n[k] < n[c]
      BY <1>6, <2>4
    <3> QED BY <2>3, <3>1
  <2> QED BY <2>2, <2>3, <2>4
<1> QED BY <1>5, <1>6, <1>7 DEF LoopsOf, Range

(* The end that SR counts is the one the visitors find.                    *)
LEMMA MeaningOfEnd ==
  ASSUME NEW h, Legible(h, source), h[Len(source)] = <<>>, NEW i \in Opens(source)
  PROVE  SR!EndOf(i) = EndIn(source, i)
<1>0. PICK s : s = source
  OBVIOUS
<1>1. PICK l \in Nat : l = Len(source) /\ s = source /\ DOMAIN s = 1..l
  <2>1. Len(source) \in Nat /\ DOMAIN source = 1..Len(source)
    BY LegibleFacts
  <2> QED BY <1>0, <2>1
<1>2. PICK O, E : O = Opens(s) /\ E = Ends(s)
  OBVIOUS
<1>3. /\ i \in 1..l /\ EndIn(s, i) \in i..l
      /\ \A e \in i..l : IsEnd(O, E, i, l, e) => EndIn(s, i) = e
      /\ IsEnd(O, E, i, l, EndIn(s, i))
  BY <1>1, <1>2, EndInIs
<1>4. ASSUME NEW j \in i..l
      PROVE  \E a, b \in Nat : /\ SR!Count(i, j, SR!Openers) = a
                               /\ SR!Count(i, j, {"end"}) = b
                               /\ Balance(O, E, i, j) = a - b
  <2>1. i..j \subseteq 1..l
    BY <1>3
  <2>2. /\ {k \in i..j : s[k] \in Openers} = {k \in i..j : k \in O}
        /\ {k \in i..j : s[k] \in {"end"}} = {k \in i..j : k \in E}
    BY <1>1, <1>2, <2>1 DEF Opens, Ends
  <2>3. SR!Openers = Openers
    BY DEF SR!Openers, SR!LoopHeads, Openers, LoopHeads
  <2>4. \A S : SR!Cardinality(S) = Cardinality(S)
    BY DEF SR!Cardinality, Cardinality
  <2>5. /\ SR!Count(i, j, SR!Openers) = Cardinality({k \in i..j : k \in O})
        /\ SR!Count(i, j, {"end"}) = Cardinality({k \in i..j : k \in E})
    BY <1>1, <2>2, <2>3, <2>4 DEF SR!Count
  <2>6. \A S : S \subseteq i..j => Cardinality(S) \in Nat
    <3>1. IsFiniteSet(i..j)
      BY <1>3, FS_Interval
    <3> QED BY <3>1, FS_Subset, FS_CardinalityType
  <2>7. /\ Cardinality({k \in i..j : k \in O}) \in Nat
        /\ Cardinality({k \in i..j : k \in E}) \in Nat
    BY <2>6
  <2> QED BY <2>5, <2>7 DEF Balance
<1> DEFINE Q(j) == /\ SR!Count(i, j, SR!Openers) = SR!Count(i, j, {"end"})
                   /\ \A k \in i..(j - 1) :
                        SR!Count(i, k, SR!Openers) > SR!Count(i, k, {"end"})
<1>5. ASSUME NEW j \in i..l
      PROVE  Q(j) <=> IsEnd(O, E, i, l, j)
  <2>1. SR!Count(i, j, SR!Openers) = SR!Count(i, j, {"end"}) <=> Balance(O, E, i, j) = 0
    BY <1>4
  <2>2. ASSUME NEW k \in i..(j - 1)
        PROVE  SR!Count(i, k, SR!Openers) > SR!Count(i, k, {"end"})
                 <=> Balance(O, E, i, k) > 0
    <3>1. k \in i..l
      BY <1>3
    <3>2. PICK a, b \in Nat : /\ SR!Count(i, k, SR!Openers) = a
                              /\ SR!Count(i, k, {"end"}) = b
                              /\ Balance(O, E, i, k) = a - b
      BY <1>4, <3>1
    <3> QED BY <3>2
  <2> QED BY <2>1, <2>2 DEF IsEnd
<1>6. SR!EndOf(i) = CHOOSE j \in i..l : Q(j)
  BY <1>1 DEF SR!EndOf
<1> HIDE DEF Q
<1>7. SR!EndOf(i) \in i..l /\ Q(SR!EndOf(i))
  BY <1>3, <1>5, <1>6
<1> QED BY <1>1, <1>3, <1>5, <1>7

(* SR's constructs around an item are the openers that are visited.        *)
LEMMA MeaningOfAround ==
  ASSUME NEW h, Legible(h, source), NEW p \in DOMAIN source, NEW n,
         Visited(h, source, p, n), source[p] # "end", NEW i \in 1..p
  PROVE  SR!Encloses(i, p) <=> i \in Range(n)
<1>0. PICK s : s = source
  OBVIOUS
<1>1. PICK l \in Nat : l = Len(source) /\ s = source /\ DOMAIN s = 1..l
  <2>1. Len(source) \in Nat /\ DOMAIN source = 1..Len(source)
    BY LegibleFacts
  <2> QED BY <1>0, <2>1
<1>2. PICK O, E : O = Opens(s) /\ E = Ends(s)
  OBVIOUS
<1>3. /\ IsHistory(h, O, E, l) /\ h[l] = <<>> /\ n = h[p - 1] /\ p \in 1..l
      /\ p \notin E
  BY <1>1, <1>2, LegibleFacts DEF Visited, Ends
<1>4. \A k \in DOMAIN n : n[k] \in 1..(p - 1) /\ n[k] \in O
  BY <1>1, <1>2, NestFacts
<1>5. i \in Range(n) <=> IsAround(h, i, p)
  BY <1>3 DEF IsAround, Range
<1>6. SR!Openers = Openers
  BY DEF SR!Openers, SR!LoopHeads, Openers, LoopHeads
<1>7. CASE i = p
  <2>1. i \notin Range(n)
    BY <1>3, <1>4, <1>7 DEF Range
  <2> QED BY <1>3, <1>7, <2>1 DEF SR!Encloses
<1>8. CASE i # p /\ i \notin O
  <2>1. i \notin Range(n)
    BY <1>4, <1>8 DEF Range
  <2>2. i \in DOMAIN s
    BY <1>1, <1>3
  <2> QED BY <1>1, <1>2, <1>6, <1>8, <2>1, <2>2 DEF SR!Encloses, Opens
<1>9. CASE i # p /\ i \in O
  <2>1. i \in 1..(p - 1) /\ i < p
    BY <1>3, <1>9
  <2>2. PICK e \in i..l : e = EndIn(s, i) /\ IsEnd(O, E, i, l, e) /\ SR!EndOf(i) = e
    <3>1. i \in Opens(source) /\ h[Len(source)] = <<>>
      BY <1>1, <1>2, <1>3, <1>9
    <3>2. EndIn(s, i) \in i..l /\ IsEnd(O, E, i, l, EndIn(s, i))
      BY <1>1, <1>2, <3>1, EndInIs
    <3>3. SR!EndOf(i) = EndIn(s, i)
      BY <1>1, <3>1, MeaningOfEnd
    <3> QED BY <3>2, <3>3
  <2>3. e > p <=> IsAround(h, i, p)
    BY <1>3, <1>9, <2>1, <2>2, AroundIs
  <2>4. source[i] \in SR!Openers
    BY <1>1, <1>2, <1>6, <1>9 DEF Opens
  <2>5. p < e <=> e > p
    BY <1>3, <2>2
  <2> QED BY <1>5, <2>1, <2>2, <2>3, <2>4, <2>5 DEF SR!Encloses
<1> QED BY <1>7, <1>8, <1>9

(* The innermost of them of a kind.                                        *)
LEMMA MeaningOfInnermost ==
  ASSUME NEW h, Legible(h, source), NEW p \in DOMAIN source, NEW n,
         Visited(h, source, p, n), source[p] # "end",
         NEW ops, NEW c \in Range(n), source[c] \in ops,
         \A i \in Range(n) : source[i] \in ops => i <= c
  PROVE  SR!InnermostOf(p, ops) = c
<1>1. p \in Nat /\ \A i \in Range(n) : i \in 1..p
  <2>1. p \in Nat /\ \A k \in DOMAIN n : n[k] \in 1..(p - 1)
    BY NestFacts
  <2>2. 1..(p - 1) \subseteq 1..p
    BY <2>1
  <2> QED BY <2>1, <2>2 DEF Range
<1>2. PICK K : K = {i \in 1..p : source[i] \in ops /\ SR!Encloses(i, p)}
  OBVIOUS
<1>3. \A i : i \in K <=> i \in Range(n) /\ source[i] \in ops
  BY <1>1, <1>2, MeaningOfAround
<1> DEFINE Q(i) == \A k \in 1..p : source[k] \in ops /\ SR!Encloses(k, p) => k <= i
<1>4. \A i : Q(i) <=> \A k \in K : k <= i
  BY <1>2
<1>5. SR!InnermostOf(p, ops) = CHOOSE i \in K : Q(i)
  BY <1>2 DEF SR!InnermostOf
<1> HIDE DEF Q
<1>6. c \in K /\ Q(c)
  BY <1>3, <1>4
<1>7. PICK d : d = SR!InnermostOf(p, ops)
  OBVIOUS
<1>8. d \in K /\ Q(d)
  BY <1>5, <1>6, <1>7
<1>9. c <= d /\ d <= c /\ c \in Nat /\ d \in Nat
  BY <1>1, <1>3, <1>4, <1>6, <1>8
<1> QED BY <1>7, <1>9

(* The construct that an end closes is the innermost.                      *)
LEMMA MeaningOfOpener ==
  ASSUME NEW h, Legible(h, source), NEW p \in DOMAIN source, NEW n,
         Visited(h, source, p, n), source[p] = "end"
  PROVE  SR!OpenerOf(p) = Last(n)
<1>0. PICK s : s = source
  OBVIOUS
<1>1. PICK l \in Nat : l = Len(source) /\ s = source /\ DOMAIN s = 1..l
  <2>1. Len(source) \in Nat /\ DOMAIN source = 1..Len(source)
    BY LegibleFacts
  <2> QED BY <1>0, <2>1
<1>2. PICK O, E : O = Opens(s) /\ E = Ends(s)
  OBVIOUS
<1>3. /\ IsHistory(h, O, E, l) /\ h[l] = <<>> /\ n = h[p - 1] /\ p \in 1..l
      /\ n # <<>> /\ n \in Seq(Nat) /\ h[Len(source)] = <<>>
  <2>1. n # <<>>
    BY NestMoves
  <2>2. n \in Seq(Nat)
    BY NestFacts
  <2>3. IsHistory(h, O, E, l)
    BY <1>1, <1>2, LegibleFacts
  <2> QED BY <1>1, <2>1, <2>2, <2>3 DEF Visited
<1>4. PICK i \in Nat : i = Last(n) /\ i < p /\ i \in O /\ i \in Range(n)
  BY <1>1, <1>2, <1>3, LastOpener
<1>5. SR!Openers = Openers
  BY DEF SR!Openers, SR!LoopHeads, Openers, LoopHeads
<1>6. \A j : j \in DOMAIN s => (j \in O <=> source[j] \in SR!Openers)
  BY <1>1, <1>2, <1>5 DEF Opens
<1>7. i \in 1..p /\ source[i] \in SR!Openers /\ SR!EndOf(i) = p
  <2>1. i \in DOMAIN s
    BY <1>2, <1>4 DEF Opens
  <2>2. i \in 1..p
    BY <1>1, <1>3, <1>4, <2>1
  <2>3. SR!EndOf(i) = EndIn(source, i)
    BY <1>1, <1>2, <1>3, <1>4, MeaningOfEnd
  <2>4. EndIn(source, i) = p
    BY <1>4, EndFound
  <2> QED BY <1>4, <1>6, <2>1, <2>2, <2>3, <2>4
<1>8. ASSUME NEW j \in 1..p, source[j] \in SR!Openers, SR!EndOf(j) = p
      PROVE  j = i
  <2>1. j \in DOMAIN s /\ j \in O /\ j \in 1..l
    <3>1. j \in DOMAIN s
      BY <1>1, <1>3
    <3> QED BY <1>1, <1>6, <1>8, <3>1
  <2>2. IsEnd(O, E, j, l, p) /\ p \in j..l
    <3>1. EndIn(source, j) = p
      BY <1>1, <1>2, <1>3, <1>8, <2>1, MeaningOfEnd
    <3> QED BY <1>1, <1>2, <1>3, <2>1, <3>1, EndInIs
  <2>3. p \in (j + 1)..p
    <3>1. j # p
      BY <1>8, <1>5 DEF Openers, LoopHeads
    <3>2. p \in Nat /\ j \in Nat /\ j <= p
      BY <1>3, <2>1
    <3> QED BY <3>1, <3>2
  <2>4. IsAround(h, j, p)
    BY <1>3, <2>1, <2>2, <2>3, InsideOne
  <2>5. PICK k \in DOMAIN n : n[k] = j
    BY <1>3, <2>4 DEF IsAround
  <2>6. PICK m : m = Shorter(n)
    OBVIOUS
  <2>7. Visited(h, source, p + 1, m) /\ Range(m) = Range(n) \ {i} /\ m \in Seq(Nat)
    BY <1>3, <1>4, <2>6, NestMoves, LastOpener
  <2>8. m = h[p]
    <3>1. p + 1 - 1 = p
      BY <1>3
    <3> QED BY <2>7, <3>1 DEF Visited
  <2>9. j \notin Range(m)
    <3> SUFFICES ASSUME NEW k2 \in DOMAIN m, m[k2] = j
                 PROVE  FALSE
      BY DEF Range
    <3>0. p \in 0..l
      BY <1>3
    <3>1. IsOpenAt(h, O, E, l, p, m, k2)
      BY <1>3, <2>7, <2>8, <3>0, OuterPart
    <3>2. EndsAfter(O, E, l, j, p)
      BY <3>1 DEF IsOpenAt
    <3>3. p > p
      BY <2>2, <3>2 DEF EndsAfter
    <3> QED BY <1>3, <3>3
  <2> QED BY <2>5, <2>7, <2>9 DEF Range
<1>9. PICK d : d = SR!OpenerOf(p)
  OBVIOUS
<1>10. d \in 1..p /\ source[d] \in SR!Openers /\ SR!EndOf(d) = p
  BY <1>7, <1>9 DEF SR!OpenerOf
<1> QED BY <1>4, <1>8, <1>9, <1>10

(* A break or continue belongs to the innermost loop, an elif or else to   *)
(* the innermost construct.                                                *)
LEMMA MeaningOfParents ==
  ASSUME NEW h, Legible(h, source), NEW p \in DOMAIN source, NEW n,
         Visited(h, source, p, n)
  PROVE  /\ source[p] \in {"break", "continue"} =>
              /\ SR!InnermostOf(p, SR!LoopHeads) = LoopOf(source, n)
              /\ LoopOf(source, n) \in Range(n) /\ source[LoopOf(source, n)] \in LoopHeads
         /\ source[p] \in {"elif", "else"} =>
              SR!InnermostOf(p, SR!Openers) = Last(n) /\ n # <<>>
<1>1. /\ n \in Seq(Nat) /\ \A k \in DOMAIN n : n[k] \in Opens(source)
      /\ \A j, k \in DOMAIN n : j < k => n[j] < n[k]
      /\ Placed(source, n, p)
  BY NestFacts DEF Legible, Visited
<1>2. SR!Openers = Openers /\ SR!LoopHeads = LoopHeads
  BY DEF SR!Openers, SR!LoopHeads, Openers, LoopHeads
<1>3. ASSUME source[p] \in {"break", "continue"}
      PROVE  /\ SR!InnermostOf(p, SR!LoopHeads) = LoopOf(source, n)
             /\ LoopOf(source, n) \in Range(n) /\ source[LoopOf(source, n)] \in LoopHeads
  <2>1. PICK q \in DOMAIN n : source[n[q]] \in LoopHeads
    BY <1>1, <1>3 DEF Placed
  <2>2. PICK c : c = LoopOf(source, n)
    OBVIOUS
  <2>3. /\ c \in Range(n) /\ source[c] \in LoopHeads
        /\ \A i \in Range(n) : source[i] \in LoopHeads => i <= c
    BY <1>1, <2>1, <2>2, LoopFacts
  <2>4. SR!InnermostOf(p, LoopHeads) = c
    BY <1>3, <2>3, MeaningOfInnermost
  <2> QED BY <1>2, <2>2, <2>3, <2>4
<1>4. ASSUME source[p] \in {"elif", "else"}
      PROVE  SR!InnermostOf(p, SR!Openers) = Last(n) /\ n # <<>>
  <2>1. n # <<>>
    BY <1>1, <1>4 DEF Placed
  <2>2. PICK c : c = Last(n)
    OBVIOUS
  <2>3. c \in Range(n) /\ c \in Opens(source) /\ \A i \in Range(n) : i <= c
    BY <2>1, <2>2, LastOpener
  <2>4. source[c] \in Openers
    BY <2>3 DEF Opens
  <2>5. SR!InnermostOf(p, Openers) = c
    BY <1>4, <2>3, <2>4, MeaningOfInnermost
  <2> QED BY <1>2, <2>1, <2>2, <2>5
<1> QED BY <1>3, <1>4

(* The constructs around an item end behind it.                            *)
LEMMA EndsBehind ==
  ASSUME NEW s, NEW h, Legible(h, s), NEW p \in DOMAIN s, NEW n, Visited(h, s, p, n),
         s[p] # "end", NEW i \in Range(n)
  PROVE  i \in Opens(s) /\ EndIn(s, i) \in (p + 1)..Len(s)
<1>1. PICK l \in Nat : l = Len(s) /\ DOMAIN s = 1..l
  BY LegibleFacts
<1>2. PICK O, E : O = Opens(s) /\ E = Ends(s)
  OBVIOUS
<1>3. /\ IsHistory(h, O, E, l) /\ h[l] = <<>> /\ n = h[p - 1] /\ p \in 1..l
      /\ p \notin E /\ p \in Nat
  BY <1>1, <1>2, LegibleFacts DEF Visited, Ends
<1>4. i \in 1..(p - 1) /\ i \in O
  BY <1>2, NestFacts DEF Range
<1>5. PICK e \in i..l : e = EndIn(s, i) /\ IsEnd(O, E, i, l, e)
  BY <1>1, <1>2, <1>3, <1>4, EndInIs
<1>6. IsAround(h, i, p)
  BY <1>3 DEF IsAround, Range
<1>7. e > p
  BY <1>3, <1>4, <1>5, <1>6, AroundIs
<1> QED BY <1>1, <1>2, <1>3, <1>4, <1>5, <1>7

-----------------------------------------------------------------------------
(* What comes first at an item does not depend on the items before it.     *)
LEMMA LeadsAhead ==
  ASSUME NEW h, Legible(h, source), h[Len(source)] = <<>>,
         NEW p \in 1..(Len(source) + 1), NEW f, NEW g,
         \A k \in (p + 1)..(Len(source) + 1) : f[k] = g[k]
  PROVE  SR!Leads(f, p) = SR!Leads(g, p)
<1>1. PICK l \in Nat : l = Len(source) /\ DOMAIN source = 1..l
  BY LegibleFacts
<1>2. CASE p = l + 1
  BY <1>1, <1>2 DEF SR!Leads
<1>3. CASE p \in DOMAIN source /\ source[p] \in {"break", "elif", "else"}
  <2>1. PICK n : n = h[p - 1] /\ Visited(h, source, p, n)
    BY <1>1 DEF Visited
  <2>2. PICK i : /\ i = IF source[p] = "break" THEN SR!InnermostOf(p, SR!LoopHeads)
                        ELSE SR!InnermostOf(p, SR!Openers)
    OBVIOUS
  <2>3. i \in Range(n)
    BY <1>3, <2>1, <2>2, MeaningOfParents, LastOpener
  <2>4. i \in Opens(source) /\ EndIn(source, i) \in (p + 1)..l
    BY <1>1, <1>3, <2>1, <2>3, EndsBehind
  <2>5. SR!EndOf(i) = EndIn(source, i)
    BY <2>4, MeaningOfEnd
  <2>6. SR!EndOf(i) + 1 \in (p + 1)..(l + 1)
    BY <1>1, <2>4, <2>5
  <2>7. f[SR!EndOf(i) + 1] = g[SR!EndOf(i) + 1]
    BY <1>1, <2>6
  <2> QED BY <1>1, <1>3, <2>2, <2>7 DEF SR!Leads
<1>4. CASE p \in DOMAIN source /\ source[p] = "end"
  <2>1. f[p + 1] = g[p + 1]
    BY <1>1, <1>4
  <2> QED BY <1>4, <2>1 DEF SR!Leads
<1>5. CASE p \in DOMAIN source /\ source[p] \notin {"break", "elif", "else", "end"}
  <2>1. source[p] \in AllOps
    <3>1. source[p] \in Op
      BY <1>5, LegibleFacts, SeqMember
    <3> QED BY <3>1, OpAssumption
  <2> QED BY <1>5, <2>1 DEF SR!Leads, AllOps
<1> QED BY <1>1, <1>2, <1>3, <1>4, <1>5

(* So it is defined at every item: from the last one back.                 *)
LEMMA FirstIs ==
  ASSUME NEW h, Legible(h, source), h[Len(source)] = <<>>
  PROVE  \A p \in 1..(Len(source) + 1) : SR!First[p] = SR!Leads(SR!First, p)
<1>1. PICK l \in Nat : l = Len(source) /\ DOMAIN source = 1..l
  BY LegibleFacts
<1> DEFINE Is(g, q) == \A p \in q..(l + 1) : g[p] = SR!Leads(g, p)
           Fits(q) == \E g : g = [p \in 1..(l + 1) |-> g[p]] /\ Is(g, q)
<1>2. Fits(l + 1)
  <2>1. PICK g : g = [p \in 1..(l + 1) |-> SR!Returned]
    OBVIOUS
  <2>2. ASSUME NEW p \in (l + 1)..(l + 1)
        PROVE  g[p] = SR!Leads(g, p)
    BY <1>1, <2>1 DEF SR!Leads
  <2>3. g = [p \in 1..(l + 1) |-> g[p]]
    BY <2>1
  <2> QED BY <2>2, <2>3
<1>3. PICK q \in 1..(l + 1) : Fits(q) /\ \A k \in 1..(l + 1) : Fits(k) => q <= k
  <2>1. /\ {k \in 1..(l + 1) : Fits(k)} \in SUBSET Nat
        /\ l + 1 \in {k \in 1..(l + 1) : Fits(k)}
    BY <1>2
  <2> HIDE DEF Fits
  <2>2. PICK q \in {k \in 1..(l + 1) : Fits(k)} :
          \A m \in {k \in 1..(l + 1) : Fits(k)} : q <= m
    BY <2>1, NatMin
  <2> QED BY <2>2
<1>4. PICK g : g = [p \in 1..(l + 1) |-> g[p]] /\ Is(g, q)
  BY <1>3
<1>5. q = 1
  <2> SUFFICES ASSUME q # 1 PROVE FALSE
    OBVIOUS
  <2>1. PICK r \in 1..l : r = q - 1
    BY <1>3
  <2>2. PICK f : f = [p \in 1..(l + 1) |-> IF p = r THEN SR!Leads(g, r) ELSE g[p]]
    OBVIOUS
  <2>3. f = [p \in 1..(l + 1) |-> f[p]]
    BY <2>2
  <2>4. ASSUME NEW p \in r..(l + 1)
        PROVE  f[p] = SR!Leads(f, p)
    <3>1. \A k \in (p + 1)..(l + 1) : g[k] = f[k]
      BY <2>1, <2>2
    <3>2. p \in 1..(l + 1)
      BY <2>1
    <3>3. SR!Leads(g, p) = SR!Leads(f, p)
      BY <1>1, <3>1, <3>2, LeadsAhead
    <3>4. CASE p = r
      BY <2>2, <3>2, <3>3, <3>4
    <3>5. CASE p # r
      <4>1. p \in q..(l + 1)
        BY <2>1, <3>5
      <4>2. g[p] = SR!Leads(g, p)
        BY <1>4, <4>1
      <4> QED BY <2>2, <3>2, <3>3, <3>5, <4>2
    <3> QED BY <3>4, <3>5
  <2>5. Fits(r)
    BY <2>3, <2>4
  <2> HIDE DEF Fits
  <2>6. q <= r
    BY <1>3, <2>1, <2>5
  <2> QED BY <2>1, <2>6
<1> DEFINE R(f) == f = [p \in 1..(l + 1) |-> SR!Leads(f, p)]
<1>6. R(g)
  BY <1>4, <1>5
<1>7. SR!First = CHOOSE f : R(f)
  BY <1>1 DEF SR!First
<1> HIDE DEF R
<1>8. R(SR!First)
  BY <1>6, <1>7
<1>9. PICK f : f = SR!First /\ R(f)
  BY <1>8
<1>10. \A p \in 1..(l + 1) : f[p] = SR!Leads(f, p)
  BY <1>9 DEF R
<1> QED BY <1>1, <1>9, <1>10

(* What comes first at each kind of item, n being the openers around it.   *)
LEMMA FirstAt ==
  ASSUME NEW h, Legible(h, source), NEW p \in DOMAIN source, NEW n,
         Visited(h, source, p, n), NEW f, f = SR!First
  PROVE  /\ source[p] \in {"stmt", "return"} => f[p] = <<source[p], p>>
         /\ source[p] \in {"if", "while"} => f[p] = <<"cond", p>>
         /\ source[p] = "for" => f[p] = <<"init", p>>
         /\ source[p] = "break" => f[p] = f[EndIn(source, LoopOf(source, n)) + 1]
         /\ source[p] = "continue" => f[p] = <<"cond", LoopOf(source, n)>>
         /\ source[p] \in {"elif", "else"} => f[p] = f[EndIn(source, Last(n)) + 1]
         /\ source[p] = "end" =>
              /\ source[Last(n)] = "if" => f[p] = f[p + 1]
              /\ source[Last(n)] = "while" => f[p] = <<"cond", Last(n)>>
              /\ source[Last(n)] = "for" => f[p] = <<"iter", Last(n)>>
<1>1. PICK l \in Nat : l = Len(source) /\ DOMAIN source = 1..l
  BY LegibleFacts
<1>2. p # l + 1 /\ p \in 1..(l + 1) /\ h[Len(source)] = <<>>
  BY <1>1 DEF Visited
<1>3. f[p] = SR!Leads(f, p)
  BY <1>1, <1>2, FirstIs
<1>4. /\ source[p] \in {"stmt", "return"} => f[p] = <<source[p], p>>
      /\ source[p] \in {"if", "while"} => f[p] = <<"cond", p>>
      /\ source[p] = "for" => f[p] = <<"init", p>>
  BY <1>1, <1>2, <1>3 DEF SR!Leads
<1>5. ASSUME source[p] = "break"
      PROVE  f[p] = f[EndIn(source, LoopOf(source, n)) + 1]
  <2>1. PICK i : /\ i = LoopOf(source, n) /\ i = SR!InnermostOf(p, SR!LoopHeads)
                 /\ i \in Range(n)
    BY <1>5, MeaningOfParents
  <2>2. SR!EndOf(i) = EndIn(source, i)
    <3>1. i \in Opens(source)
      BY <1>5, <2>1, EndsBehind
    <3> QED BY <1>2, <3>1, MeaningOfEnd
  <2> QED BY <1>1, <1>2, <1>3, <1>5, <2>1, <2>2 DEF SR!Leads
<1>6. ASSUME source[p] = "continue"
      PROVE  f[p] = <<"cond", LoopOf(source, n)>>
  <2>1. SR!InnermostOf(p, SR!LoopHeads) = LoopOf(source, n)
    BY <1>6, MeaningOfParents
  <2> QED BY <1>1, <1>2, <1>3, <1>6, <2>1 DEF SR!Leads
<1>7. ASSUME source[p] \in {"elif", "else"}
      PROVE  f[p] = f[EndIn(source, Last(n)) + 1]
  <2>1. PICK i : i = Last(n) /\ i = SR!InnermostOf(p, SR!Openers) /\ n # <<>>
    BY <1>7, MeaningOfParents
  <2>2. SR!EndOf(i) = EndIn(source, i)
    BY <1>2, <2>1, LastOpener, MeaningOfEnd
  <2> QED BY <1>1, <1>2, <1>3, <1>7, <2>1, <2>2 DEF SR!Leads
<1>8. ASSUME source[p] = "end"
      PROVE  /\ source[Last(n)] = "if" => f[p] = f[p + 1]
             /\ source[Last(n)] = "while" => f[p] = <<"cond", Last(n)>>
             /\ source[Last(n)] = "for" => f[p] = <<"iter", Last(n)>>
  <2>1. SR!OpenerOf(p) = Last(n)
    BY <1>8, MeaningOfOpener
  <2> QED BY <1>1, <1>2, <1>3, <1>8, <2>1 DEF SR!Leads
<1> QED BY <1>4, <1>5, <1>6, <1>7, <1>8

(* A branch is one of the innermost construct, and there are no others.    *)
LEMMA BranchOfInnermost ==
  ASSUME NEW s, NEW h, Legible(h, s), h[Len(s)] = <<>>, NEW i \in Opens(s),
         NEW p \in BranchesIn(s, i), p # i
  PROVE  /\ p \in DOMAIN s /\ i < p /\ s[p] \in {"elif", "else"}
         /\ Visited(h, s, p, h[p - 1]) /\ Last(h[p - 1]) = i
<1>1. PICK l \in Nat : l = Len(s) /\ DOMAIN s = 1..l
  BY LegibleFacts
<1>2. PICK O, E : O = Opens(s) /\ E = Ends(s)
  OBVIOUS
<1>3. IsHistory(h, O, E, l) /\ h[l] = <<>>
  BY <1>1, <1>2, LegibleFacts
<1>4. /\ i \in 1..l /\ i \in O
      /\ \E e \in i..l : e = EndIn(s, i) /\ IsEnd(O, E, i, l, e)
  BY <1>1, <1>2, <1>3, EndInIs
<1>5. PICK e \in i..l : e = EndIn(s, i) /\ IsEnd(O, E, i, l, e)
  BY <1>4
<1>6. p \in (i + 1)..(e - 1) /\ s[p] \in {"elif", "else"} /\ DepthOf(s, i, p) = 1
  BY <1>5 DEF BranchesIn
<1>7. p \in 1..l /\ i < p /\ p \in i..l /\ e > p /\ i \in 1..(p - 1) /\ p - 1 \in 0..l
  BY <1>4, <1>5, <1>6
<1>8. PICK n : n = h[p - 1] /\ Visited(h, s, p, n)
  BY <1>1, <1>3, <1>7 DEF Visited
<1>9. n \in Seq(Nat) /\ h[p] = n /\ p \notin E
  <2>1. s[p] \notin Openers /\ s[p] # "end" /\ p \in DOMAIN s
    BY <1>1, <1>6, <1>7 DEF Openers, LoopHeads
  <2>2. Visited(h, s, p + 1, n)
    BY <1>8, <2>1, NestMoves
  <2>3. p + 1 - 1 = p
    BY <1>7
  <2>4. n \in Seq(Nat)
    BY <1>8, NestFacts
  <2>5. h[p] = n
    BY <1>7, <2>2, <2>3 DEF Visited
  <2> QED BY <1>2, <2>1, <2>4, <2>5 DEF Ends
<1>10. IsAround(h, i, p)
  BY <1>3, <1>4, <1>5, <1>7, <1>9, AroundIs
<1>11. PICK k \in DOMAIN n : n[k] = i
  BY <1>8, <1>10 DEF IsAround
<1>12. PICK b \in Nat : b = Len(n) /\ DOMAIN n = 1..b /\ b # 0
  <2>1. PICK b \in Nat : b = Len(n)
    BY <1>9
  <2>2. DOMAIN n = 1..b
    BY <1>9, <2>1
  <2>3. k \in 1..b
    BY <2>2
  <2> QED BY <2>1, <2>2, <2>3
<1>13. Recorded(h, O, E, p) /\ p \in Nat
  BY <1>1, <1>3, <1>7 DEF IsHistory
<1>14. Len(h[i - 1]) = k - 1
  BY <1>9, <1>11, <1>13 DEF Recorded, Levels
<1>15. Balance(O, E, i, p) = b - (k - 1)
  <2>1. i - 1 \in 0..p /\ i - 1 + 1 = i
    BY <1>4, <1>7
  <2> QED BY <1>9, <1>12, <1>13, <1>14, <2>1 DEF Recorded, Counts
<1>16. Balance(O, E, i, p) = 1
  BY <1>1, <1>2, <1>4, <1>6, <1>7, DepthIs
<1>17. k = b
  BY <1>12, <1>15, <1>16
<1>18. Last(n) = i
  BY <1>11, <1>12, <1>17 DEF Last
<1> QED BY <1>1, <1>6, <1>7, <1>8, <1>18

(* SR finds the same branches behind b as the visitors.                    *)
LEMMA MeaningOfBranches ==
  ASSUME NEW h, Legible(h, source), h[Len(source)] = <<>>, NEW i \in Opens(source),
         NEW b \in Nat, i <= b
  PROVE  {p \in (b + 1)..Len(source) : SR!IsOf(i, p)}
           = {p \in BranchesIn(source, i) : p > b}
<1>1. PICK l \in Nat : l = Len(source) /\ DOMAIN source = 1..l
  BY LegibleFacts
<1>2. i \in 1..l
  BY <1>1 DEF Opens
<1>3. ASSUME NEW p \in (b + 1)..l, SR!IsOf(i, p)
      PROVE  p \in BranchesIn(source, i) /\ p > b
  <2>1. p \in DOMAIN source /\ p > b /\ p # i
    BY <1>1, <1>2
  <2>2. source[p] \in {"elif", "else"} /\ SR!InnermostOf(p, SR!Openers) = i
    BY <1>3, <2>1 DEF SR!IsOf
  <2>3. PICK n : n = h[p - 1] /\ Visited(h, source, p, n)
    BY <1>1, <2>1 DEF Visited
  <2>4. Last(n) = i
    BY <2>1, <2>2, <2>3, MeaningOfParents
  <2> QED BY <2>1, <2>2, <2>3, <2>4, BranchFound
<1>4. ASSUME NEW p \in BranchesIn(source, i), p > b
      PROVE  p \in (b + 1)..l /\ SR!IsOf(i, p)
  <2>1. p # i
    BY <1>2, <1>4
  <2>2. /\ p \in DOMAIN source /\ i < p /\ source[p] \in {"elif", "else"}
        /\ Visited(h, source, p, h[p - 1]) /\ Last(h[p - 1]) = i
    BY <2>1, BranchOfInnermost
  <2>3. SR!InnermostOf(p, SR!Openers) = i
    BY <2>2, MeaningOfParents
  <2> QED BY <1>1, <1>4, <2>2, <2>3 DEF SR!IsOf
<1> QED BY <1>1, <1>3, <1>4

-----------------------------------------------------------------------------
(* What the blocks mean.  f says what comes first at each item of the body *)
(* s, o where a false condition leads.                                     *)

(* What is evaluated first when control comes to the block b.              *)
Lead(s, f, b) ==
  LET p == b[2] IN
  IF b[1] = "func_entry" THEN f[1]
  ELSE IF b[1] = "init" THEN f[p]
  ELSE IF b[1] \in {"branch", "loop_body"} THEN f[p + 1]
  ELSE IF b[1] \in {"endif", "loop_end"} THEN f[EndIn(s, p) + 1]
  ELSE IF b[1] = "cond" /\ s[p] = "else" THEN f[p + 1]
  ELSE IF b[1] = "iter" /\ s[p] = "for" THEN <<"iter", p>>
  ELSE <<"cond", p>>

(* What may be evaluated first from the instruction x on.                  *)
Meets(s, f, x) ==
  IF x.do = "run" THEN {x.what}
  ELSE IF x.do = "ret" THEN {SR!Returned}
  ELSE {Lead(s, f, x.to[k]) : k \in DOMAIN x.to}

(* What may be evaluated after w.                                          *)
Comes(f, o, w) ==
  IF w[1] = "start" THEN {f[1]}
  ELSE IF w[1] = "stmt" THEN {f[w[2] + 1]}
  ELSE IF w[1] \in {"init", "iter"} THEN {<<"cond", w[2]>>}
  ELSE IF w[1] = "cond" THEN {f[w[2] + 1], o[w[2]]}
  ELSE {SR!Returned}

(* An instruction whose targets are in d.                                  *)
Parts == {"stmt", "return", "init", "cond", "iter"}
Instructs(s, d, x) ==
  \/ \E part \in Parts, p \in DOMAIN s : x = Run(part, p)
  \/ \E b \in d : x = Br(b)
  \/ \E b, c \in d : x = CondBr(b, c)
  \/ x = Ret

(* Code that begins with w, and goes on after what is evaluated as the     *)
(* source does.                                                            *)
Piece(s, f, o, d, w, c) ==
  /\ IsCode(c)
  /\ \A k \in DOMAIN c : Instructs(s, d, c[k])
  /\ c # <<>> => Meets(s, f, c[1]) = {w}
  /\ \A k \in DOMAIN c :
       k > 1 /\ ~IsTerminator(c[k - 1]) =>
         Meets(s, f, c[k]) \subseteq Comes(f, o, c[k - 1].what)

(* The code c of the block b may go on with w.                             *)
Reaches(s, f, o, b, c, w) ==
  IF c = <<>> THEN w = Lead(s, f, b)
  ELSE ~IsTerminator(Last(c)) => w \in Comes(f, o, Last(c).what)

Sound(s, f, o, bs) ==
  \A b \in DOMAIN bs : Piece(s, f, o, DOMAIN bs, Lead(s, f, b), bs[b])

(* From an evaluation what it evaluates.                                   *)
LEMMA MeetsRun ==
  ASSUME NEW s, NEW f, NEW part, NEW p
  PROVE  Meets(s, f, Run(part, p)) = {<<part, p>>}
BY DEF Meets, Run

(* The part and the item that it names.                                    *)
LEMMA RunWhat ==
  ASSUME NEW part, NEW p
  PROVE  Run(part, p).what = <<part, p>>
BY DEF Run

(* From a jump what its target begins with.                                *)
LEMMA MeetsBr ==
  ASSUME NEW s, NEW f, NEW b
  PROVE  Meets(s, f, Br(b)) = {Lead(s, f, b)}
<1>1. Br(b).to = <<b>> /\ Br(b).do = "br"
  BY DEF Br
<1>2. DOMAIN <<b>> = {1} /\ <<b>>[1] = b
  OBVIOUS
<1>3. {Lead(s, f, <<b>>[k]) : k \in {1}} = {Lead(s, f, b)}
  BY <1>2
<1> QED BY <1>1, <1>2, <1>3 DEF Meets

(* From a branch what one of its targets begins with.                      *)
LEMMA MeetsCondBr ==
  ASSUME NEW s, NEW f, NEW b, NEW c
  PROVE  Meets(s, f, CondBr(b, c)) = {Lead(s, f, b), Lead(s, f, c)}
<1>1. CondBr(b, c).to = <<b, c>> /\ CondBr(b, c).do = "condbr"
  BY DEF CondBr
<1>2. DOMAIN <<b, c>> = {1, 2} /\ <<b, c>>[1] = b /\ <<b, c>>[2] = c
  OBVIOUS
<1>3. {Lead(s, f, <<b, c>>[k]) : k \in {1, 2}} = {Lead(s, f, b), Lead(s, f, c)}
  BY <1>2
<1> QED BY <1>1, <1>2, <1>3 DEF Meets

(* From a return the end of the run.                                       *)
LEMMA MeetsRet ==
  ASSUME NEW s, NEW f
  PROVE  Meets(s, f, Ret) = {SR!Returned}
BY DEF Meets, Ret

(* Pieces of at most two instructions.                                     *)
LEMMA ShortPiece ==
  ASSUME NEW s, NEW f, NEW o, NEW d, NEW w
  PROVE  /\ Piece(s, f, o, d, w, <<>>)
         /\ \A x : Instructs(s, d, x) /\ Meets(s, f, x) = {w} => Piece(s, f, o, d, w, <<x>>)
         /\ \A x, y : /\ Instructs(s, d, x) /\ Meets(s, f, x) = {w} /\ Instructs(s, d, y)
                      /\ Meets(s, f, y) \subseteq Comes(f, o, x.what)
                      => Piece(s, f, o, d, w, <<x, y>>)
<1>1. Piece(s, f, o, d, w, <<>>)
  BY ShortCode DEF Piece
<1>2. ASSUME NEW x, Instructs(s, d, x), Meets(s, f, x) = {w}
      PROVE  Piece(s, f, o, d, w, <<x>>)
  <2>1. DOMAIN <<x>> = {1} /\ <<x>>[1] = x
    OBVIOUS
  <2>2. IsCode(<<x>>)
    BY ShortCode
  <2> QED BY <1>2, <2>1, <2>2 DEF Piece
<1>3. ASSUME NEW x, NEW y, Instructs(s, d, x), Meets(s, f, x) = {w}, Instructs(s, d, y),
             Meets(s, f, y) \subseteq Comes(f, o, x.what)
      PROVE  Piece(s, f, o, d, w, <<x, y>>)
  <2>1. PICK c : c = <<x, y>>
    OBVIOUS
  <2>2. DOMAIN c = {1, 2} /\ c[1] = x /\ c[2] = y
    BY <2>1
  <2>3. IsCode(c)
    BY <2>1, ShortCode
  <2>4. \A k \in DOMAIN c : k > 1 => k = 2 /\ k - 1 = 1
    BY <2>2
  <2>5. \A k \in DOMAIN c : Instructs(s, d, c[k])
    BY <1>3, <2>2
  <2>6. ASSUME NEW k \in DOMAIN c, k > 1
        PROVE  Meets(s, f, c[k]) \subseteq Comes(f, o, c[k - 1].what)
    BY <1>3, <2>2, <2>4, <2>6
  <2> QED BY <1>3, <2>1, <2>2, <2>3, <2>5, <2>6 DEF Piece
<1> QED BY <1>1, <1>2, <1>3

(* Pieces fit together where the first may go on with the second.          *)
LEMMA GluedPiece ==
  ASSUME NEW s, NEW f, NEW o, NEW d, NEW b, NEW c, Piece(s, f, o, d, Lead(s, f, b), c),
         NEW w, Reaches(s, f, o, b, c, w), NEW t, Piece(s, f, o, d, w, t)
  PROVE  Piece(s, f, o, d, Lead(s, f, b), c \o t)
<1>1. PICK S : c \in Seq(S)
  BY DEF Piece, IsCode
<1>2. PICK T : t \in Seq(T)
  BY DEF Piece, IsCode
<1>3. c \in Seq(S \cup T) /\ t \in Seq(S \cup T)
  BY <1>1, <1>2, SeqWider
<1>4. PICK g \in Seq(S \cup T) : g = c \o t
  <2>1. c \o t \in Seq(S \cup T)
    BY <1>3
  <2> QED BY <2>1
<1>5. PICK a, e \in Nat : a = Len(c) /\ e = Len(t)
  BY <1>3
<1>6. DOMAIN c = 1..a /\ DOMAIN t = 1..e
  BY <1>3, <1>5
<1>7. Len(g) = a + e /\ DOMAIN g = 1..(a + e)
  BY <1>3, <1>4, <1>5
<1>8. \A k \in 1..a : g[k] = c[k]
  BY <1>3, <1>4, <1>5
<1>9. \A k \in 1..e : g[a + k] = t[k]
  BY <1>3, <1>4, <1>5
<1>10. \A k \in 1..(a + e) : k \in 1..a \/ \E j \in 1..e : k = a + j
  <2> SUFFICES ASSUME NEW k \in 1..(a + e), k \notin 1..a
               PROVE  \E j \in 1..e : k = a + j
    OBVIOUS
  <2>1. k - a \in 1..e /\ k = a + (k - a)
    OBVIOUS
  <2> QED BY <2>1
<1>11. (c = <<>> <=> a = 0) /\ (t = <<>> <=> e = 0) /\ (g = <<>> <=> a + e = 0)
  BY <1>3, <1>4, <1>5, <1>7
<1>12. ASSUME NEW k \in DOMAIN g
       PROVE  Instructs(s, d, g[k])
  <2>1. CASE k \in 1..a
    <3>1. Instructs(s, d, c[k])
      BY <1>6, <2>1 DEF Piece
    <3> QED BY <1>8, <2>1, <3>1
  <2>2. CASE k \notin 1..a
    <3>1. PICK j \in 1..e : k = a + j
      BY <1>7, <1>10, <2>2
    <3>2. Instructs(s, d, t[j]) /\ g[k] = t[j]
      BY <1>6, <1>9, <3>1 DEF Piece
    <3> QED BY <3>2
  <2> QED BY <2>1, <2>2
<1>13. g # <<>> => Meets(s, f, g[1]) = {Lead(s, f, b)}
  <2>1. CASE a # 0
    <3>1. c # <<>> /\ 1 \in 1..a
      BY <1>11, <2>1
    <3>2. g[1] = c[1] /\ Meets(s, f, c[1]) = {Lead(s, f, b)}
      BY <1>8, <3>1 DEF Piece
    <3> QED BY <3>2
  <2>2. CASE a = 0 /\ e # 0
    <3>1. c = <<>> /\ t # <<>> /\ 1 \in 1..e /\ a + 1 = 1
      BY <1>11, <2>2
    <3>2. g[1] = t[1]
      BY <1>9, <3>1
    <3>3. w = Lead(s, f, b)
      BY <3>1 DEF Reaches
    <3> QED BY <3>1, <3>2, <3>3 DEF Piece
  <2> QED BY <1>11, <2>1, <2>2
<1>14. ASSUME NEW k \in DOMAIN g, k > 1, ~IsTerminator(g[k - 1])
       PROVE  Meets(s, f, g[k]) \subseteq Comes(f, o, g[k - 1].what)
  <2>1. CASE k \in 1..a
    <3>1. k - 1 \in 1..a
      BY <1>14, <2>1
    <3>2. g[k] = c[k] /\ g[k - 1] = c[k - 1]
      BY <1>8, <2>1, <3>1
    <3> QED BY <1>6, <1>14, <2>1, <3>2 DEF Piece
  <2>2. CASE k = a + 1
    <3>1. a # 0 /\ a \in 1..a /\ k - 1 = a /\ 1 \in 1..e
      BY <1>7, <1>14, <2>2
    <3>2. g[k - 1] = c[a] /\ c[a] = Last(c) /\ c # <<>>
      BY <1>5, <1>8, <1>11, <3>1 DEF Last
    <3>3. g[k] = t[1] /\ t # <<>>
      BY <1>9, <1>11, <2>2, <3>1
    <3>4. Meets(s, f, t[1]) = {w}
      BY <3>3 DEF Piece
    <3>5. w \in Comes(f, o, Last(c).what)
      BY <1>14, <3>2 DEF Reaches
    <3> QED BY <3>2, <3>3, <3>4, <3>5
  <2>3. CASE k \notin 1..a /\ k # a + 1
    <3>1. PICK j \in 1..e : k = a + j
      BY <1>7, <1>10, <2>3
    <3>2. j > 1 /\ j - 1 \in 1..e /\ k - 1 = a + (j - 1)
      BY <2>3, <3>1
    <3>3. g[k] = t[j] /\ g[k - 1] = t[j - 1]
      BY <1>9, <3>1, <3>2
    <3> QED BY <1>6, <1>14, <3>2, <3>3 DEF Piece
  <2> QED BY <2>1, <2>2, <2>3
<1>15. IsCode(g)
  BY DEF IsCode
<1> QED BY <1>4, <1>12, <1>13, <1>14, <1>15 DEF Piece

(* Whatever blocks are added, a piece stays one.                           *)
LEMMA WiderPiece ==
  ASSUME NEW s, NEW f, NEW o, NEW d, NEW e, d \subseteq e, NEW w, NEW c,
         Piece(s, f, o, d, w, c)
  PROVE  Piece(s, f, o, e, w, c)
<1>1. \A x : Instructs(s, d, x) => Instructs(s, e, x)
  BY DEF Instructs
<1> QED BY <1>1 DEF Piece

(* The blocks stay sound when the visitor appends what comes first at the  *)
(* item at p and the blocks it fills are sound.                            *)
LEMMA SoundKept ==
  ASSUME NEW s, NEW f, NEW o, NEW bs, Sound(s, f, o, bs), NEW i \in DOMAIN bs, NEW w,
         Reaches(s, f, o, i, bs[i], w),
         NEW cs, NEW t, NEW new, NEW full, Lays(bs, cs, i, t, new, full),
         Piece(s, f, o, DOMAIN cs, w, t),
         \A b \in full : Piece(s, f, o, DOMAIN cs, Lead(s, f, b), cs[b])
  PROVE  Sound(s, f, o, cs)
<1>1. DOMAIN bs \subseteq DOMAIN cs
  BY DEF Lays
<1>2. \A b \in DOMAIN bs : Piece(s, f, o, DOMAIN cs, Lead(s, f, b), bs[b])
  BY <1>1, WiderPiece DEF Sound
<1> SUFFICES ASSUME NEW b \in DOMAIN cs
             PROVE  Piece(s, f, o, DOMAIN cs, Lead(s, f, b), cs[b])
  BY DEF Sound
<1>3. CASE b = i
  <2>1. cs[b] = bs[i] \o t
    BY <1>3 DEF Lays
  <2> QED BY <1>2, <1>3, <2>1, GluedPiece
<1>4. CASE b \in full
  BY <1>4
<1>5. CASE b # i /\ b \notin full
  <2>1. cs[b] = IF b \in DOMAIN bs THEN bs[b] ELSE <<>>
    BY <1>5 DEF Lays
  <2> QED BY <1>2, <2>1, ShortPiece
<1> QED BY <1>3, <1>4, <1>5

(* The block that the false edge of the condition of the branch b leads to.*)
NextIn(s, i, b) ==
  LET later == {c \in BranchesIn(s, i) : c > b}
  IN  IF later = {} THEN <<"endif", i>>
      ELSE <<"cond", CHOOSE c \in later : \A d \in later : c <= d>>

(* Where a false condition leads, by SR and by the blocks.                 *)
LEMMA OthersAre ==
  ASSUME NEW h, Legible(h, source), h[Len(source)] = <<>>, NEW i \in Opens(source),
         NEW f, f = SR!First
  PROVE  /\ source[i] \in LoopHeads => Others[i] = f[EndIn(source, i) + 1]
         /\ source[i] = "if" =>
              \A b \in BranchesIn(source, i) : source[b] # "else" =>
                Others[b] = Lead(source, f, NextIn(source, i, b))
<1>1. PICK l \in Nat : l = Len(source) /\ DOMAIN source = 1..l
  BY LegibleFacts
<1>2. i \in 1..l
  BY <1>1 DEF Opens
<1>3. SR!EndOf(i) = EndIn(source, i)
  BY MeaningOfEnd
<1>4. SR!Openers = Openers /\ SR!LoopHeads = LoopHeads
  BY DEF SR!Openers, SR!LoopHeads, Openers, LoopHeads
<1>5. ASSUME source[i] \in LoopHeads
      PROVE  Others[i] = f[EndIn(source, i) + 1]
  BY <1>1, <1>2, <1>3, <1>4, <1>5 DEF Others, SR!Otherwise
<1>6. ASSUME source[i] = "if", NEW b \in BranchesIn(source, i), source[b] # "else"
      PROVE  Others[b] = Lead(source, f, NextIn(source, i, b))
  <2>1. b \in DOMAIN source /\ i <= b /\ b \in Nat /\ SR!ChainOf(b) = i
    <3>1. CASE b = i
      BY <1>1, <1>2, <1>6, <3>1 DEF SR!ChainOf
    <3>2. CASE b # i
      <4>1. /\ b \in DOMAIN source /\ i < b /\ source[b] \in {"elif", "else"}
            /\ Visited(h, source, b, h[b - 1]) /\ Last(h[b - 1]) = i
        BY <3>2, BranchOfInnermost
      <4>2. SR!InnermostOf(b, SR!Openers) = i
        BY <4>1, MeaningOfParents
      <4> QED BY <1>1, <1>2, <4>1, <4>2 DEF SR!ChainOf
    <3> QED BY <3>1, <3>2
  <2>2. source[b] \notin LoopHeads
    <3>1. b = i \/ source[b] \in {"elif", "else"}
      BY BranchOfInnermost
    <3> QED BY <1>6, <3>1 DEF LoopHeads
  <2>3. PICK L : L = {c \in BranchesIn(source, i) : c > b}
    OBVIOUS
  <2>4. {p \in (b + 1)..Len(source) : SR!IsOf(SR!ChainOf(b), p)} = L
    <3>1. {p \in (b + 1)..Len(source) : SR!IsOf(i, p)} = L
      BY <2>1, <2>3, MeaningOfBranches
    <3> QED BY <2>1, <3>1
  <2>5. PICK m : m = CHOOSE c \in L : \A d \in L : c <= d
    OBVIOUS
  <2>6. Others[b] = IF L = {} THEN f[EndIn(source, i) + 1]
                    ELSE IF source[m] = "elif" THEN <<"cond", m>> ELSE f[m + 1]
    <3>1. Others[b] = SR!Otherwise(b)
      BY <2>1 DEF Others
    <3>2. SR!Otherwise(b) = IF L = {} THEN f[SR!EndOf(SR!ChainOf(b)) + 1]
                            ELSE IF source[m] = "elif" THEN <<"cond", m>> ELSE f[m + 1]
      <4> DEFINE first(S) == CHOOSE p \in S : \A k \in S : p <= k
                 G(S) == IF S = {} THEN SR!First[SR!EndOf(SR!ChainOf(b)) + 1]
                         ELSE IF source[first(S)] = "elif" THEN <<"cond", first(S)>>
                         ELSE SR!First[first(S) + 1]
      <4>1. SR!Otherwise(b)
              = G({p \in (b + 1)..Len(source) : SR!IsOf(SR!ChainOf(b), p)})
        BY <1>4, <2>2 DEF SR!Otherwise
      <4>2. G(L) = IF L = {} THEN f[SR!EndOf(SR!ChainOf(b)) + 1]
                   ELSE IF source[m] = "elif" THEN <<"cond", m>> ELSE f[m + 1]
        BY <2>5
      <4> HIDE DEF G
      <4> QED BY <2>4, <4>1, <4>2
    <3> QED BY <1>3, <2>1, <3>1, <3>2
  <2>7. NextIn(source, i, b) = IF L = {} THEN <<"endif", i>> ELSE <<"cond", m>>
    BY <2>3, <2>5 DEF NextIn
  <2>8. CASE L = {}
    BY <2>6, <2>7, <2>8 DEF Lead
  <2>9. CASE L # {}
    <3>1. L \in SUBSET Nat
      <4>1. \A c \in L : c \in DOMAIN source
        BY <1>1, <1>2, <2>3, BranchOfInnermost
      <4> QED BY <1>1, <4>1
    <3>2. PICK c \in L : \A d \in L : c <= d
      BY <2>9, <3>1, NatMin
    <3>3. m \in L
      BY <2>5, <3>2
    <3>4. m # i
      BY <1>2, <2>1, <2>3, <3>3
    <3>5. source[m] \in {"elif", "else"}
      BY <2>3, <3>3, <3>4, BranchOfInnermost
    <3> QED BY <2>6, <2>7, <2>9, <3>5 DEF Lead
  <2> QED BY <2>8, <2>9
<1> QED BY <1>5, <1>6

(* The false edge leads to a later branch, or behind the last.             *)
LEMMA NextIs ==
  ASSUME NEW h, Legible(h, source), h[Len(source)] = <<>>, NEW i \in Opens(source),
         source[i] = "if", NEW b
  PROVE  \/ NextIn(source, i, b) = <<"endif", i>>
         \/ \E c \in BranchesIn(source, i) : c > b /\ NextIn(source, i, b) = <<"cond", c>>
<1>1. PICK L : L = {c \in BranchesIn(source, i) : c > b}
  OBVIOUS
<1>2. PICK m : m = CHOOSE c \in L : \A e \in L : c <= e
  OBVIOUS
<1>3. NextIn(source, i, b) = IF L = {} THEN <<"endif", i>> ELSE <<"cond", m>>
  BY <1>1, <1>2 DEF NextIn
<1>4. L # {} => m \in L
  <2> SUFFICES ASSUME L # {} PROVE m \in L
    OBVIOUS
  <2>1. L \in SUBSET Nat
    <3>1. DOMAIN source \subseteq Nat
      <4>1. DOMAIN source = 1..Len(source) /\ Len(source) \in Nat
        BY LegibleFacts
      <4> QED BY <4>1
    <3>2. i \in DOMAIN source
      BY DEF Opens
    <3>3. \A c \in L : c \in DOMAIN source
      BY <1>1, <3>2, BranchOfInnermost
    <3> QED BY <3>1, <3>3
  <2>2. PICK c \in L : \A e \in L : c <= e
    BY <2>1, NatMin
  <2> QED BY <1>2, <2>2
<1> QED BY <1>1, <1>3, <1>4

-----------------------------------------------------------------------------
(* The code of a branch's condition is as the source says.                 *)
LEMMA ConditionPiece ==
  ASSUME NEW h, Legible(h, source), h[Len(source)] = <<>>, NEW i \in Opens(source),
         source[i] = "if", NEW b \in BranchesIn(source, i), b \in DOMAIN source,
         NEW f, f = SR!First, NEW o, o = Others, NEW d, HasBlocks(source, i, d)
  PROVE  Piece(source, f, o, d, Lead(source, f, <<"cond", b>>), Condition(i, b))
<1>1. PICK next : next = NextIn(source, i, b)
  OBVIOUS
<1>2. Condition(i, b) = IF source[b] = "else" THEN <<Br(<<"branch", b>>)>>
                        ELSE <<Run("cond", b), CondBr(<<"branch", b>>, next)>>
  <2>1. Branches(i) = BranchesIn(source, i)
    BY SameCounts
  <2> QED BY <1>1, <2>1 DEF Condition, NextIn
<1>3. /\ <<"branch", b>> \in d /\ <<"endif", i>> \in d
      /\ \A c \in BranchesIn(source, i) : <<"cond", c>> \in d
  BY DEF HasBlocks
<1>4. Lead(source, f, <<"branch", b>>) = f[b + 1]
  BY DEF Lead
<1>5. CASE source[b] = "else"
  <2>1. Lead(source, f, <<"cond", b>>) = f[b + 1]
    BY <1>5 DEF Lead
  <2>2. Meets(source, f, Br(<<"branch", b>>)) = {f[b + 1]}
    BY <1>4, MeetsBr
  <2>3. Instructs(source, d, Br(<<"branch", b>>))
    BY <1>3 DEF Instructs
  <2> QED BY <1>2, <1>5, <2>1, <2>2, <2>3, ShortPiece
<1>6. CASE source[b] # "else"
  <2>1. Lead(source, f, <<"cond", b>>) = <<"cond", b>>
    BY <1>6 DEF Lead
  <2>2. o[b] = Lead(source, f, next)
    BY <1>1, <1>6, OthersAre
  <2>3. next \in d
    BY <1>1, <1>3, NextIs
  <2>4. PICK x, y : x = Run("cond", b) /\ y = CondBr(<<"branch", b>>, next)
    OBVIOUS
  <2>5. Instructs(source, d, x) /\ Instructs(source, d, y)
    BY <1>3, <2>3, <2>4 DEF Instructs, Parts
  <2>6. Meets(source, f, x) = {<<"cond", b>>} /\ x.what = <<"cond", b>>
    <3>1. Meets(source, f, x) = {<<"cond", b>>}
      BY <2>4, MeetsRun
    <3>2. x.what = <<"cond", b>>
      BY <2>4, RunWhat
    <3> QED BY <3>1, <3>2
  <2>7. Meets(source, f, y) = {f[b + 1], o[b]}
    BY <1>4, <2>2, <2>4, MeetsCondBr
  <2>8. Comes(f, o, x.what) = {f[b + 1], o[b]}
    BY <2>6 DEF Comes
  <2>9. Piece(source, f, o, d, <<"cond", b>>, <<x, y>>)
    BY <2>5, <2>6, <2>7, <2>8, ShortPiece
  <2> QED BY <1>2, <1>6, <2>1, <2>4, <2>9
<1> QED BY <1>5, <1>6

(* Two instructions in a row.                                              *)
LEMMA PairGlued ==
  ASSUME NEW x, NEW y
  PROVE  <<x>> \o <<y>> = <<x, y>>
<1>1. PICK S : S = {x, y}
  OBVIOUS
<1>2. \A z \in S : <<z>> \in Seq(S) /\ Len(<<z>>) = 1 /\ <<z>>[1] = z
  OBVIOUS
<1>3. PICK a : a = <<x>>
  OBVIOUS
<1>4. PICK b : b = <<y>>
  OBVIOUS
<1>5. /\ a \in Seq(S) /\ Len(a) = 1 /\ a[1] = x
      /\ b \in Seq(S) /\ Len(b) = 1 /\ b[1] = y
  BY <1>1, <1>2, <1>3, <1>4
<1>6. PICK c : c = a \o b
  OBVIOUS
<1>7. c \in Seq(S) /\ Len(c) = 2 /\ c[1] = x /\ c[2] = y
  <2>1. /\ c \in Seq(S) /\ Len(c) = Len(a) + Len(b)
        /\ \A k \in 1..(Len(a) + Len(b)) :
             c[k] = IF k <= Len(a) THEN a[k] ELSE b[k - Len(a)]
    BY <1>5, <1>6, ConcatProperties
  <2>2. \A k \in 1..2 : c[k] = IF k <= 1 THEN a[k] ELSE b[k - 1]
    BY <1>5, <2>1
  <2> QED BY <1>5, <2>1, <2>2
<1>8. PICK d : d = <<x, y>>
  OBVIOUS
<1>9. d \in Seq(S) /\ Len(d) = 2 /\ d[1] = x /\ d[2] = y
  BY <1>1, <1>8
<1>10. DOMAIN c = 1..2 /\ DOMAIN d = 1..2 /\ \A k \in 1..2 : k = 1 \/ k = 2
  BY <1>7, <1>9
<1>11. c = d
  BY <1>7, <1>9, <1>10
<1> QED BY <1>3, <1>4, <1>6, <1>8, <1>11

(* So is the code of a loop: what comes before it, its condition and what  *)
(* comes after its body.                                                   *)
LEMMA LoopPiece ==
  ASSUME NEW h, Legible(h, source), h[Len(source)] = <<>>, NEW i \in Opens(source),
         source[i] \in LoopHeads, NEW f, f = SR!First, NEW o, o = Others, NEW d,
         <<"predicate", i>> \in d
  PROVE  /\ Piece(source, f, o, d, Lead(source, f, <<"init", i>>),
                  (IF source[i] = "for" THEN <<Run("init", i)>> ELSE <<>>)
                    \o <<Br(<<"predicate", i>>)>>)
         /\ <<"loop_body", i>> \in d /\ <<"loop_end", i>> \in d =>
              Piece(source, f, o, d, Lead(source, f, <<"predicate", i>>),
                    <<Run("cond", i), CondBr(<<"loop_body", i>>, <<"loop_end", i>>)>>)
         /\ Piece(source, f, o, d, Lead(source, f, <<"iter", i>>),
                  (IF source[i] = "for" THEN <<Run("iter", i)>> ELSE <<>>)
                    \o <<Br(<<"predicate", i>>)>>)
<1>2. /\ Lead(source, f, <<"predicate", i>>) = <<"cond", i>>
      /\ Lead(source, f, <<"loop_body", i>>) = f[i + 1]
      /\ Lead(source, f, <<"loop_end", i>>) = f[EndIn(source, i) + 1]
      /\ Lead(source, f, <<"init", i>>) = f[i]
      /\ Lead(source, f, <<"iter", i>>) =
           IF source[i] = "for" THEN <<"iter", i>> ELSE <<"cond", i>>
  BY DEF Lead
<1>3. i \in DOMAIN source /\ Visited(h, source, i, h[i - 1])
  <2>1. i \in DOMAIN source
    BY DEF Opens
  <2>2. Len(source) \in Nat /\ DOMAIN source = 1..Len(source)
    BY LegibleFacts
  <2> QED BY <2>1, <2>2 DEF Visited
<1>4. f[i] = IF source[i] = "for" THEN <<"init", i>> ELSE <<"cond", i>>
  BY <1>3, FirstAt DEF LoopHeads
<1>5. o[i] = f[EndIn(source, i) + 1]
  BY OthersAre
<1>6. ASSUME NEW part \in {"init", "iter"}
      PROVE  Piece(source, f, o, d,
                   IF source[i] = "for" THEN <<part, i>> ELSE <<"cond", i>>,
                   (IF source[i] = "for" THEN <<Run(part, i)>> ELSE <<>>)
                     \o <<Br(<<"predicate", i>>)>>)
  <2>1. PICK x, y : x = Run(part, i) /\ y = Br(<<"predicate", i>>)
    OBVIOUS
  <2>2. /\ Instructs(source, d, x) /\ Instructs(source, d, y)
        /\ Meets(source, f, x) = {<<part, i>>} /\ x.what = <<part, i>>
        /\ Meets(source, f, y) = {<<"cond", i>>}
    <3>1. Instructs(source, d, x) /\ Instructs(source, d, y)
      BY <1>3, <2>1 DEF Instructs, Parts
    <3>2. Meets(source, f, x) = {<<part, i>>}
      BY <2>1, MeetsRun
    <3>3. x.what = <<part, i>>
      BY <2>1, RunWhat
    <3>4. Meets(source, f, y) = {Lead(source, f, <<"predicate", i>>)}
      BY <2>1, MeetsBr
    <3> QED BY <1>2, <3>1, <3>2, <3>3, <3>4
  <2>3. Comes(f, o, x.what) = {<<"cond", i>>}
    BY <2>2 DEF Comes
  <2>4. CASE source[i] = "for"
    <3>1. <<x>> \o <<y>> = <<x, y>>
      BY PairGlued
    <3>2. Piece(source, f, o, d, <<part, i>>, <<x, y>>)
      BY <2>2, <2>3, ShortPiece
    <3> QED BY <2>1, <2>4, <3>1, <3>2
  <2>5. CASE source[i] # "for"
    <3>1. <<>> \o <<y>> = <<y>>
      OBVIOUS
    <3>2. Piece(source, f, o, d, <<"cond", i>>, <<y>>)
      BY <2>2, ShortPiece
    <3> QED BY <2>1, <2>5, <3>1, <3>2
  <2> QED BY <2>4, <2>5
<1>7. ASSUME <<"loop_body", i>> \in d, <<"loop_end", i>> \in d
      PROVE  Piece(source, f, o, d, <<"cond", i>>,
                   <<Run("cond", i), CondBr(<<"loop_body", i>>, <<"loop_end", i>>)>>)
  <2>1. PICK x, y : /\ x = Run("cond", i)
                    /\ y = CondBr(<<"loop_body", i>>, <<"loop_end", i>>)
    OBVIOUS
  <2>2. Instructs(source, d, x) /\ Instructs(source, d, y)
    BY <1>3, <1>7, <2>1 DEF Instructs, Parts
  <2>3. /\ Meets(source, f, x) = {<<"cond", i>>} /\ x.what = <<"cond", i>>
        /\ Meets(source, f, y) = {f[i + 1], o[i]}
    <3>1. Meets(source, f, x) = {<<"cond", i>>}
      BY <2>1, MeetsRun
    <3>2. x.what = <<"cond", i>>
      BY <2>1, RunWhat
    <3>3. Meets(source, f, y) = {Lead(source, f, <<"loop_body", i>>),
                                 Lead(source, f, <<"loop_end", i>>)}
      BY <2>1, MeetsCondBr
    <3> QED BY <1>2, <1>5, <3>1, <3>2, <3>3
  <2>4. Comes(f, o, x.what) = {f[i + 1], o[i]}
    BY <2>3 DEF Comes
  <2>5. Piece(source, f, o, d, <<"cond", i>>, <<x, y>>)
    BY <2>2, <2>3, <2>4, ShortPiece
  <2> QED BY <2>1, <2>5
<1> QED BY <1>2, <1>4, <1>6, <1>7

-----------------------------------------------------------------------------
(* The blocks mean what the source means, and the builder is where what    *)
(* the next item begins with belongs.                                      *)
Joined ==
  pc = "emitting" =>
    /\ Sound(source, SR!First, Others, blocks)
    /\ Reaches(source, SR!First, Others, insert, blocks[insert], SR!First[pos])

(* After a step that keeps the source.                                     *)
LEMMA JoinedIntro ==
  ASSUME source' = source, NEW f, f = SR!First, NEW o, o = Others,
         Sound(source, f, o, blocks'),
         Reaches(source, f, o, insert', blocks'[insert'], f[pos'])
  PROVE  Joined'
<1>1. SR!First' = f /\ Others' = o
  BY SameMeaning
<1>2. Sound(source', SR!First', Others', blocks')
  BY <1>1
<1>3. Reaches(source', SR!First', Others', insert', blocks'[insert'], SR!First'[pos'])
  BY <1>1
<1> QED BY <1>2, <1>3 DEF Joined

(* A jump, if there is one, leads to what its target begins with.          *)
LEMMA JumpPiece ==
  ASSUME NEW s, NEW f, NEW o, NEW d, NEW b \in d, NEW terminated
  PROVE  Piece(s, f, o, d, Lead(s, f, b), Jump(terminated, b))
<1>1. Instructs(s, d, Br(b))
  BY DEF Instructs
<1>2. Meets(s, f, Br(b)) = {Lead(s, f, b)}
  BY MeetsBr
<1>3. Piece(s, f, o, d, Lead(s, f, b), <<Br(b)>>)
  BY <1>1, <1>2, ShortPiece
<1>4. Piece(s, f, o, d, Lead(s, f, b), <<>>)
  BY ShortPiece
<1> QED BY <1>3, <1>4 DEF Jump

(* A visitor that appends what comes first at its item, and goes on to a   *)
(* block that begins with what comes first at the next.                    *)
LEMMA JoinedMoves ==
  ASSUME Base, Layout, Joined, Visit, NEW f, f = SR!First, NEW o, o = Others,
         NEW t, NEW full, LaysAndLeaves(blocks, blocks', insert, t, full, insert'),
         Piece(source, f, o, DOMAIN blocks', f[pos], t),
         \A b \in full : Piece(source, f, o, DOMAIN blocks', Lead(source, f, b), blocks'[b]),
         f[pos + 1] = Lead(source, f, insert')
  PROVE  Joined'
<1>1. /\ pc = "emitting" /\ source' = source /\ pos' = pos + 1 /\ insert \in DOMAIN blocks
  BY Visiting
<1>2. PICK cs, i2 : cs = blocks' /\ i2 = insert'
  OBVIOUS
<1>3. /\ Sound(source, f, o, blocks)
      /\ Reaches(source, f, o, insert, blocks[insert], f[pos])
  BY <1>1 DEF Joined
<1>4. PICK new : Lays(blocks, cs, insert, t, new, full)
  BY <1>2 DEF LaysAndLeaves
<1>5. Sound(source, f, o, cs)
  BY <1>1, <1>2, <1>3, <1>4, SoundKept
<1>6. Reaches(source, f, o, i2, cs[i2], f[pos + 1])
  <2>1. cs[i2] = <<>>
    BY <1>2 DEF LaysAndLeaves
  <2> QED BY <1>2, <2>1 DEF Reaches
<1> QED BY <1>1, <1>2, <1>5, <1>6, JoinedIntro

(* The last of two pieces in a row.                                        *)
LEMMA LastGlued ==
  ASSUME NEW c, IsCode(c), NEW t, IsCode(t), t # <<>>
  PROVE  c \o t # <<>> /\ Last(c \o t) = Last(t)
<1>1. PICK S : c \in Seq(S)
  BY DEF IsCode
<1>2. PICK T : t \in Seq(T)
  BY DEF IsCode
<1>3. c \in Seq(S \cup T) /\ t \in Seq(S \cup T)
  BY <1>1, <1>2, SeqWider
<1>4. PICK g : g = c \o t
  OBVIOUS
<1>5. PICK a, e \in Nat : a = Len(c) /\ e = Len(t)
  BY <1>3
<1>6. e # 0
  BY <1>3, <1>5
<1>7. g \in Seq(S \cup T) /\ Len(g) = a + e
  BY <1>3, <1>4, <1>5
<1>8. \A k \in 1..e : g[a + k] = t[k]
  BY <1>3, <1>4, <1>5
<1>9. g[a + e] = t[e]
  BY <1>5, <1>6, <1>8
<1>10. g # <<>>
  BY <1>6, <1>7
<1> QED BY <1>4, <1>5, <1>7, <1>9, <1>10 DEF Last

(* A statement or a jump.                                                  *)
LEMMA PlainJoins ==
  ASSUME Base, Layout, Joined, Plain
  PROVE  Joined'
<1>1. /\ pc = "emitting" /\ source' = source /\ pos' = pos + 1 /\ insert \in DOMAIN blocks
      /\ pos \in DOMAIN source /\ Laid(source, nest, pos, blocks, insert)
  BY Visiting DEF Visit
<1>2. PICK h : Legible(h, source) /\ Visited(h, source, pos, nest)
  BY <1>1, NestingElim DEF Base
<1>3. PICK f, o, d : f = SR!First /\ o = Others /\ d = DOMAIN blocks
  OBVIOUS
<1>4. /\ Sound(source, f, o, blocks)
      /\ Reaches(source, f, o, insert, blocks[insert], f[pos])
  BY <1>1, <1>3 DEF Joined
<1>5. ParentLoop = LoopOf(source, nest)
  BY ParentIs
<1>6. ASSUME source[pos] \in {"break", "continue"}
      PROVE  /\ <<"loop_end", LoopOf(source, nest)>> \in d
             /\ <<"predicate", LoopOf(source, nest)>> \in d
  <2>1. PICK i : i = LoopOf(source, nest) /\ i \in Range(nest) /\ source[i] \in LoopHeads
    BY <1>1, <1>2, <1>6, MeaningOfParents
  <2>2. HasBlocks(source, i, d)
    BY <1>1, <1>3, <2>1 DEF Laid
  <2> QED BY <2>1, <2>2 DEF HasBlocks
<1>7. PICK t : /\ blocks' = Emit(blocks, insert, t) /\ insert' = insert
               /\ Piece(source, f, o, d, f[pos], t) /\ t # <<>>
               /\ ~IsTerminator(Last(t)) => Comes(f, o, Last(t).what) = {f[pos + 1]}
  <2>1. CASE EmitStmt
    <3>1. PICK x : x = Run("stmt", pos)
      OBVIOUS
    <3>2. source[pos] = "stmt" /\ blocks' = Emit(blocks, insert, <<x>>) /\ insert' = insert
      BY <2>1, <3>1 DEF EmitStmt, At
    <3>3. Instructs(source, d, x)
      BY <1>1, <3>1 DEF Instructs, Parts
    <3>4. Meets(source, f, x) = {<<"stmt", pos>>}
      BY <3>1, MeetsRun
    <3>5. f[pos] = <<"stmt", pos>>
      BY <1>1, <1>2, <1>3, <3>2, FirstAt
    <3>6. Piece(source, f, o, d, f[pos], <<x>>)
      BY <3>3, <3>4, <3>5, ShortPiece
    <3>7. x.what = <<"stmt", pos>>
      BY <3>1, RunWhat
    <3>8. Comes(f, o, x.what) = {f[pos + 1]}
      BY <3>7 DEF Comes
    <3>9. Last(<<x>>) = x /\ <<x>> # <<>>
      BY DEF Last
    <3> QED BY <3>2, <3>6, <3>8, <3>9
  <2>2. CASE EmitReturn
    <3>1. PICK x, y : x = Run("return", pos) /\ y = Ret
      OBVIOUS
    <3>2. /\ source[pos] = "return" /\ blocks' = Emit(blocks, insert, <<x, y>>)
          /\ insert' = insert
      BY <2>2, <3>1 DEF EmitReturn, At
    <3>3. Instructs(source, d, x) /\ Instructs(source, d, y)
      BY <1>1, <3>1 DEF Instructs, Parts
    <3>4. Meets(source, f, x) = {<<"return", pos>>}
      BY <3>1, MeetsRun
    <3>5. f[pos] = <<"return", pos>>
      BY <1>1, <1>2, <1>3, <3>2, FirstAt
    <3>6. x.what = <<"return", pos>>
      BY <3>1, RunWhat
    <3>7. Comes(f, o, x.what) = {SR!Returned}
      BY <3>6 DEF Comes
    <3>8. Meets(source, f, y) = {SR!Returned}
      BY <3>1, MeetsRet
    <3>9. Piece(source, f, o, d, f[pos], <<x, y>>)
      BY <3>3, <3>4, <3>5, <3>7, <3>8, ShortPiece
    <3>10. Last(<<x, y>>) = y /\ <<x, y>> # <<>> /\ IsTerminator(y)
      BY <3>1, Terminators DEF Last
    <3> QED BY <3>2, <3>9, <3>10
  <2>3. CASE EmitBreak \/ EmitContinue
    <3>1. PICK b : /\ b = IF EmitBreak THEN <<"loop_end", LoopOf(source, nest)>>
                          ELSE <<"predicate", LoopOf(source, nest)>>
      OBVIOUS
    <3>2. /\ blocks' = Emit(blocks, insert, <<Br(b)>>) /\ insert' = insert
          /\ source[pos] = IF EmitBreak THEN "break" ELSE "continue"
      BY <1>5, <2>3, <3>1 DEF EmitBreak, EmitContinue, At
    <3>3. b \in d
      BY <1>6, <3>1, <3>2
    <3>4. f[pos] = Lead(source, f, b)
      BY <1>1, <1>2, <1>3, <3>1, <3>2, FirstAt DEF Lead
    <3>5. Instructs(source, d, Br(b))
      BY <3>3 DEF Instructs
    <3>6. Meets(source, f, Br(b)) = {f[pos]}
      BY <3>4, MeetsBr
    <3>7. Piece(source, f, o, d, f[pos], <<Br(b)>>)
      BY <3>5, <3>6, ShortPiece
    <3>8. Last(<<Br(b)>>) = Br(b) /\ <<Br(b)>> # <<>> /\ IsTerminator(Br(b))
      BY Terminators DEF Last
    <3> QED BY <3>2, <3>7, <3>8
  <2> QED BY <2>1, <2>2, <2>3 DEF Plain
<1>8. PICK cs : cs = blocks'
  OBVIOUS
<1>9. Appends(blocks, insert, t, cs)
  BY <1>1, <1>7, <1>8, Emitted
<1>10. IsCode(t)
  BY <1>7 DEF Piece
<1>11. Lays(blocks, cs, insert, t, {}, {})
  BY <1>9, <1>10 DEF Lays, Appends
<1>12. DOMAIN cs = d
  BY <1>3, <1>9 DEF Appends
<1>13. Sound(source, f, o, cs)
  BY <1>1, <1>4, <1>7, <1>11, <1>12, SoundKept
<1>14. Reaches(source, f, o, insert, cs[insert], f[pos + 1])
  <2>1. PICK c : c = blocks[insert] /\ IsCode(c)
    BY <1>1 DEF Laid
  <2>2. cs[insert] = c \o t
    BY <1>9, <2>1 DEF Appends
  <2>3. c \o t # <<>> /\ Last(c \o t) = Last(t)
    BY <1>7, <1>10, <2>1, LastGlued
  <2> QED BY <1>7, <2>2, <2>3 DEF Reaches
<1> QED BY <1>1, <1>3, <1>7, <1>8, <1>13, <1>14, JoinedIntro

(* What the other visitors start from: the blocks of the constructs around *)
(* the next item are there.                                                *)
LEMMA Joining ==
  ASSUME Base, Layout, Layout', Visit
  PROVE  /\ pc = "emitting" /\ pos \in DOMAIN source /\ pos \in Nat
         /\ \E h : /\ Legible(h, source) /\ h[Len(source)] = <<>>
                   /\ Visited(h, source, pos, nest)
         /\ \A k \in Range(nest) : HasBlocks(source, k, DOMAIN blocks)
         /\ \A k \in Range(nest') : HasBlocks(source, k, DOMAIN blocks')
         /\ insert' \in DOMAIN blocks'
<1>1. /\ pc = "emitting" /\ pc' = "emitting" /\ source' = source
      /\ pos \in DOMAIN source /\ pos \in Nat /\ Laid(source, nest, pos, blocks, insert)
  BY Visiting
<1>2. PICK h : Legible(h, source) /\ Visited(h, source, pos, nest)
  BY <1>1, NestingElim DEF Base
<1>3. h[Len(source)] = <<>>
  BY <1>2 DEF Visited
<1>4. Laid(source, nest', pos', blocks', insert')
  BY <1>1 DEF Layout
<1> QED BY <1>1, <1>2, <1>3, <1>4 DEF Laid

(* An if.                                                                  *)
LEMMA IfJoins ==
  ASSUME Base, Layout, Joined, EmitIf
  PROVE  Joined'
<1>1. /\ Layout' /\ insert' = <<"branch", pos>>
      /\ LaysAndLeaves(blocks, blocks', insert, <<Br(<<"cond", pos>>)>>,
                       {<<"cond", pos>>}, insert')
      /\ blocks'[<<"cond", pos>>] = Condition(pos, pos)
  BY IfLays
<1>2. Visit /\ source[pos] = "if" /\ nest' = Append(nest, pos)
  BY VisitMoves DEF Visit, EmitIf
<1>3. /\ pos \in DOMAIN source /\ pos \in Nat /\ nest \in Seq(Nat)
      /\ \A k \in Range(nest') : HasBlocks(source, k, DOMAIN blocks')
  BY <1>1, <1>2, Joining, Visiting
<1>4. PICK h : /\ Legible(h, source) /\ h[Len(source)] = <<>>
               /\ Visited(h, source, pos, nest)
  BY <1>1, <1>2, Joining
<1>5. PICK f, o, d : f = SR!First /\ o = Others /\ d = DOMAIN blocks'
  OBVIOUS
<1>6. HasBlocks(source, pos, d)
  <2>1. pos \in Range(nest')
    BY <1>2, <1>3, RangeGrows
  <2> QED BY <1>3, <1>5, <2>1
<1>7. pos \in Opens(source)
  BY <1>2, <1>3 DEF Opens, Openers
<1>8. pos \in BranchesIn(source, pos)
  BY DEF BranchesIn
<1>9. PICK b : b = <<"cond", pos>> /\ b \in d /\ Lead(source, f, b) = <<"cond", pos>>
  <2>1. <<"cond", pos>> \in d
    BY <1>2, <1>6, <1>8 DEF HasBlocks
  <2>2. Lead(source, f, <<"cond", pos>>) = <<"cond", pos>>
    BY <1>2 DEF Lead
  <2> QED BY <2>1, <2>2
<1>10. f[pos] = Lead(source, f, b)
  BY <1>2, <1>3, <1>4, <1>5, <1>9, FirstAt
<1>11. Piece(source, f, o, d, f[pos], <<Br(b)>>)
  <2>1. Piece(source, f, o, d, Lead(source, f, b), Jump(FALSE, b))
    BY <1>9, JumpPiece
  <2> QED BY <1>10, <2>1 DEF Jump
<1>12. Piece(source, f, o, d, Lead(source, f, b), blocks'[b])
  BY <1>1, <1>2, <1>3, <1>4, <1>5, <1>6, <1>7, <1>8, <1>9, ConditionPiece
<1>13. f[pos + 1] = Lead(source, f, insert')
  BY <1>1 DEF Lead
<1> QED BY <1>1, <1>2, <1>5, <1>9, <1>11, <1>12, <1>13, JoinedMoves

(* The branch that ends before an elif or else, and the next.              *)
LEMMA BranchJoins ==
  ASSUME Base, Layout, Joined, EmitBranch
  PROVE  Joined'
<1>1. /\ Layout' /\ insert' = <<"branch", pos>>
      /\ blocks'[<<"cond", pos>>] = Condition(Last(nest), pos)
  BY BranchLays
<1>2. PICK terminated :
        LaysAndLeaves(blocks, blocks', insert, Jump(terminated, <<"endif", Last(nest)>>),
                      {<<"cond", pos>>}, insert')
  BY BranchLays
<1>3. Visit /\ source[pos] \in {"elif", "else"} /\ nest' = nest
  BY VisitMoves DEF Visit, EmitBranch
<1>4. /\ pos \in DOMAIN source /\ pos \in Nat
      /\ \A k \in Range(nest') : HasBlocks(source, k, DOMAIN blocks')
  BY <1>1, <1>3, Joining
<1>5. PICK h : /\ Legible(h, source) /\ h[Len(source)] = <<>>
               /\ Visited(h, source, pos, nest)
  BY <1>1, <1>3, Joining
<1>6. PICK f, o, d : f = SR!First /\ o = Others /\ d = DOMAIN blocks'
  OBVIOUS
<1>7. PICK i : i = Last(nest)
  OBVIOUS
<1>8. nest # <<>> /\ source[i] = "if" /\ pos \in BranchesIn(source, i)
  BY <1>3, <1>4, <1>5, <1>7, BranchFound
<1>9. i \in Range(nest) /\ i \in Opens(source)
  BY <1>5, <1>7, <1>8, LastOpener
<1>10. HasBlocks(source, i, d)
  BY <1>3, <1>4, <1>6, <1>9
<1>11. PICK e : e = <<"endif", i>> /\ e \in d
  BY <1>8, <1>10 DEF HasBlocks
<1>12. f[pos] = Lead(source, f, e)
  <2>1. f[pos] = f[EndIn(source, i) + 1]
    BY <1>3, <1>4, <1>5, <1>6, <1>7, FirstAt
  <2> QED BY <1>11, <2>1 DEF Lead
<1>13. Piece(source, f, o, d, f[pos], Jump(terminated, e))
  BY <1>11, <1>12, JumpPiece
<1>14. PICK b : b = <<"cond", pos>>
  OBVIOUS
<1>15. Piece(source, f, o, d, Lead(source, f, b), blocks'[b])
  BY <1>1, <1>4, <1>5, <1>6, <1>7, <1>8, <1>9, <1>10, <1>14, ConditionPiece
<1>16. f[pos + 1] = Lead(source, f, insert')
  BY <1>1 DEF Lead
<1> QED BY <1>2, <1>3, <1>6, <1>7, <1>11, <1>13, <1>14, <1>15, <1>16, JoinedMoves

(* The end of an if.                                                       *)
LEMMA EndIfJoins ==
  ASSUME Base, Layout, Joined, EmitEndIf
  PROVE  Joined'
<1>1. Layout' /\ insert' = <<"endif", Last(nest)>>
  BY EndIfLays
<1>2. PICK terminated :
        LaysAndLeaves(blocks, blocks', insert, Jump(terminated, <<"endif", Last(nest)>>),
                      {}, insert')
  BY EndIfLays
<1>3. /\ Visit /\ source[pos] = "end" /\ nest # <<>> /\ source[Last(nest)] = "if"
  BY VisitMoves DEF Visit
<1>4. pos \in DOMAIN source /\ pos \in Nat /\ insert' \in DOMAIN blocks'
  BY <1>1, <1>3, Joining
<1>5. PICK h : /\ Legible(h, source) /\ h[Len(source)] = <<>>
               /\ Visited(h, source, pos, nest)
  BY <1>1, <1>3, Joining
<1>6. PICK f, o, d : f = SR!First /\ o = Others /\ d = DOMAIN blocks'
  OBVIOUS
<1>7. PICK e : e = <<"endif", Last(nest)>> /\ e \in d
  BY <1>1, <1>4, <1>6
<1>8. EndIn(source, Last(nest)) = pos
  BY <1>3, <1>4, <1>5, EndFound
<1>9. Lead(source, f, e) = f[pos + 1]
  BY <1>7, <1>8 DEF Lead
<1>10. f[pos] = f[pos + 1]
  BY <1>3, <1>4, <1>5, <1>6, FirstAt
<1>11. Piece(source, f, o, d, f[pos], Jump(terminated, e))
  BY <1>7, <1>9, <1>10, JumpPiece
<1> QED BY <1>1, <1>2, <1>3, <1>6, <1>7, <1>9, <1>11, JoinedMoves

(* A loop.                                                                 *)
LEMMA LoopJoins ==
  ASSUME Base, Layout, Joined, EmitLoop
  PROVE  Joined'
<1>1. /\ Layout' /\ insert' = <<"loop_body", pos>>
      /\ blocks'[<<"init", pos>>] =
           (IF At("for") THEN <<Run("init", pos)>> ELSE <<>>)
             \o <<Br(<<"predicate", pos>>)>>
      /\ blocks'[<<"predicate", pos>>] =
           <<Run("cond", pos), CondBr(<<"loop_body", pos>>, <<"loop_end", pos>>)>>
  BY LoopLays
<1>2. PICK terminated :
        LaysAndLeaves(blocks, blocks', insert, Jump(terminated, <<"init", pos>>),
                      {<<"init", pos>>, <<"predicate", pos>>}, insert')
  BY LoopLays
<1>3. Visit /\ source[pos] \in LoopHeads /\ nest' = Append(nest, pos)
  BY VisitMoves DEF Visit, EmitLoop
<1>4. /\ pos \in DOMAIN source /\ pos \in Nat /\ nest \in Seq(Nat) /\ pc = "emitting"
      /\ \A k \in Range(nest') : HasBlocks(source, k, DOMAIN blocks')
      /\ insert' \in DOMAIN blocks'
  BY <1>1, <1>3, Joining, Visiting
<1>5. PICK h : /\ Legible(h, source) /\ h[Len(source)] = <<>>
               /\ Visited(h, source, pos, nest)
  BY <1>1, <1>3, Joining
<1>6. PICK f, o, d : f = SR!First /\ o = Others /\ d = DOMAIN blocks'
  OBVIOUS
<1>7. PICK a, b : a = <<"init", pos>> /\ b = <<"predicate", pos>>
  OBVIOUS
<1>8. a \in d /\ b \in d
  <2>1. {<<"init", pos>>, <<"predicate", pos>>} \subseteq DOMAIN blocks'
    BY <1>2 DEF LaysAndLeaves, Lays
  <2> QED BY <1>6, <1>7, <2>1
<1>9. <<"loop_end", pos>> \in d /\ <<"loop_body", pos>> \in d
  <2>1. pos \in Range(nest')
    BY <1>3, <1>4, RangeGrows
  <2>2. HasBlocks(source, pos, d)
    BY <1>4, <1>6, <2>1
  <2> QED BY <1>1, <1>3, <1>4, <1>6, <2>2 DEF HasBlocks
<1>10. pos \in Opens(source)
  BY <1>3, <1>4 DEF Opens, Openers
<1>11. At("for") <=> source[pos] = "for"
  <2>1. pos <= Len(source)
    <3>1. DOMAIN source = 1..Len(source) /\ Len(source) \in Nat
      BY <1>5, LegibleFacts
    <3> QED BY <1>4, <3>1
  <2> QED BY <1>4, <2>1 DEF At
<1>12. f[pos] = Lead(source, f, a)
  BY <1>7 DEF Lead
<1>13. Piece(source, f, o, d, f[pos], Jump(terminated, a))
  BY <1>8, <1>12, JumpPiece
<1>14. /\ Piece(source, f, o, d, Lead(source, f, a), blocks'[a])
       /\ Piece(source, f, o, d, Lead(source, f, b), blocks'[b])
  <2>1. /\ Piece(source, f, o, d, Lead(source, f, <<"init", pos>>),
                 (IF source[pos] = "for" THEN <<Run("init", pos)>> ELSE <<>>)
                   \o <<Br(<<"predicate", pos>>)>>)
        /\ Piece(source, f, o, d, Lead(source, f, <<"predicate", pos>>),
                 <<Run("cond", pos), CondBr(<<"loop_body", pos>>, <<"loop_end", pos>>)>>)
    BY <1>3, <1>5, <1>6, <1>7, <1>8, <1>9, <1>10, LoopPiece
  <2> QED BY <1>1, <1>7, <1>11, <2>1
<1>15. f[pos + 1] = Lead(source, f, insert')
  BY <1>1 DEF Lead
<1>16. \A c \in {a, b} : Piece(source, f, o, d, Lead(source, f, c), blocks'[c])
  BY <1>14
<1> QED BY <1>2, <1>3, <1>6, <1>7, <1>13, <1>15, <1>16, JoinedMoves

(* The end of a loop.                                                      *)
LEMMA EndLoopJoins ==
  ASSUME Base, Layout, Joined, EmitEndLoop
  PROVE  Joined'
<1>1. /\ Layout' /\ insert' = <<"loop_end", Last(nest)>>
      /\ blocks'[<<"iter", Last(nest)>>] =
           (IF source[Last(nest)] = "for" THEN <<Run("iter", Last(nest))>> ELSE <<>>)
             \o <<Br(<<"predicate", Last(nest)>>)>>
  BY EndLoopLays
<1>2. PICK terminated :
        LaysAndLeaves(blocks, blocks', insert, Jump(terminated, <<"iter", Last(nest)>>),
                      {<<"iter", Last(nest)>>}, insert')
  BY EndLoopLays
<1>3. Visit /\ source[pos] = "end" /\ nest # <<>> /\ source[Last(nest)] \in LoopHeads
  BY VisitMoves DEF Visit
<1>4. /\ pos \in DOMAIN source /\ pos \in Nat
      /\ \A k \in Range(nest) : HasBlocks(source, k, DOMAIN blocks)
  BY <1>1, <1>3, Joining
<1>5. PICK h : /\ Legible(h, source) /\ h[Len(source)] = <<>>
               /\ Visited(h, source, pos, nest)
  BY <1>1, <1>3, Joining
<1>6. PICK f, o, d, i : /\ f = SR!First /\ o = Others /\ d = DOMAIN blocks'
                        /\ i = Last(nest)
  OBVIOUS
<1>7. i \in Range(nest) /\ i \in Opens(source)
  BY <1>3, <1>5, <1>6, LastOpener
<1>8. DOMAIN blocks \subseteq d
  <2>1. PICK cs : cs = blocks'
    OBVIOUS
  <2>2. PICK t, full, new : Lays(blocks, cs, insert, t, new, full)
    BY <1>2, <2>1 DEF LaysAndLeaves
  <2> QED BY <1>6, <2>1, <2>2 DEF Lays
<1>9. PICK b : b = <<"iter", i>> /\ b \in d /\ <<"predicate", i>> \in d
  <2>1. HasBlocks(source, i, DOMAIN blocks)
    BY <1>4, <1>7
  <2>2. <<"iter", i>> \in DOMAIN blocks /\ <<"predicate", i>> \in DOMAIN blocks
    BY <1>3, <1>6, <2>1 DEF HasBlocks
  <2> QED BY <1>8, <2>2
<1>10. f[pos] = Lead(source, f, b)
  <2>1. f[pos] = IF source[i] = "for" THEN <<"iter", i>> ELSE <<"cond", i>>
    BY <1>3, <1>4, <1>5, <1>6, FirstAt DEF LoopHeads
  <2> QED BY <1>9, <2>1 DEF Lead
<1>11. Piece(source, f, o, d, f[pos], Jump(terminated, b))
  BY <1>9, <1>10, JumpPiece
<1>12. Piece(source, f, o, d, Lead(source, f, b), blocks'[b])
  <2>1. Piece(source, f, o, d, Lead(source, f, <<"iter", i>>),
              (IF source[i] = "for" THEN <<Run("iter", i)>> ELSE <<>>)
                \o <<Br(<<"predicate", i>>)>>)
    BY <1>3, <1>5, <1>6, <1>7, <1>9, LoopPiece
  <2> QED BY <1>1, <1>6, <1>9, <2>1
<1>13. f[pos + 1] = Lead(source, f, insert')
  <2>1. EndIn(source, i) = pos
    BY <1>3, <1>4, <1>5, <1>6, EndFound
  <2> QED BY <1>1, <1>6, <2>1 DEF Lead
<1> QED BY <1>2, <1>3, <1>6, <1>9, <1>11, <1>12, <1>13, JoinedMoves

(* All visitors keep the meaning.                                          *)
LEMMA VisitJoins ==
  ASSUME Base, Layout, Joined, Visit
  PROVE  Joined'
BY PlainJoins, IfJoins, BranchJoins, EndIfJoins, LoopJoins, EndLoopJoins DEF Visit

(* The meaning is kept by every step, and where it starts there is nothing *)
(* to keep.                                                                *)
LEMMA JoinedStep == Base /\ Layout /\ Joined /\ [Next]_vars => Joined'
<1> SUFFICES ASSUME Base, Layout, Joined, [Next]_vars, pc' = "emitting" PROVE Joined'
  BY DEF Joined
<1>1. PICK f, o : f = SR!First /\ o = Others
  OBVIOUS
<1>2. CASE UNCHANGED vars
  <2>1. /\ source' = source /\ pc = "emitting" /\ blocks' = blocks /\ insert' = insert
        /\ pos' = pos
    BY <1>2 DEF vars, emission
  <2>2. /\ Sound(source, f, o, blocks)
        /\ Reaches(source, f, o, insert, blocks[insert], f[pos])
    BY <1>1, <2>1 DEF Joined
  <2> QED BY <1>1, <2>1, <2>2, JoinedIntro
<1>3. CASE BeginEmit
  <2>1. /\ source' = source /\ blocks' = blocks /\ insert' = insert /\ pos' = pos
        /\ pos = 1 /\ insert = Entry /\ blocks = [b \in {Entry} |-> <<>>]
    BY <1>3 DEF BeginEmit, Base, Quiet, emission
  <2>2. DOMAIN blocks = {Entry} /\ blocks[Entry] = <<>>
    BY <2>1
  <2>3. Sound(source, f, o, blocks)
    BY <2>2, ShortPiece DEF Sound
  <2>4. Lead(source, f, Entry) = f[1]
    BY DEF Lead, Entry
  <2>5. Reaches(source, f, o, insert, blocks[insert], f[pos])
    BY <2>1, <2>2, <2>4 DEF Reaches
  <2> QED BY <1>1, <2>1, <2>3, <2>5, JoinedIntro
<1>4. CASE Visit
  BY <1>4, VisitJoins
<1>5. CASE (\E op \in Op : Write(op)) \/ EmitEndFunction \/ RunStep
  <2>1. pc' # "emitting"
    BY <1>5 DEF Write, EmitEndFunction, RunStep, RunEvaluate, RunBranch, RunReturn, Running
  <2> QED BY <2>1
<1> QED BY <1>2, <1>3, <1>4, <1>5, StepKinds

-----------------------------------------------------------------------------
(* What can have been evaluated last.                                      *)
Evaluated(s, w) == w = SR!Start \/ \E part \in Parts, p \in DOMAIN s : w = <<part, p>>

(* The blocks that run are whole, the function is at one of their          *)
(* instructions, and what that one meets comes after what was evaluated.   *)
MovesOn(s, f, o, bs, b, k, w) ==
  /\ Sound(s, f, o, bs) /\ WellFormed(bs)
  /\ b \in DOMAIN bs /\ k \in DOMAIN bs[b]
  /\ Evaluated(s, w)
  /\ Meets(s, f, bs[b][k]) \subseteq Comes(f, o, w)

Moving ==
  /\ pc \in {"writing", "emitting"} =>
       at = <<Entry, 1>> /\ last = SR!Start /\ Entry \in DOMAIN blocks
  /\ pc = "running" =>
       MovesOn(source, SR!First, Others, blocks, at[1], at[2], last)

(* A visitor creates blocks and removes none, and evaluates nothing.       *)
LEMMA VisitGrows ==
  ASSUME Base, Layout, Visit
  PROVE  DOMAIN blocks \subseteq DOMAIN blocks' /\ at' = at /\ last' = last /\ turn' = turn
<1>1. PICK cs : cs = blocks'
  OBVIOUS
<1>2. at' = at /\ last' = last /\ turn' = turn
  BY DEF Visit, Plain, EmitStmt, EmitReturn, EmitBreak, EmitContinue, EmitIf, EmitBranch,
     EmitEndIf, EmitLoop, EmitEndLoop, Advance, run
<1>3. CASE Plain
  <2>1. PICK t : cs = Emit(blocks, insert, t)
    BY <1>1, <1>3 DEF Plain, EmitStmt, EmitReturn, EmitBreak, EmitContinue
  <2> QED BY <1>1, <1>2, <2>1 DEF Emit
<1>4. CASE ~Plain
  <2>1. \E t, full, i2 : LaysAndLeaves(blocks, cs, insert, t, full, i2)
    <3>1. CASE EmitIf
      BY <1>1, <3>1, IfLays
    <3>2. CASE EmitBranch
      BY <1>1, <3>2, BranchLays
    <3>3. CASE EmitEndIf
      BY <1>1, <3>3, EndIfLays
    <3>4. CASE EmitLoop
      BY <1>1, <3>4, LoopLays
    <3>5. CASE EmitEndLoop
      BY <1>1, <3>5, EndLoopLays
    <3> QED BY <1>4, <3>1, <3>2, <3>3, <3>4, <3>5 DEF Visit
  <2>2. PICK t, full, new : Lays(blocks, cs, insert, t, new, full)
    BY <2>1 DEF LaysAndLeaves
  <2> QED BY <1>1, <1>2, <2>2 DEF Lays
<1> QED BY <1>3, <1>4

(* Where a block of whole blocks begins.                                   *)
LEMMA Beginning ==
  ASSUME NEW s, NEW f, NEW o, NEW bs, Sound(s, f, o, bs), WellFormed(bs),
         NEW b \in DOMAIN bs
  PROVE  1 \in DOMAIN bs[b] /\ Meets(s, f, bs[b][1]) = {Lead(s, f, b)}
<1>1. PICK c : c = bs[b] /\ c # <<>> /\ Piece(s, f, o, DOMAIN bs, Lead(s, f, b), c)
  BY DEF Sound, WellFormed
<1>2. PICK S : c \in Seq(S)
  BY <1>1 DEF Piece, IsCode
<1>3. PICK a \in Nat : a = Len(c)
  BY <1>2
<1>4. a # 0 /\ DOMAIN c = 1..a
  BY <1>1, <1>2, <1>3
<1>5. 1 \in DOMAIN c
  BY <1>3, <1>4
<1> QED BY <1>1, <1>5 DEF Piece

(* The end of the function appends the return, which is what comes there.  *)
LEMMA EndSound ==
  ASSUME Base, Layout, Joined, EmitEndFunction
  PROVE  Sound(source, SR!First, Others, blocks') /\ DOMAIN blocks' = DOMAIN blocks
<1>1. /\ pc = "emitting" /\ source' = source /\ pos = Len(source) + 1
      /\ blocks' = IF blocks[insert] = <<>> \/ ~IsTerminator(Last(blocks[insert]))
                   THEN Emit(blocks, insert, <<Ret>>) ELSE blocks
  BY DEF EmitEndFunction
<1>2. Laid(source, nest, pos, blocks, insert)
  BY <1>1 DEF Layout
<1>3. PICK h : Legible(h, source) /\ h[Len(source)] = <<>>
  BY <1>1, NestingElim DEF Base, Visited
<1>4. PICK f, o, cs : f = SR!First /\ o = Others /\ cs = blocks'
  OBVIOUS
<1>5. f[pos] = SR!Returned
  <2>1. PICK l \in Nat : l = Len(source) /\ pos = l + 1 /\ pos \in 1..(l + 1)
    <3>1. Len(source) \in Nat
      BY <1>3, LegibleFacts
    <3>2. pos \in 1..(Len(source) + 1)
      BY <1>1, <3>1
    <3> QED BY <1>1, <3>1, <3>2
  <2>2. f[pos] = SR!Leads(f, pos)
    BY <1>3, <1>4, <2>1, FirstIs
  <2> QED BY <1>1, <2>2 DEF SR!Leads
<1>6. insert \in DOMAIN blocks
  BY <1>2 DEF Laid
<1>7. /\ Sound(source, f, o, blocks)
      /\ Reaches(source, f, o, insert, blocks[insert], f[pos])
  BY <1>1, <1>4 DEF Joined
<1>8. CASE cs = blocks
  BY <1>4, <1>7, <1>8
<1>9. CASE cs = Emit(blocks, insert, <<Ret>>)
  <2>1. Appends(blocks, insert, <<Ret>>, cs)
    BY <1>6, <1>9, Emitted
  <2>2. IsCode(<<Ret>>)
    BY ShortCode
  <2>3. Lays(blocks, cs, insert, <<Ret>>, {}, {}) /\ DOMAIN cs = DOMAIN blocks
    BY <2>1, <2>2 DEF Lays, Appends
  <2>4. Piece(source, f, o, DOMAIN cs, f[pos], <<Ret>>)
    <3>1. Instructs(source, DOMAIN cs, Ret)
      BY DEF Instructs
    <3>2. Meets(source, f, Ret) = {f[pos]}
      BY <1>5, MeetsRet
    <3> QED BY <3>1, <3>2, ShortPiece
  <2>5. Sound(source, f, o, cs)
    BY <1>6, <1>7, <2>3, <2>4, SoundKept
  <2> QED BY <1>4, <2>3, <2>5
<1> QED BY <1>1, <1>4, <1>8, <1>9

(* When the function is emitted it is whole, or it is malformed.           *)
LEMMA EndMoves ==
  ASSUME Base, Layout, Joined, Moving, EmitEndFunction
  PROVE  Moving'
<1>1. /\ pc = "emitting" /\ source' = source
      /\ pc' = IF WellFormed(blocks') THEN "running" ELSE "malformed"
      /\ at' = at /\ last' = last
  BY DEF EmitEndFunction, run
<1> SUFFICES ASSUME WellFormed(blocks') PROVE Moving'
  BY <1>1 DEF Moving
<1>2. PICK f, o, cs : f = SR!First /\ o = Others /\ cs = blocks'
  OBVIOUS
<1>3. Sound(source, f, o, cs) /\ DOMAIN cs = DOMAIN blocks
  BY <1>2, EndSound
<1>4. at = <<Entry, 1>> /\ last = SR!Start /\ Entry \in DOMAIN cs
  BY <1>1, <1>3 DEF Moving
<1>5. 1 \in DOMAIN cs[Entry] /\ Meets(source, f, cs[Entry][1]) = {f[1]}
  <2>1. Lead(source, f, Entry) = f[1]
    BY DEF Lead, Entry
  <2> QED BY <1>2, <1>3, <1>4, <2>1, Beginning
<1>6. Comes(f, o, SR!Start) = {f[1]}
  BY DEF Comes, SR!Start
<1>7. MovesOn(source, f, o, cs, Entry, 1, SR!Start)
  BY <1>2, <1>3, <1>4, <1>5, <1>6 DEF MovesOn, Evaluated
<1>8. MovesOn(source, f, o, blocks', at'[1], at'[2], last')
  <2>1. at'[1] = Entry /\ at'[2] = 1 /\ last' = SR!Start
    BY <1>1, <1>4
  <2> QED BY <1>2, <1>7, <2>1
<1>9. SR!First' = f /\ Others' = o
  BY <1>1, <1>2, SameMeaning
<1>10. MovesOn(source', SR!First', Others', blocks', at'[1], at'[2], last')
  BY <1>1, <1>8, <1>9
<1>11. pc' = "running"
  BY <1>1
<1> QED BY <1>10, <1>11 DEF Moving

(* The instruction a running function is at: one of four kinds.            *)
LEMMA Kinds ==
  ASSUME NEW s, NEW d, NEW x, Instructs(s, d, x)
  PROVE  /\ x.do \in {"run", "br", "condbr", "ret"}
         /\ x.do = "run" => ~IsTerminator(x) /\ Evaluated(s, x.what) /\ x.what # SR!Returned
         /\ x.do \in {"br", "condbr"} => \A k \in DOMAIN x.to : x.to[k] \in d
<1>1. ASSUME NEW part \in Parts, NEW p \in DOMAIN s, x = Run(part, p)
      PROVE  x.do = "run" /\ ~IsTerminator(x) /\ Evaluated(s, x.what) /\ x.what # SR!Returned
  <2>1. x.what = <<part, p>> /\ x.do = "run"
    BY <1>1 DEF Run
  <2>2. <<part, p>> # SR!Returned
    BY DEF Parts, SR!Returned
  <2> QED BY <2>1, <2>2 DEF Evaluated, IsTerminator
<1>2. ASSUME NEW b \in d, x = Br(b)
      PROVE  x.do = "br" /\ \A k \in DOMAIN x.to : x.to[k] \in d
  <2>1. x.to = <<b>> /\ x.do = "br"
    BY <1>2 DEF Br
  <2>2. DOMAIN <<b>> = {1} /\ <<b>>[1] = b
    OBVIOUS
  <2> QED BY <2>1, <2>2
<1>3. ASSUME NEW b \in d, NEW c \in d, x = CondBr(b, c)
      PROVE  x.do = "condbr" /\ \A k \in DOMAIN x.to : x.to[k] \in d
  <2>1. x.to = <<b, c>> /\ x.do = "condbr"
    BY <1>3 DEF CondBr
  <2>2. DOMAIN <<b, c>> = {1, 2} /\ <<b, c>>[1] = b /\ <<b, c>>[2] = c
    OBVIOUS
  <2> QED BY <2>1, <2>2
<1>4. CASE x = Ret
  BY <1>4 DEF Ret
<1> QED BY <1>1, <1>2, <1>3, <1>4 DEF Instructs

(* Running keeps all this.                                                 *)
LEMMA RunMoves ==
  ASSUME Moving, RunStep
  PROVE  Moving'
<1>1. /\ pc = "running" /\ source' = source /\ blocks' = blocks
      /\ pc' \in {"running", "returned"}
  BY DEF RunStep, RunEvaluate, RunBranch, RunReturn, Running, emission
<1> SUFFICES ASSUME pc' = "running" PROVE Moving'
  BY <1>1 DEF Moving
<1>2. PICK f, o, b, k, w, x : /\ f = SR!First /\ o = Others /\ b = at[1] /\ k = at[2]
                              /\ w = last /\ x = Instruction
  OBVIOUS
<1>3. MovesOn(source, f, o, blocks, b, k, w)
  BY <1>1, <1>2 DEF Moving
<1>4. PICK c, d : c = blocks[b] /\ d = DOMAIN blocks /\ k \in DOMAIN c /\ x = c[k]
  BY <1>2, <1>3 DEF MovesOn, Instruction
<1>5. Piece(source, f, o, d, Lead(source, f, b), c) /\ Instructs(source, d, x)
  BY <1>3, <1>4 DEF MovesOn, Sound, Piece
<1>6. PICK b2, k2, w2 : b2 = at'[1] /\ k2 = at'[2] /\ w2 = last'
  OBVIOUS
<1>7. MovesOn(source, f, o, blocks, b2, k2, w2)
  <2>1. CASE RunEvaluate
    <3>1. /\ x.do = "run" /\ w2 = x.what /\ b2 = b /\ k2 = k + 1
      BY <1>2, <1>6, <2>1 DEF RunEvaluate, Running
    <3>2. ~IsTerminator(x) /\ Evaluated(source, w2)
      BY <1>5, <3>1, Kinds
    <3>3. PICK S : c \in Seq(S)
      BY <1>5 DEF Piece, IsCode
    <3>4. PICK a \in Nat : a = Len(c) /\ DOMAIN c = 1..a
      <4>1. PICK a \in Nat : a = Len(c)
        BY <3>3
      <4> QED BY <3>3, <4>1
    <3>5. k # a
      BY <1>3, <1>4, <3>2, <3>4 DEF MovesOn, WellFormed
    <3>6. k2 \in DOMAIN c /\ k2 > 1 /\ k2 - 1 = k
      BY <1>4, <3>1, <3>4, <3>5
    <3>7. Meets(source, f, c[k2]) \subseteq Comes(f, o, w2)
      BY <1>4, <1>5, <3>1, <3>2, <3>6 DEF Piece
    <3> QED BY <1>3, <1>4, <3>1, <3>2, <3>6, <3>7 DEF MovesOn
  <2>2. CASE RunBranch
    <3>1. /\ x.do \in {"br", "condbr"} /\ w2 = w
          /\ \E j \in DOMAIN x.to : b2 = x.to[j] /\ k2 = 1
      BY <1>2, <1>6, <2>2 DEF RunBranch, Running
    <3>2. PICK j \in DOMAIN x.to : b2 = x.to[j] /\ k2 = 1
      BY <3>1
    <3>3. b2 \in d
      BY <1>5, <3>1, <3>2, Kinds
    <3>4. Meets(source, f, x) = {Lead(source, f, x.to[i]) : i \in DOMAIN x.to}
      BY <3>1 DEF Meets
    <3>5. Lead(source, f, b2) \in Comes(f, o, w)
      BY <1>3, <1>4, <3>2, <3>4 DEF MovesOn
    <3>6. 1 \in DOMAIN blocks[b2] /\ Meets(source, f, blocks[b2][1]) = {Lead(source, f, b2)}
      BY <1>3, <1>4, <3>3, Beginning DEF MovesOn
    <3> QED BY <1>3, <1>4, <3>1, <3>2, <3>3, <3>5, <3>6 DEF MovesOn
  <2>3. CASE RunReturn
    BY <2>3 DEF RunReturn
  <2> QED BY <2>1, <2>2, <2>3 DEF RunStep
<1>8. SR!First' = f /\ Others' = o
  BY <1>1, <1>2, SameMeaning
<1>9. MovesOn(source', SR!First', Others', blocks', at'[1], at'[2], last')
  BY <1>1, <1>6, <1>7, <1>8
<1> QED BY <1>9 DEF Moving

(* So does every step.                                                     *)
LEMMA MovingStep == Base /\ Layout /\ Joined /\ Moving /\ [Next]_vars => Moving'
<1> SUFFICES ASSUME Base, Layout, Joined, Moving, [Next]_vars PROVE Moving'
  OBVIOUS
<1>1. CASE UNCHANGED vars
  <2>1. /\ source' = source /\ pc' = pc /\ blocks' = blocks /\ at' = at /\ last' = last
    BY <1>1 DEF vars, emission, run
  <2>2. SR!First' = SR!First /\ Others' = Others
    BY <2>1, SameMeaning
  <2> QED BY <2>1, <2>2 DEF Moving
<1>2. CASE (\E op \in Op : Write(op)) \/ BeginEmit
  <2>1. /\ pc = "writing" /\ pc' \in {"writing", "emitting"} /\ blocks' = blocks
        /\ at' = at /\ last' = last
    BY <1>2 DEF Write, BeginEmit, emission, run
  <2> QED BY <2>1 DEF Moving
<1>3. CASE Visit
  <2>1. /\ pc = "emitting" /\ pc' = "emitting" /\ at' = at /\ last' = last
        /\ DOMAIN blocks \subseteq DOMAIN blocks'
    BY <1>3, VisitMoves, VisitGrows
  <2> QED BY <2>1 DEF Moving
<1>4. CASE EmitEndFunction
  BY <1>4, EndMoves
<1>5. CASE RunStep
  BY <1>5, RunMoves
<1> QED BY <1>1, <1>2, <1>3, <1>4, <1>5, StepKinds

(* What the instructions meet is what the source evaluates next.           *)
LEMMA AfterIs ==
  ASSUME NEW w, Evaluated(source, w)
  PROVE  SR!After(w) = Comes(SR!First, Others, w)
<1>1. PICK f, o : f = SR!First /\ o = Others
  OBVIOUS
<1>2. CASE w = SR!Start
  <2>1. w[1] = "start"
    BY <1>2 DEF SR!Start
  <2>2. SR!After(w) = {f[1]}
    BY <1>1, <2>1 DEF SR!After
  <2>3. Comes(f, o, w) = {f[1]}
    BY <2>1 DEF Comes
  <2> QED BY <1>1, <2>2, <2>3
<1>3. ASSUME NEW part \in Parts, NEW p \in DOMAIN source, w = <<part, p>>
      PROVE  SR!After(w) = Comes(f, o, w)
  <2>1. w[1] = part /\ w[2] = p
    BY <1>3
  <2>2. o[p] = SR!Otherwise(p)
    BY <1>1 DEF Others
  <2>3. SR!After(w) = IF part = "stmt" THEN {f[p + 1]}
                      ELSE IF part \in {"init", "iter"} THEN {<<"cond", p>>}
                      ELSE IF part = "cond" THEN {f[p + 1], SR!Otherwise(p)}
                      ELSE {SR!Returned}
    <3>1. CASE part = "stmt"
      BY <1>1, <2>1, <3>1 DEF SR!After
    <3>2. CASE part \in {"init", "iter"}
      BY <1>1, <2>1, <3>2 DEF SR!After
    <3>3. CASE part = "cond"
      BY <1>1, <2>1, <3>3 DEF SR!After
    <3>4. CASE part = "return"
      BY <1>1, <2>1, <3>4 DEF SR!After
    <3> QED BY <1>3, <3>1, <3>2, <3>3, <3>4 DEF Parts
  <2>4. Comes(f, o, w) = IF part = "stmt" THEN {f[p + 1]}
                         ELSE IF part \in {"init", "iter"} THEN {<<"cond", p>>}
                         ELSE IF part = "cond" THEN {f[p + 1], o[p]}
                         ELSE {SR!Returned}
    BY <1>3, <2>1 DEF Comes, Parts
  <2> QED BY <2>2, <2>3, <2>4
<1> QED BY <1>1, <1>2, <1>3 DEF Evaluated

(* Where a running function is: at an instruction of a block, whose        *)
(* targets are blocks.                                                     *)
LEMMA RunsAt ==
  ASSUME Moving, pc = "running"
  PROVE  /\ at[1] \in DOMAIN blocks /\ at[2] \in DOMAIN blocks[at[1]]
         /\ Instructs(source, DOMAIN blocks, Instruction)
         /\ Evaluated(source, last)
         /\ Meets(source, SR!First, Instruction) \subseteq SR!After(last)
<1>1. PICK f, o : f = SR!First /\ o = Others
  OBVIOUS
<1>2. PICK b, k : b = at[1] /\ k = at[2] /\ MovesOn(source, f, o, blocks, b, k, last)
  BY <1>1 DEF Moving
<1>3. PICK x : x = Instruction /\ x = blocks[b][k]
  BY <1>2 DEF Instruction
<1>4. Instructs(source, DOMAIN blocks, x)
  BY <1>2, <1>3 DEF MovesOn, Sound, Piece
<1>5. Evaluated(source, last) /\ Meets(source, f, x) \subseteq Comes(f, o, last)
  BY <1>2, <1>3 DEF MovesOn
<1>6. SR!After(last) = Comes(f, o, last)
  BY <1>1, <1>5, AfterIs
<1> QED BY <1>1, <1>2, <1>3, <1>4, <1>5, <1>6 DEF MovesOn

(* Everything the proofs about running start from is inductive.            *)
LEMMA RunInit == Init => Base /\ Layout /\ Joined /\ Moving
<1> SUFFICES ASSUME Init PROVE Base /\ Layout /\ Joined /\ Moving
  OBVIOUS
<1>1. Base
  BY BaseInit
<1>2. pc = "writing"
  BY DEF Init
<1>3. Layout /\ Joined
  BY <1>2 DEF Layout, Joined
<1>4. Moving
  <2>1. at = <<Entry, 1>> /\ last = SR!Start /\ blocks = [b \in {Entry} |-> <<>>]
    BY DEF Init, SR!Start
  <2>2. Entry \in DOMAIN blocks
    BY <2>1
  <2> QED BY <1>2, <2>1, <2>2 DEF Moving
<1> QED BY <1>1, <1>3, <1>4

(* So it holds in every state.                                             *)
LEMMA RunInvariant == Spec => [](Base /\ Layout /\ Joined /\ Moving)
<1>1. Base /\ Layout /\ Joined /\ Moving /\ [Next]_vars
        => (Base /\ Layout /\ Joined /\ Moving)'
  BY BaseStep, LayoutStep, JoinedStep, MovingStep
<1> QED BY <1>1, RunInit, PTL DEF Spec

(* An evaluation is one the source makes.                                  *)
LEMMA EvaluateMaps ==
  ASSUME Moving, RunEvaluate
  PROVE  SR!Evaluate
<1>1. PICK x : x = Instruction
  OBVIOUS
<1>2. /\ pc = "running" /\ x.do = "run" /\ last' = x.what /\ turn' = ~turn
      /\ source' = source /\ pc' = pc
  BY <1>1 DEF RunEvaluate, Running
<1>3. x.what # SR!Returned
  BY <1>1, <1>2, RunsAt, Kinds
<1>4. Meets(source, SR!First, x) = {x.what}
  BY <1>2 DEF Meets
<1>5. x.what \in SR!After(last)
  BY <1>1, <1>2, <1>4, RunsAt
<1>6. last' \in SR!After(last) \ {SR!Returned}
  BY <1>2, <1>3, <1>5
<1> QED BY <1>2, <1>6 DEF SR!Evaluate

(* The function returns where the source does.                             *)
LEMMA ReturnMaps ==
  ASSUME Moving, RunReturn
  PROVE  SR!Finish
<1>1. PICK x : x = Instruction
  OBVIOUS
<1>2. /\ pc = "running" /\ x.do = "ret" /\ last' = last /\ turn' = turn
      /\ source' = source /\ pc' = "returned"
  BY <1>1 DEF RunReturn, Running, run
<1>3. Meets(source, SR!First, x) = {SR!Returned}
  BY <1>2 DEF Meets
<1>4. SR!Returned \in SR!After(last)
  BY <1>1, <1>2, <1>3, RunsAt
<1> QED BY <1>2, <1>4 DEF SR!Finish

(* Every step is one of the source's run, or none.                         *)
LEMMA StepMaps == Base /\ Layout /\ Moving /\ [Next]_vars => [SR!AbsNext]_(SR!absVars)
<1> SUFFICES ASSUME Base, Layout, Moving, [Next]_vars
             PROVE  SR!AbsNext \/ UNCHANGED SR!absVars
  OBVIOUS
<1>1. CASE UNCHANGED vars
  BY <1>1 DEF vars, run, SR!absVars
<1>2. CASE \E op \in Op : Write(op)
  <2>1. PICK op \in Op : Write(op)
    BY <1>2
  <2>2. /\ pc = "writing" /\ pc' = pc /\ source' = Append(source, op)
        /\ last' = last /\ turn' = turn
    BY <2>1 DEF Write, run
  <2>3. SR!AbsWrite
    BY <2>2 DEF SR!AbsWrite
  <2> QED BY <2>3 DEF SR!AbsNext
<1>3. CASE BeginEmit
  <2>1. /\ pc = "writing" /\ pc' = "emitting" /\ source' = source
        /\ last' = last /\ turn' = turn
    BY <1>3 DEF BeginEmit, run
  <2> QED BY <2>1 DEF SR!absVars
<1>4. CASE Visit
  <2>1. /\ pc = "emitting" /\ pc' = "emitting" /\ source' = source
        /\ last' = last /\ turn' = turn
    BY <1>4, VisitMoves, VisitGrows
  <2> QED BY <2>1 DEF SR!absVars
<1>5. CASE EmitEndFunction
  <2>1. /\ pc = "emitting" /\ pc' \in {"running", "malformed"} /\ source' = source
        /\ last' = last /\ turn' = turn
    BY <1>5 DEF EmitEndFunction, run
  <2>2. SR!AbsBegin
    BY <2>1 DEF SR!AbsBegin
  <2> QED BY <2>2 DEF SR!AbsNext
<1>6. CASE RunEvaluate
  BY <1>6, EvaluateMaps DEF SR!AbsNext
<1>7. CASE RunBranch
  <2>1. pc' = pc /\ source' = source /\ last' = last /\ turn' = turn
    BY <1>7 DEF RunBranch
  <2> QED BY <2>1 DEF SR!absVars
<1>8. CASE RunReturn
  BY <1>8, ReturnMaps DEF SR!AbsNext
<1> QED BY <1>1, <1>2, <1>3, <1>4, <1>5, <1>6, <1>7, <1>8, StepKinds DEF RunStep

(* Running the blocks is running the source, for bodies of any length: the *)
(* same statements and conditions are evaluated in the same order, a       *)
(* condition leads where its branch says, a break leaves the innermost     *)
(* loop, a loop comes back to its condition through its iteration, and the *)
(* function returns only where the source does.                            *)
THEOREM RunsAsWritten == Spec => SR!AbsSafety
<1>1. Init => SR!AbsInit
  BY DEF Init, SR!AbsInit, SR!Start
<1>2. Base /\ Layout /\ Moving /\ [Next]_vars => [SR!AbsNext]_(SR!absVars)
  BY StepMaps
<1> QED BY <1>1, <1>2, RunInvariant, PTL DEF Spec, SR!AbsSafety

(* A running function is at an instruction of one of its blocks, an        *)
(* evaluation, a branch or the return, and a branch leads to blocks of the *)
(* function: control never runs off the end of a block, where another one  *)
(* happens to lie.                                                         *)
OnInstruction ==
  pc = "running" =>
    /\ at[1] \in DOMAIN blocks /\ at[2] \in DOMAIN blocks[at[1]]
    /\ Instruction.do \in {"run", "br", "condbr", "ret"}
    /\ Instruction.do \in {"br", "condbr"} =>
         \A k \in DOMAIN Instruction.to : Instruction.to[k] \in DOMAIN blocks

(* It holds of bodies of any length.                                       *)
THEOREM NeverRunsOff == Spec => []OnInstruction
<1>1. Moving => OnInstruction
  <2> SUFFICES ASSUME Moving, pc = "running" PROVE OnInstruction
    BY DEF OnInstruction
  <2>1. PICK x : x = Instruction /\ Instructs(source, DOMAIN blocks, x)
    BY RunsAt
  <2>2. /\ x.do \in {"run", "br", "condbr", "ret"}
        /\ x.do \in {"br", "condbr"} => \A k \in DOMAIN x.to : x.to[k] \in DOMAIN blocks
    BY <2>1, Kinds
  <2> QED BY <2>1, <2>2, RunsAt DEF OnInstruction
<1> QED BY <1>1, RunInvariant, PTL

-----------------------------------------------------------------------------
(* The types.  A target is a block of the function, in a finished one too. *)
LEMMA TargetsAre ==
  ASSUME NEW s, NEW d, NEW x, Instructs(s, d, x)
  PROVE  Range(x.to) \subseteq d
<1>1. ASSUME NEW part, NEW p, x = Run(part, p) PROVE x.to = <<>>
  BY <1>1 DEF Run
<1>2. CASE x = Ret
  BY <1>2 DEF Ret, Range
<1>3. ASSUME NEW b \in d, x = Br(b) PROVE Range(x.to) \subseteq d
  <2>1. x.to = <<b>>
    BY <1>3 DEF Br
  <2> QED BY <2>1 DEF Range
<1>4. ASSUME NEW b \in d, NEW c \in d, x = CondBr(b, c) PROVE Range(x.to) \subseteq d
  <2>1. x.to = <<b, c>>
    BY <1>4 DEF CondBr
  <2> QED BY <2>1 DEF Range
<1> QED BY <1>1, <1>2, <1>3, <1>4 DEF Instructs, Range

(* The targets of all instructions are blocks.                             *)
Targets(bs) ==
  \A b \in DOMAIN bs : \A k \in DOMAIN bs[b] : Range(bs[b][k].to) \subseteq DOMAIN bs

(* They are when the blocks mean what the source means.                    *)
LEMMA SoundTargets ==
  ASSUME NEW s, NEW f, NEW o, NEW bs, Sound(s, f, o, bs)
  PROVE  Targets(bs)
<1> SUFFICES ASSUME NEW b \in DOMAIN bs, NEW k \in DOMAIN bs[b]
             PROVE  Range(bs[b][k].to) \subseteq DOMAIN bs
  BY DEF Targets
<1>1. Instructs(s, DOMAIN bs, bs[b][k])
  BY DEF Sound, Piece
<1> QED BY <1>1, TargetsAre

(* What is typed and no proof before says.                                 *)
Typed ==
  /\ Len(source) <= MaxItems
  /\ branch \in Seq(DOMAIN source)
  /\ DOMAIN blocks \subseteq Block
  /\ insert \in DOMAIN blocks
  /\ Targets(blocks)
  /\ at[1] \in DOMAIN blocks /\ at[2] \in Nat

(* The blocks a visitor creates are named by items of the body.            *)
LEMMA VisitCreates ==
  ASSUME Base, Layout, Visit, Typed
  PROVE  DOMAIN blocks' \subseteq Block
<1>1. /\ pos \in DOMAIN source /\ source \in Seq(Op)
      /\ pos \in Nat /\ pos # 0
  BY Visiting
<1>2. DOMAIN source \subseteq 0..MaxItems
  BY <1>1, MaxItemsAssumption DEF Typed
<1>3. DOMAIN blocks \subseteq Block
  BY DEF Typed
<1>4. CASE EmitIf
  <2>1. PICK h : Legible(h, source) /\ Visited(h, source, pos, nest)
    BY <1>4, VisitMoves
  <2>2. source[pos] = "if"
    BY <1>4, VisitMoves
  <2>3. pos \in Opens(source) /\ h[Len(source)] = <<>>
    BY <1>1, <2>1, <2>2 DEF Opens, Openers, Visited
  <2>4. BranchesIn(source, pos) \subseteq DOMAIN source
    BY <1>1, <2>1, <2>3, BranchesAre
  <2>5. PICK new : /\ new = ({"cond", "branch"} \X Branches(pos)) \cup {<<"endif", pos>>}
                   /\ DOMAIN blocks' = DOMAIN blocks \cup new
    BY <1>4 DEF EmitIf, Emit, Created
  <2>6. Branches(pos) \subseteq DOMAIN source
    BY <2>4, SameCounts
  <2>7. new \subseteq Block
    BY <1>1, <1>2, <2>5, <2>6 DEF Block, Roles
  <2> QED BY <1>3, <2>5, <2>7
<1>5. CASE EmitLoop
  <2>1. PICK new : /\ new = {"init", "predicate", "loop_body", "iter", "loop_end"} \X {pos}
                   /\ DOMAIN blocks' = DOMAIN blocks \cup new
    BY <1>5 DEF EmitLoop, Emit, EmitUnless, Created
  <2>2. new \subseteq Block
    BY <1>1, <1>2, <2>1 DEF Block, Roles
  <2> QED BY <1>3, <2>1, <2>2
<1>6. CASE Plain \/ EmitBranch \/ EmitEndIf \/ EmitEndLoop
  <2>1. DOMAIN blocks' = DOMAIN blocks
    BY <1>6 DEF Plain, EmitStmt, EmitReturn, EmitBreak, EmitContinue, EmitBranch,
       EmitEndIf, EmitEndLoop, Emit, EmitUnless
  <2> QED BY <1>3, <2>1
<1> QED BY <1>4, <1>5, <1>6 DEF Visit

(* The branches that are visited are items of the body.                    *)
LEMMA VisitBranches ==
  ASSUME Base, Placement, Visit, Typed
  PROVE  branch' \in Seq(DOMAIN source)
<1>1. /\ pc = "emitting" /\ pos \in DOMAIN source
      /\ EmitBranch => source[pos] \in {"elif", "else"}
      /\ EmitEndIf \/ EmitEndLoop => source[pos] = "end" /\ nest # <<>>
  BY VisitMoves
<1>2. PICK h : Legible(h, source) /\ Visited(h, source, pos, nest)
  BY VisitMoves
<1>3. PICK D : D = DOMAIN source /\ branch \in Seq(D) /\ pos \in D
  BY <1>1 DEF Typed
<1>4. Len(branch) = Len(nest) /\ nest \in Seq(Nat)
  BY <1>1, <1>2, NestFacts DEF Placement
<1>5. CASE Plain
  BY <1>3, <1>5 DEF Plain, EmitStmt, EmitReturn, EmitBreak, EmitContinue
<1>6. CASE EmitIf \/ EmitLoop
  <2>1. branch' = Append(branch, pos)
    BY <1>6 DEF EmitIf, EmitLoop
  <2> QED BY <1>3, <2>1
<1>7. CASE EmitBranch
  <2>1. branch' = [branch EXCEPT ![Len(branch)] = pos]
    BY <1>7 DEF EmitBranch
  <2>2. nest # <<>>
    BY <1>1, <1>2, <1>7, BranchFound
  <2>3. Len(branch) \in DOMAIN branch
    BY <1>3, <1>4, <2>2
  <2> QED BY <1>3, <2>1, <2>3
<1>8. CASE EmitEndIf \/ EmitEndLoop
  <2>1. branch' = Shorter(branch)
    BY <1>8 DEF EmitEndIf, EmitEndLoop
  <2>2. PICK l \in Nat : l = Len(branch) /\ l # 0
    BY <1>1, <1>3, <1>4, <1>8
  <2>3. PICK m \in Nat : m = l - 1 /\ m \in 0..l
    BY <2>2
  <2>4. branch' = SubSeq(branch, 1, m)
    BY <2>1, <2>2, <2>3 DEF Shorter
  <2> QED BY <1>3, <2>2, <2>3, <2>4, FirstOf
<1> QED BY <1>5, <1>6, <1>7, <1>8 DEF Visit

(* The types are kept by every step.                                       *)
LEMMA TypedStep ==
  ASSUME Base, Placement, Layout, Joined, Moving, Typed, [Next]_vars
  PROVE  Typed'
<1>1. CASE UNCHANGED vars
  BY <1>1 DEF vars, emission, run, Typed, Targets
<1>2. ASSUME NEW op \in Op, Write(op) PROVE Typed'
  <2>1. /\ source' = Append(source, op) /\ Len(source) < MaxItems /\ pc = "writing"
        /\ branch' = branch /\ blocks' = blocks /\ insert' = insert /\ at' = at
    BY <1>2 DEF Write, run
  <2>2. source \in Seq(Op) /\ branch = <<>>
    BY <2>1, LegibleFacts DEF Base, Nesting, Quiet
  <2>3. Len(source') <= MaxItems
    BY <2>1, <2>2, MaxItemsAssumption
  <2> QED BY <2>1, <2>2, <2>3 DEF Typed, Targets
<1>3. CASE BeginEmit
  BY <1>3 DEF BeginEmit, emission, run, Typed, Targets
<1>4. CASE Visit
  <2>1. /\ source' = source /\ pc' = "emitting" /\ at' = at
        /\ DOMAIN blocks \subseteq DOMAIN blocks'
    BY <1>4, VisitMoves, VisitGrows
  <2>2. insert' \in DOMAIN blocks'
    <3>1. Layout'
      BY LayoutStep
    <3> QED BY <2>1, <3>1 DEF Layout, Laid
  <2>3. Targets(blocks')
    <3>1. Joined'
      BY JoinedStep
    <3>2. PICK f, o : Sound(source', f, o, blocks')
      BY <2>1, <3>1 DEF Joined
    <3> QED BY <3>2, SoundTargets
  <2>4. DOMAIN blocks' \subseteq Block /\ branch' \in Seq(DOMAIN source)
    BY <1>4, VisitCreates, VisitBranches
  <2> QED BY <2>1, <2>2, <2>3, <2>4 DEF Typed, Targets
<1>5. CASE EmitEndFunction
  <2>1. /\ source' = source /\ branch' = branch /\ insert' = insert /\ at' = at
    BY <1>5 DEF EmitEndFunction, run
  <2>2. PICK f, o : Sound(source, f, o, blocks') /\ DOMAIN blocks' = DOMAIN blocks
    BY <1>5, EndSound
  <2>3. Targets(blocks')
    BY <2>2, SoundTargets
  <2> QED BY <2>1, <2>2, <2>3 DEF Typed, Targets
<1>6. CASE RunStep
  <2>1. /\ source' = source /\ branch' = branch /\ blocks' = blocks /\ insert' = insert
    BY <1>6 DEF RunStep, RunEvaluate, RunBranch, RunReturn, emission
  <2>2. at'[1] \in DOMAIN blocks /\ at'[2] \in Nat
    <3>1. CASE RunReturn
      BY <3>1 DEF RunReturn, run, Typed
    <3>2. CASE ~RunReturn
      <4>1. pc' = "running" /\ Moving'
        BY <1>6, <3>2, MovingStep DEF RunStep, RunEvaluate, RunBranch, Running
      <4>2. PICK f, o, b, k : /\ b = at'[1] /\ k = at'[2]
                              /\ MovesOn(source', f, o, blocks', b, k, last')
        BY <4>1 DEF Moving
      <4>3. PICK c : c = blocks[b] /\ b \in DOMAIN blocks /\ k \in DOMAIN c
        BY <2>1, <4>2 DEF MovesOn
      <4>4. PICK S : c \in Seq(S)
        BY <2>1, <4>2, <4>3 DEF MovesOn, Sound, Piece, IsCode
      <4>5. k \in Nat
        BY <4>3, <4>4
      <4> QED BY <4>2, <4>3, <4>5
    <3> QED BY <3>1, <3>2
  <2> QED BY <2>1, <2>2 DEF Typed, Targets
<1> QED BY <1>1, <1>2, <1>3, <1>4, <1>5, <1>6, StepKinds

(* The place of the visitors and the openers around it are typed, while    *)
(* the body is written too.                                                *)
LEMMA NestTyped ==
  ASSUME Base
  PROVE  /\ source \in Seq(Op)
         /\ pos \in 1..(Len(source) + 1)
         /\ nest \in Seq(DOMAIN source)
<1>1. PICK h : /\ Legible(h, source)
               /\ pc = "writing" => nest = h[Len(source)]
               /\ pc # "writing" => Visited(h, source, pos, nest)
  BY DEF Base, Nesting
<1>2. PICK l \in Nat : l = Len(source) /\ DOMAIN source = 1..l
  BY <1>1, LegibleFacts
<1>3. source \in Seq(Op)
  BY <1>1, LegibleFacts
<1>4. pos \in 1..(Len(source) + 1)
  BY <1>1, <1>2 DEF Base, Quiet, Visited
<1>5. nest \in Seq(DOMAIN source)
  <2>1. PICK p \in Nat : p \in 0..l /\ nest = h[p]
    <3>1. CASE pc = "writing"
      BY <1>1, <1>2, <3>1
    <3>2. CASE pc # "writing"
      <4>1. pos \in Nat /\ pos - 1 \in 0..l /\ nest = h[pos - 1]
        BY <1>1, <1>2, <1>4, <3>2 DEF Visited
      <4>2. pos - 1 \in Nat
        BY <4>1
      <4> QED BY <4>1, <4>2
    <3> QED BY <3>1, <3>2
  <2>2. nest \in Seq(1..p)
    BY <1>1, <1>2, <2>1 DEF Legible, IsHistory, Recorded, Ascending
  <2>3. 1..p \subseteq 1..l
    BY <2>1
  <2> QED BY <1>2, <2>2, <2>3, SeqWider
<1> QED BY <1>3, <1>4, <1>5

(* The types hold of bodies of any length: the blocks are those of items   *)
(* of the body, the builder is in one of them, and each instruction goes   *)
(* to blocks of the function, in a malformed function as well.             *)
THEOREM TypeCorrect == Spec => []TypeOK
<1>1. Init => Base /\ Placement /\ Layout /\ Joined /\ Moving /\ Typed
  <2> SUFFICES ASSUME Init PROVE Base /\ Placement /\ Layout /\ Joined /\ Moving /\ Typed
    OBVIOUS
  <2>1. Base /\ Layout /\ Joined /\ Moving
    BY RunInit
  <2>2. Placement
    BY DEF Init, Placement
  <2>3. /\ source = <<>> /\ branch = <<>> /\ insert = Entry /\ at = <<Entry, 1>>
        /\ blocks = [b \in {Entry} |-> <<>>]
    BY DEF Init
  <2>4. Entry \in Block
    BY MaxItemsAssumption DEF Entry, Block, Roles
  <2>5. Len(source) <= MaxItems
    BY <2>3, MaxItemsAssumption
  <2> QED BY <2>1, <2>2, <2>3, <2>4, <2>5 DEF Typed, Targets
<1>2. Base /\ Placement /\ Layout /\ Joined /\ Moving /\ Typed /\ [Next]_vars
        => (Base /\ Placement /\ Layout /\ Joined /\ Moving /\ Typed)'
  BY BaseStep, PlacementStep, LayoutStep, JoinedStep, MovingStep, TypedStep
<1>3. Base /\ Typed => TypeOK
  <2> SUFFICES ASSUME Base, Typed PROVE TypeOK
    OBVIOUS
  <2>1. pc \in {"writing", "emitting", "running", "returned", "malformed"}
    BY DEF Base, Phases
  <2> QED BY <2>1, NestTyped DEF Typed, Targets, TypeOK
<1> QED BY <1>1, <1>2, <1>3, PTL DEF Spec

-----------------------------------------------------------------------------
(* Between two evaluations.  The blocks stand in an order in which every   *)
(* branch goes forward, but for those to the condition of a loop, which is *)
(* evaluated at once.                                                      *)
Place(s, b) ==
  IF b[1] = "func_entry" THEN 0
  ELSE IF b[1] \in {"cond", "init", "predicate"} THEN 2 * b[2]
  ELSE IF b[1] \in {"branch", "loop_body"} THEN 2 * b[2] + 1
  ELSE IF b[1] = "iter" THEN 2 * EndIn(s, b[2])
  ELSE 2 * EndIn(s, b[2]) + 1

(* The instruction x of the block b goes forward, or to a condition; so do *)
(* those of c.                                                             *)
Onward(s, b, x) ==
  \A k \in DOMAIN x.to : x.to[k][1] = "predicate" \/ Place(s, b) < Place(s, x.to[k])
AllOnward(s, b, c) == \A k \in DOMAIN c : Onward(s, b, c[k])

Evaluates(c) == c # <<>> /\ c[1].do = "run"

Forward(s, bs) ==
  \A b \in DOMAIN bs :
    AllOnward(s, b, bs[b]) /\ (b[1] = "predicate" => Evaluates(bs[b]))
Ranked(s, d) == \A b \in d : Place(s, b) \in 0..(2 * Len(s) + 1)

(* The ways an instruction goes.                                           *)
LEMMA OnwardIs ==
  ASSUME NEW s, NEW b
  PROVE  /\ \A part, p : Onward(s, b, Run(part, p))
         /\ Onward(s, b, Ret)
         /\ \A t : t[1] = "predicate" \/ Place(s, b) < Place(s, t) => Onward(s, b, Br(t))
         /\ \A t, u : Place(s, b) < Place(s, t) /\ Place(s, b) < Place(s, u)
                        => Onward(s, b, CondBr(t, u))
<1>1. ASSUME NEW part, NEW p PROVE Onward(s, b, Run(part, p))
  <2>1. Run(part, p).to = <<>>
    BY DEF Run
  <2> QED BY <2>1 DEF Onward
<1>2. Onward(s, b, Ret)
  <2>1. Ret.to = <<>>
    BY DEF Ret
  <2> QED BY <2>1 DEF Onward
<1>3. ASSUME NEW t, t[1] = "predicate" \/ Place(s, b) < Place(s, t)
      PROVE  Onward(s, b, Br(t))
  <2>1. Br(t).to = <<t>>
    BY DEF Br
  <2>2. DOMAIN <<t>> = {1} /\ <<t>>[1] = t
    OBVIOUS
  <2> QED BY <1>3, <2>1, <2>2 DEF Onward
<1>4. ASSUME NEW t, NEW u, Place(s, b) < Place(s, t), Place(s, b) < Place(s, u)
      PROVE  Onward(s, b, CondBr(t, u))
  <2>1. CondBr(t, u).to = <<t, u>>
    BY DEF CondBr
  <2>2. DOMAIN <<t, u>> = {1, 2} /\ <<t, u>>[1] = t /\ <<t, u>>[2] = u
    OBVIOUS
  <2> QED BY <1>4, <2>1, <2>2 DEF Onward
<1> QED BY <1>1, <1>2, <1>3, <1>4

(* Code of at most two instructions, and code put together.                *)
LEMMA OnwardGlued ==
  ASSUME NEW s, NEW b
  PROVE  /\ AllOnward(s, b, <<>>)
         /\ \A x : Onward(s, b, x) => AllOnward(s, b, <<x>>)
         /\ \A x, y : Onward(s, b, x) /\ Onward(s, b, y) => AllOnward(s, b, <<x, y>>)
         /\ \A c, t : IsCode(c) /\ IsCode(t) /\ AllOnward(s, b, c) /\ AllOnward(s, b, t)
                        => AllOnward(s, b, c \o t)
<1>1. AllOnward(s, b, <<>>)
  BY DEF AllOnward
<1>2. ASSUME NEW x, Onward(s, b, x) PROVE AllOnward(s, b, <<x>>)
  <2>1. DOMAIN <<x>> = {1} /\ <<x>>[1] = x
    OBVIOUS
  <2> QED BY <1>2, <2>1 DEF AllOnward
<1>3. ASSUME NEW x, NEW y, Onward(s, b, x), Onward(s, b, y)
      PROVE  AllOnward(s, b, <<x, y>>)
  <2>1. DOMAIN <<x, y>> = {1, 2} /\ <<x, y>>[1] = x /\ <<x, y>>[2] = y
    OBVIOUS
  <2> QED BY <1>3, <2>1 DEF AllOnward
<1>4. ASSUME NEW c, NEW t, IsCode(c), IsCode(t), AllOnward(s, b, c), AllOnward(s, b, t)
      PROVE  AllOnward(s, b, c \o t)
  <2>1. PICK S : c \in Seq(S)
    BY <1>4 DEF IsCode
  <2>2. PICK T : t \in Seq(T)
    BY <1>4 DEF IsCode
  <2>3. c \in Seq(S \cup T) /\ t \in Seq(S \cup T)
    BY <2>1, <2>2, SeqWider
  <2>4. PICK a, e \in Nat : a = Len(c) /\ e = Len(t) /\ DOMAIN c = 1..a /\ DOMAIN t = 1..e
    <3>1. Len(c) \in Nat /\ Len(t) \in Nat
      BY <2>3
    <3> QED BY <2>3, <3>1
  <2>5. PICK g : g = c \o t
    OBVIOUS
  <2>6. /\ g \in Seq(S \cup T) /\ Len(g) = a + e
        /\ \A k \in 1..(a + e) : g[k] = IF k <= a THEN c[k] ELSE t[k - a]
    BY <2>3, <2>4, <2>5, ConcatProperties
  <2>7. ASSUME NEW k \in 1..(a + e) PROVE Onward(s, b, g[k])
    <3>1. CASE k <= a
      BY <1>4, <2>4, <2>6, <3>1 DEF AllOnward
    <3>2. CASE ~(k <= a)
      <4>1. k - a \in 1..e /\ g[k] = t[k - a]
        BY <2>4, <2>6, <3>2
      <4> QED BY <1>4, <2>4, <4>1 DEF AllOnward
    <3> QED BY <3>1, <3>2
  <2>8. DOMAIN g = 1..(a + e)
    BY <2>4, <2>6
  <2> QED BY <2>5, <2>7, <2>8 DEF AllOnward
<1> QED BY <1>1, <1>2, <1>3, <1>4

(* The blocks go forward when what the visitor appends and what it fills   *)
(* do.                                                                     *)
LEMMA ForwardKept ==
  ASSUME NEW s, NEW bs, Forward(s, bs), NEW i \in DOMAIN bs, i[1] # "predicate",
         IsCode(bs[i]),
         NEW cs, NEW t, NEW new, NEW full, Lays(bs, cs, i, t, new, full),
         AllOnward(s, i, t), \A b \in full : AllOnward(s, b, cs[b]),
         \A b \in full : b[1] = "predicate" => Evaluates(cs[b]),
         \A b \in DOMAIN cs : b[1] = "predicate" => b \in full \/ b \in DOMAIN bs
  PROVE  Forward(s, cs)
<1> SUFFICES ASSUME NEW b \in DOMAIN cs
             PROVE  AllOnward(s, b, cs[b]) /\ (b[1] = "predicate" => Evaluates(cs[b]))
  BY DEF Forward
<1>1. CASE b = i
  <2>1. cs[b] = bs[i] \o t /\ IsCode(t)
    BY <1>1 DEF Lays
  <2>2. AllOnward(s, i, bs[i])
    BY DEF Forward
  <2> QED BY <1>1, <2>1, <2>2, OnwardGlued
<1>2. CASE b \in full
  BY <1>2
<1>3. CASE b # i /\ b \notin full
  <2>1. cs[b] = IF b \in DOMAIN bs THEN bs[b] ELSE <<>>
    BY <1>3 DEF Lays
  <2>2. CASE b \in DOMAIN bs
    BY <2>1, <2>2 DEF Forward
  <2>3. CASE b \notin DOMAIN bs
    BY <1>3, <2>1, <2>3, OnwardGlued
  <2> QED BY <2>2, <2>3
<1> QED BY <1>1, <1>2, <1>3

(* Where the blocks stand.                                                 *)
LEMMA Places ==
  ASSUME NEW s, NEW p
  PROVE  /\ Place(s, Entry) = 0
         /\ Place(s, <<"cond", p>>) = 2 * p /\ Place(s, <<"init", p>>) = 2 * p
         /\ Place(s, <<"predicate", p>>) = 2 * p
         /\ Place(s, <<"branch", p>>) = 2 * p + 1
         /\ Place(s, <<"loop_body", p>>) = 2 * p + 1
         /\ Place(s, <<"iter", p>>) = 2 * EndIn(s, p)
         /\ Place(s, <<"endif", p>>) = 2 * EndIn(s, p) + 1
         /\ Place(s, <<"loop_end", p>>) = 2 * EndIn(s, p) + 1
BY DEF Place, Entry

(* Those of items and constructs of the body stand within it.              *)
LEMMA PlacesWithin ==
  ASSUME NEW h, NEW s, Legible(h, s), h[Len(s)] = <<>>
  PROVE  /\ \A p \in DOMAIN s, r \in {"cond", "init", "predicate", "branch", "loop_body"} :
              Place(s, <<r, p>>) \in 0..(2 * Len(s) + 1)
         /\ \A i \in Opens(s), r \in {"iter", "endif", "loop_end"} :
              Place(s, <<r, i>>) \in 0..(2 * Len(s) + 1)
<1>1. PICK l \in Nat : l = Len(s) /\ DOMAIN s = 1..l
  BY LegibleFacts
<1>2. ASSUME NEW p \in DOMAIN s,
             NEW r \in {"cond", "init", "predicate", "branch", "loop_body"}
      PROVE  Place(s, <<r, p>>) \in 0..(2 * l + 1)
  <2>1. Place(s, <<r, p>>) = 2 * p \/ Place(s, <<r, p>>) = 2 * p + 1
    BY DEF Place
  <2>2. p \in 1..l
    BY <1>1
  <2> QED BY <2>1, <2>2
<1>3. ASSUME NEW i \in Opens(s), NEW r \in {"iter", "endif", "loop_end"}
      PROVE  Place(s, <<r, i>>) \in 0..(2 * l + 1)
  <2>1. i \in 1..l /\ EndIn(s, i) \in i..l
    BY <1>1, EndInIs
  <2>2. PICK e \in i..l : e = EndIn(s, i)
    BY <2>1
  <2>3. Place(s, <<r, i>>) = 2 * e \/ Place(s, <<r, i>>) = 2 * e + 1
    BY <2>2 DEF Place
  <2> QED BY <2>1, <2>3
<1> QED BY <1>1, <1>2, <1>3

(* The builder is in a block that stands before the next item.             *)
LEMMA BuilderBefore ==
  ASSUME Base, Layout, Placement, pc = "emitting"
  PROVE  /\ insert \in DOMAIN blocks /\ insert[1] # "predicate" /\ IsCode(blocks[insert])
         /\ Place(source, insert) \in Nat /\ Place(source, insert) < 2 * pos
<1>1. /\ insert \in DOMAIN blocks /\ insert[1] \in Here /\ Past(insert, pos)
      /\ IsCode(blocks[insert])
  BY DEF Layout, Laid
<1>2. PICK h : Legible(h, source) /\ Visited(h, source, pos, nest)
  BY NestingElim DEF Base
<1>3. pos \in Nat /\ pos # 0
  <2>1. pos \in 1..(Len(source) + 1) /\ Len(source) \in Nat
    BY <1>2, LegibleFacts DEF Visited
  <2> QED BY <2>1
<1>4. AtHome(source, nest, branch, insert, pos)
  BY DEF Placement
<1>5. PICK p : p = insert[2] /\ p \in 0..(pos - 1)
  BY <1>1 DEF Past
<1>6. CASE insert = HomeOf(source, nest, branch)
  <2>1. insert[1] \in {"func_entry", "branch", "loop_body"}
    BY <1>6 DEF HomeOf, Entry
  <2>2. Place(source, insert) = 0 \/ Place(source, insert) = 2 * p + 1
    BY <1>5, <2>1 DEF Place
  <2> QED BY <1>1, <1>3, <1>5, <2>1, <2>2
<1>7. CASE insert # HomeOf(source, nest, branch)
  <2>1. insert[1] \in {"endif", "loop_end"} /\ EndIn(source, p) \in 1..(pos - 1)
    BY <1>4, <1>5, <1>7 DEF AtHome, HasEnded
  <2>2. PICK e \in 1..(pos - 1) : e = EndIn(source, p)
    BY <2>1
  <2>3. Place(source, insert) = 2 * e + 1
    BY <1>5, <2>1, <2>2 DEF Place
  <2> QED BY <1>1, <1>3, <2>1, <2>3
<1> QED BY <1>6, <1>7

(* A condition leads on to its branch, or to a later one, or behind all.   *)
LEMMA ConditionOnward ==
  ASSUME NEW h, Legible(h, source), h[Len(source)] = <<>>, NEW i \in Opens(source),
         source[i] = "if", NEW b \in BranchesIn(source, i)
  PROVE  AllOnward(source, <<"cond", b>>, Condition(i, b))
<1>1. PICK l \in Nat : l = Len(source) /\ DOMAIN source = 1..l
  BY LegibleFacts
<1>2. i \in 1..l /\ EndIn(source, i) \in i..l
  BY <1>1, EndInIs
<1>3. PICK e \in i..l : e = EndIn(source, i)
  BY <1>2
<1>4. \A c \in BranchesIn(source, i) : c \in i..e
  BY <1>2, <1>3 DEF BranchesIn
<1>5. PICK next : next = NextIn(source, i, b)
  OBVIOUS
<1>6. Condition(i, b) = IF source[b] = "else" THEN <<Br(<<"branch", b>>)>>
                        ELSE <<Run("cond", b), CondBr(<<"branch", b>>, next)>>
  <2>1. Branches(i) = BranchesIn(source, i)
    BY SameCounts
  <2> QED BY <1>5, <2>1 DEF Condition, NextIn
<1>7. PICK k \in i..e : k = b
  BY <1>4
<1>8. Place(source, <<"cond", b>>) < Place(source, <<"branch", b>>)
  <2>1. /\ Place(source, <<"cond", b>>) = 2 * k
        /\ Place(source, <<"branch", b>>) = 2 * k + 1
    BY <1>7, Places
  <2> QED BY <1>2, <2>1
<1>9. Place(source, <<"cond", b>>) < Place(source, next)
  <2>1. CASE next = <<"endif", i>>
    <3>1. Place(source, <<"cond", b>>) = 2 * k /\ Place(source, next) = 2 * e + 1
      BY <1>3, <1>7, <2>1, Places
    <3> QED BY <1>2, <3>1
  <2>2. ASSUME NEW c \in BranchesIn(source, i), c > b, next = <<"cond", c>>
        PROVE  Place(source, <<"cond", b>>) < Place(source, next)
    <3>1. PICK m \in i..e : m = c /\ m > k
      BY <1>4, <1>7, <2>2
    <3>2. Place(source, <<"cond", b>>) = 2 * k /\ Place(source, next) = 2 * m
      BY <1>7, <2>2, <3>1, Places
    <3> QED BY <1>2, <3>1, <3>2
  <2> QED BY <1>5, <2>1, <2>2, NextIs
<1> QED BY <1>6, <1>8, <1>9, OnwardIs, OnwardGlued

(* So does what stands before a loop, its condition and what follows its   *)
(* body.                                                                   *)
LEMMA LoopOnward ==
  ASSUME NEW h, NEW s, Legible(h, s), h[Len(s)] = <<>>, NEW i \in Opens(s), NEW b, NEW x,
         \E part \in Parts : x = Run(part, i)
  PROVE  /\ AllOnward(s, b, <<>> \o <<Br(<<"predicate", i>>)>>)
         /\ AllOnward(s, b, <<x>> \o <<Br(<<"predicate", i>>)>>)
         /\ AllOnward(s, <<"predicate", i>>,
                      <<Run("cond", i), CondBr(<<"loop_body", i>>, <<"loop_end", i>>)>>)
<1>1. PICK y : y = Br(<<"predicate", i>>)
  OBVIOUS
<1>2. Onward(s, b, x) /\ Onward(s, b, y)
  BY <1>1, OnwardIs
<1>3. /\ IsCode(<<>>) /\ IsCode(<<x>>) /\ IsCode(<<y>>)
  BY ShortCode
<1>4. AllOnward(s, b, <<>>) /\ AllOnward(s, b, <<x>>) /\ AllOnward(s, b, <<y>>)
  BY <1>2, OnwardGlued
<1>5. AllOnward(s, b, <<>> \o <<y>>) /\ AllOnward(s, b, <<x>> \o <<y>>)
  BY <1>3, <1>4, OnwardGlued
<1>6. PICK l \in Nat : l = Len(s)
  BY LegibleFacts
<1>7. i \in 1..l /\ EndIn(s, i) \in i..l
  BY <1>6, EndInIs
<1>8. PICK e \in i..l : e = EndIn(s, i)
  BY <1>7
<1>9. /\ Place(s, <<"predicate", i>>) = 2 * i /\ Place(s, <<"loop_body", i>>) = 2 * i + 1
      /\ Place(s, <<"loop_end", i>>) = 2 * e + 1
  BY <1>8, Places
<1>10. /\ Place(s, <<"predicate", i>>) < Place(s, <<"loop_body", i>>)
       /\ Place(s, <<"predicate", i>>) < Place(s, <<"loop_end", i>>)
  BY <1>7, <1>9
<1>11. AllOnward(s, <<"predicate", i>>,
                 <<Run("cond", i), CondBr(<<"loop_body", i>>, <<"loop_end", i>>)>>)
  BY <1>10, OnwardIs, OnwardGlued
<1> QED BY <1>1, <1>5, <1>11

(* The blocks stand within the body and go forward while it is emitted and *)
(* while it runs.                                                          *)
Ahead ==
  pc \in {"emitting", "running"} =>
    Forward(source, blocks) /\ Ranked(source, DOMAIN blocks)

(* The blocks a visitor creates.                                           *)
LEMMA VisitRanks ==
  ASSUME Base, Layout, Visit, Ranked(source, DOMAIN blocks)
  PROVE  /\ Ranked(source, DOMAIN blocks')
         /\ \A b \in DOMAIN blocks' :
              b[1] = "predicate" =>
                b \in DOMAIN blocks \/ (EmitLoop /\ b = <<"predicate", pos>>)
<1>1. pos \in DOMAIN source /\ source' = source
  BY Visiting
<1>2. PICK h : /\ Legible(h, source) /\ h[Len(source)] = <<>>
               /\ Visited(h, source, pos, nest)
  BY VisitMoves DEF Visited
<1>3. ASSUME NEW new, DOMAIN blocks' = DOMAIN blocks \cup new, Ranked(source, new)
      PROVE  Ranked(source, DOMAIN blocks')
  BY <1>3 DEF Ranked
<1>4. CASE EmitIf
  <2>1. source[pos] = "if"
    BY <1>4, VisitMoves
  <2>2. pos \in Opens(source)
    BY <1>1, <2>1 DEF Opens, Openers
  <2>3. BranchesIn(source, pos) \subseteq DOMAIN source
    BY <1>1, <1>2, <2>2, BranchOfInnermost
  <2>4. PICK new : /\ new = ({"cond", "branch"} \X BranchesIn(source, pos))
                              \cup {<<"endif", pos>>}
                   /\ DOMAIN blocks' = DOMAIN blocks \cup new
    BY <1>4, SameCounts DEF EmitIf, Emit, Created
  <2>5. ASSUME NEW b \in new
        PROVE  Place(source, b) \in 0..(2 * Len(source) + 1) /\ b[1] # "predicate"
    <3>1. CASE b = <<"endif", pos>>
      BY <1>2, <2>2, <3>1, PlacesWithin
    <3>2. ASSUME NEW r \in {"cond", "branch"}, NEW c \in BranchesIn(source, pos), b = <<r, c>>
          PROVE  Place(source, b) \in 0..(2 * Len(source) + 1) /\ b[1] # "predicate"
      BY <1>2, <2>3, <3>2, PlacesWithin
    <3> QED BY <2>4, <3>1, <3>2
  <2> QED BY <1>3, <2>4, <2>5 DEF Ranked
<1>5. CASE EmitLoop
  <2>1. source[pos] \in LoopHeads
    BY <1>5, VisitMoves
  <2>2. pos \in Opens(source)
    BY <1>1, <2>1 DEF Opens, Openers
  <2>3. PICK new : /\ new = {"init", "predicate", "loop_body", "iter", "loop_end"} \X {pos}
                   /\ DOMAIN blocks' = DOMAIN blocks \cup new
    BY <1>5 DEF EmitLoop, Emit, EmitUnless, Created
  <2>4. ASSUME NEW b \in new
        PROVE  /\ Place(source, b) \in 0..(2 * Len(source) + 1)
               /\ b[1] = "predicate" => b = <<"predicate", pos>>
    <3>1. PICK r \in {"init", "predicate", "loop_body", "iter", "loop_end"} : b = <<r, pos>>
      BY <2>3
    <3>2. Place(source, <<r, pos>>) \in 0..(2 * Len(source) + 1)
      BY <1>1, <1>2, <2>2, PlacesWithin
    <3> QED BY <3>1, <3>2
  <2> QED BY <1>3, <1>5, <2>3, <2>4 DEF Ranked
<1>6. CASE Plain \/ EmitBranch \/ EmitEndIf \/ EmitEndLoop
  <2>1. DOMAIN blocks' = DOMAIN blocks
    BY <1>6 DEF Plain, EmitStmt, EmitReturn, EmitBreak, EmitContinue, EmitBranch,
       EmitEndIf, EmitEndLoop, Emit, EmitUnless
  <2> QED BY <2>1
<1> QED BY <1>4, <1>5, <1>6 DEF Visit

(* A jump goes forward.                                                    *)
LEMMA JumpOnward ==
  ASSUME NEW s, NEW b, NEW terminated, NEW t,
         t[1] = "predicate" \/ Place(s, b) < Place(s, t)
  PROVE  AllOnward(s, b, Jump(terminated, t))
<1>1. AllOnward(s, b, <<>>)
  BY OnwardGlued
<1>2. AllOnward(s, b, <<Br(t)>>)
  BY OnwardIs, OnwardGlued
<1> QED BY <1>1, <1>2 DEF Jump

(* A visitor whose code goes forward.                                      *)
LEMMA AheadMoves ==
  ASSUME Base, Layout, Placement, Ahead, Visit,
         NEW t, NEW full, LaysAndLeaves(blocks, blocks', insert, t, full, insert'),
         AllOnward(source, insert, t),
         \A b \in full : AllOnward(source, b, blocks'[b]),
         \A b \in full : b[1] = "predicate" => Evaluates(blocks'[b]),
         EmitLoop => <<"predicate", pos>> \in full
  PROVE  Ahead'
<1>1. pc = "emitting" /\ source' = source
  BY Visiting
<1>2. Forward(source, blocks) /\ Ranked(source, DOMAIN blocks)
  BY <1>1 DEF Ahead
<1>3. /\ Ranked(source, DOMAIN blocks')
      /\ \A b \in DOMAIN blocks' : b[1] = "predicate" => b \in full \/ b \in DOMAIN blocks
  BY <1>2, VisitRanks
<1>4. PICK cs : cs = blocks'
  OBVIOUS
<1>5. PICK new : Lays(blocks, cs, insert, t, new, full)
  BY <1>4 DEF LaysAndLeaves
<1>6. Forward(source, cs)
  BY <1>1, <1>2, <1>3, <1>4, <1>5, BuilderBefore, ForwardKept
<1> QED BY <1>1, <1>3, <1>4, <1>6 DEF Ahead

(* The construct that an item ends or belongs to ends there or behind it.  *)
LEMMA NotBehind ==
  ASSUME NEW s, NEW h, Legible(h, s), NEW p \in DOMAIN s, NEW n, Visited(h, s, p, n),
         NEW i \in Range(n), s[p] # "end" \/ i = Last(n)
  PROVE  i \in Opens(s) /\ EndIn(s, i) \in p..Len(s)
<1>1. PICK l \in Nat : l = Len(s) /\ DOMAIN s = 1..l
  BY LegibleFacts
<1>2. CASE s[p] = "end"
  <2>1. EndIn(s, i) = p
    BY <1>2, EndFound
  <2>2. n # <<>>
    BY DEF Range
  <2>3. i \in Opens(s)
    BY <1>2, <2>2, LastOpener
  <2> QED BY <1>1, <2>1, <2>3
<1>3. CASE s[p] # "end"
  <2>1. i \in Opens(s) /\ EndIn(s, i) \in (p + 1)..l
    BY <1>1, <1>3, EndsBehind
  <2> QED BY <1>1, <2>1
<1> QED BY <1>2, <1>3

(* So where the builder is stands before the end of the constructs around  *)
(* it, and before what is laid out for the next item.                      *)
LEMMA BuilderAhead ==
  ASSUME Base, Layout, Placement, Visit
  PROVE  /\ Place(source, insert) < Place(source, <<"cond", pos>>)
         /\ Place(source, insert) < Place(source, <<"init", pos>>)
         /\ \A i \in Range(nest) : source[pos] # "end" \/ i = Last(nest) =>
              /\ Place(source, insert) < Place(source, <<"iter", i>>)
              /\ Place(source, insert) < Place(source, <<"endif", i>>)
              /\ Place(source, insert) < Place(source, <<"loop_end", i>>)
<1>1. pc = "emitting" /\ pos \in DOMAIN source /\ pos \in Nat
  BY Visiting
<1>2. PICK h : Legible(h, source) /\ Visited(h, source, pos, nest)
  BY VisitMoves
<1>3. PICK q \in Nat : q = Place(source, insert) /\ q < 2 * pos
  BY <1>1, BuilderBefore
<1>4. Place(source, <<"cond", pos>>) = 2 * pos /\ Place(source, <<"init", pos>>) = 2 * pos
  BY Places
<1>5. ASSUME NEW i \in Range(nest), source[pos] # "end" \/ i = Last(nest)
      PROVE  /\ q < Place(source, <<"iter", i>>)
             /\ q < Place(source, <<"endif", i>>)
             /\ q < Place(source, <<"loop_end", i>>)
  <2>1. EndIn(source, i) \in pos..Len(source) /\ Len(source) \in Nat
    BY <1>1, <1>2, <1>5, NotBehind, LegibleFacts
  <2>2. PICK e \in Nat : e = EndIn(source, i) /\ pos <= e
    BY <1>1, <2>1
  <2>3. /\ Place(source, <<"iter", i>>) = 2 * e
        /\ Place(source, <<"endif", i>>) = 2 * e + 1
        /\ Place(source, <<"loop_end", i>>) = 2 * e + 1
    BY <2>2, Places
  <2> QED BY <1>1, <1>3, <2>2, <2>3
<1> QED BY <1>3, <1>4, <1>5

(* A statement or a jump.                                                  *)
LEMMA PlainAhead ==
  ASSUME Base, Layout, Placement, Ahead, Plain
  PROVE  Ahead'
<1>1. /\ pc = "emitting" /\ source' = source /\ pos \in DOMAIN source
      /\ insert \in DOMAIN blocks /\ Visit
  BY Visiting DEF Visit
<1>2. PICK h : Legible(h, source) /\ Visited(h, source, pos, nest)
  BY <1>1, VisitMoves
<1>3. Forward(source, blocks) /\ Ranked(source, DOMAIN blocks)
  BY <1>1 DEF Ahead
<1>4. PICK t : /\ blocks' = Emit(blocks, insert, t) /\ IsCode(t)
               /\ AllOnward(source, insert, t)
  <2>1. CASE EmitStmt
    <3>1. PICK x : x = Run("stmt", pos)
      OBVIOUS
    <3>2. blocks' = Emit(blocks, insert, <<x>>)
      BY <2>1, <3>1 DEF EmitStmt
    <3>3. AllOnward(source, insert, <<x>>) /\ IsCode(<<x>>)
      BY <3>1, OnwardIs, OnwardGlued, ShortCode
    <3> QED BY <3>2, <3>3
  <2>2. CASE EmitReturn
    <3>1. PICK x, y : x = Run("return", pos) /\ y = Ret
      OBVIOUS
    <3>2. blocks' = Emit(blocks, insert, <<x, y>>)
      BY <2>2, <3>1 DEF EmitReturn
    <3>3. Onward(source, insert, x) /\ Onward(source, insert, y)
      BY <3>1, OnwardIs
    <3>4. AllOnward(source, insert, <<x, y>>) /\ IsCode(<<x, y>>)
      BY <3>3, OnwardGlued, ShortCode
    <3> QED BY <3>2, <3>4
  <2>3. CASE EmitBreak \/ EmitContinue
    <3>1. PICK i : i = LoopOf(source, nest)
      OBVIOUS
    <3>2. PICK b : b = IF EmitBreak THEN <<"loop_end", i>> ELSE <<"predicate", i>>
      OBVIOUS
    <3>3. /\ blocks' = Emit(blocks, insert, <<Br(b)>>)
          /\ source[pos] = IF EmitBreak THEN "break" ELSE "continue"
      BY <2>3, <3>1, <3>2, ParentIs DEF EmitBreak, EmitContinue, At
    <3>4. i \in Range(nest)
      BY <1>1, <1>2, <3>1, <3>3, MeaningOfParents
    <3>5. Place(source, insert) < Place(source, <<"loop_end", i>>)
      BY <1>1, <3>3, <3>4, BuilderAhead
    <3>6. b[1] = "predicate" \/ Place(source, insert) < Place(source, b)
      BY <3>2, <3>5
    <3>7. AllOnward(source, insert, <<Br(b)>>) /\ IsCode(<<Br(b)>>)
      BY <3>6, OnwardIs, OnwardGlued, ShortCode
    <3> QED BY <3>3, <3>7
  <2> QED BY <2>1, <2>2, <2>3 DEF Plain
<1>5. PICK cs : cs = blocks'
  OBVIOUS
<1>6. Appends(blocks, insert, t, cs)
  BY <1>1, <1>4, <1>5, Emitted
<1>7. Lays(blocks, cs, insert, t, {}, {}) /\ DOMAIN cs = DOMAIN blocks
  BY <1>4, <1>6 DEF Lays, Appends
<1>8. Forward(source, cs)
  BY <1>1, <1>3, <1>4, <1>7, BuilderBefore, ForwardKept
<1> QED BY <1>1, <1>3, <1>5, <1>7, <1>8 DEF Ahead

(* An if and the branches after its first.                                 *)
LEMMA BranchesAhead ==
  ASSUME Base, Layout, Placement, Ahead, EmitIf \/ EmitBranch
  PROVE  Ahead'
<1>1. Visit /\ ~EmitLoop
  <2>1. source[pos] \notin LoopHeads
    BY VisitMoves DEF Visit, LoopHeads
  <2> QED BY <2>1, VisitMoves DEF Visit
<1>2. PICK h : Legible(h, source) /\ h[Len(source)] = <<>> /\ Visited(h, source, pos, nest)
  BY <1>1, VisitMoves DEF Visited
<1>3. pos \in DOMAIN source
  BY <1>1, Visiting
<1>4. CASE EmitIf
  <2>1. /\ LaysAndLeaves(blocks, blocks', insert, <<Br(<<"cond", pos>>)>>,
                         {<<"cond", pos>>}, insert')
        /\ blocks'[<<"cond", pos>>] = Condition(pos, pos)
    BY <1>4, IfLays
  <2>2. AllOnward(source, insert, <<Br(<<"cond", pos>>)>>)
    BY <1>1, BuilderAhead, OnwardIs, OnwardGlued
  <2>3. source[pos] = "if" /\ pos \in Opens(source) /\ pos \in BranchesIn(source, pos)
    BY <1>3, <1>4, VisitMoves DEF Visit, Opens, Openers, BranchesIn
  <2>4. AllOnward(source, <<"cond", pos>>, Condition(pos, pos))
    BY <1>2, <2>3, ConditionOnward
  <2>5. \A b \in {<<"cond", pos>>} : /\ AllOnward(source, b, blocks'[b])
                                     /\ b[1] # "predicate"
    BY <2>1, <2>4
  <2> QED BY <1>1, <2>1, <2>2, <2>5, AheadMoves
<1>5. CASE EmitBranch
  <2>1. PICK i : i = Last(nest)
    OBVIOUS
  <2>2. PICK terminated :
          LaysAndLeaves(blocks, blocks', insert, Jump(terminated, <<"endif", i>>),
                        {<<"cond", pos>>}, insert')
    BY <1>5, <2>1, BranchLays
  <2>3. blocks'[<<"cond", pos>>] = Condition(i, pos)
    BY <1>5, <2>1, BranchLays
  <2>4. source[pos] \in {"elif", "else"}
    BY <1>1, <1>5, VisitMoves
  <2>5. nest # <<>> /\ source[i] = "if" /\ pos \in BranchesIn(source, i)
    BY <1>2, <1>3, <2>1, <2>4, BranchFound
  <2>6. i \in Range(nest) /\ i \in Opens(source)
    BY <1>2, <2>1, <2>5, LastOpener
  <2>7. AllOnward(source, insert, Jump(terminated, <<"endif", i>>))
    BY <1>1, <2>1, <2>6, BuilderAhead, JumpOnward
  <2>8. AllOnward(source, <<"cond", pos>>, Condition(i, pos))
    BY <1>2, <2>5, <2>6, ConditionOnward
  <2>9. \A b \in {<<"cond", pos>>} : /\ AllOnward(source, b, blocks'[b])
                                     /\ b[1] # "predicate"
    BY <2>3, <2>8
  <2> QED BY <1>1, <2>2, <2>7, <2>9, AheadMoves
<1> QED BY <1>4, <1>5

(* A loop.                                                                 *)
LEMMA LoopAhead ==
  ASSUME Base, Layout, Placement, Ahead, EmitLoop
  PROVE  Ahead'
<1>1. Visit /\ source[pos] \in LoopHeads
  BY VisitMoves DEF Visit
<1>2. PICK h : Legible(h, source) /\ h[Len(source)] = <<>>
  BY <1>1, VisitMoves DEF Visited
<1>3. PICK a, b, t : /\ a = <<"init", pos>> /\ b = <<"predicate", pos>>
                     /\ t = IF At("for") THEN <<Run("init", pos)>> ELSE <<>>
  OBVIOUS
<1>4. /\ blocks'[a] = t \o <<Br(b)>>
      /\ blocks'[b] =
           <<Run("cond", pos), CondBr(<<"loop_body", pos>>, <<"loop_end", pos>>)>>
  BY <1>3, LoopLays
<1>5. PICK terminated :
        LaysAndLeaves(blocks, blocks', insert, Jump(terminated, a), {a, b}, insert')
  BY <1>3, LoopLays
<1>6. pos \in Opens(source)
  BY <1>1, Visiting DEF Opens, Openers
<1>7. AllOnward(source, insert, Jump(terminated, a))
  BY <1>1, <1>3, BuilderAhead, JumpOnward
<1>8. PICK x : x = Run("init", pos) /\ \E part \in Parts : x = Run(part, pos)
  BY DEF Parts
<1>9. AllOnward(source, a, blocks'[a]) /\ AllOnward(source, b, blocks'[b])
  <2>1. t = <<x>> \/ t = <<>>
    BY <1>3, <1>8
  <2> QED BY <1>2, <1>3, <1>4, <1>6, <1>8, <2>1, LoopOnward
<1>10. Evaluates(blocks'[b])
  <2>1. PICK c : c = <<Run("cond", pos), CondBr(<<"loop_body", pos>>, <<"loop_end", pos>>)>>
    OBVIOUS
  <2>2. c # <<>> /\ c[1] = Run("cond", pos)
    BY <2>1
  <2>3. Run("cond", pos).do = "run"
    BY DEF Run
  <2> QED BY <1>4, <2>1, <2>2, <2>3 DEF Evaluates
<1>11. \A c \in {a, b} : /\ AllOnward(source, c, blocks'[c])
                         /\ c[1] = "predicate" => Evaluates(blocks'[c])
  BY <1>3, <1>9, <1>10
<1> QED BY <1>1, <1>3, <1>5, <1>7, <1>11, AheadMoves

(* The end of an if or a loop.                                             *)
LEMMA EndsAhead ==
  ASSUME Base, Layout, Placement, Ahead, EmitEndIf \/ EmitEndLoop
  PROVE  Ahead'
<1>1. /\ Visit /\ source[pos] = "end" /\ nest # <<>> /\ ~EmitLoop
  <2>1. Visit /\ source[pos] = "end" /\ nest # <<>>
    BY VisitMoves DEF Visit
  <2> QED BY <2>1, VisitMoves DEF LoopHeads
<1>2. PICK h : Legible(h, source) /\ h[Len(source)] = <<>> /\ Visited(h, source, pos, nest)
  BY <1>1, VisitMoves DEF Visited
<1>3. PICK i : i = Last(nest)
  OBVIOUS
<1>4. i \in Range(nest) /\ i \in Opens(source)
  BY <1>1, <1>2, <1>3, LastOpener
<1>5. /\ Place(source, insert) < Place(source, <<"iter", i>>)
      /\ Place(source, insert) < Place(source, <<"endif", i>>)
  BY <1>1, <1>3, <1>4, BuilderAhead
<1>6. CASE EmitEndIf
  <2>1. PICK terminated :
          LaysAndLeaves(blocks, blocks', insert, Jump(terminated, <<"endif", i>>),
                        {}, insert')
    BY <1>3, <1>6, EndIfLays
  <2>2. AllOnward(source, insert, Jump(terminated, <<"endif", i>>))
    BY <1>5, JumpOnward
  <2> QED BY <1>1, <2>1, <2>2, AheadMoves
<1>7. CASE EmitEndLoop
  <2>1. PICK b, t : /\ b = <<"iter", i>>
                    /\ t = IF source[i] = "for" THEN <<Run("iter", i)>> ELSE <<>>
    OBVIOUS
  <2>2. blocks'[b] = t \o <<Br(<<"predicate", i>>)>>
    BY <1>3, <1>7, <2>1, EndLoopLays
  <2>3. PICK terminated :
          LaysAndLeaves(blocks, blocks', insert, Jump(terminated, b), {b}, insert')
    BY <1>3, <1>7, <2>1, EndLoopLays
  <2>4. AllOnward(source, insert, Jump(terminated, b))
    BY <1>5, <2>1, JumpOnward
  <2>5. PICK x : x = Run("iter", i) /\ \E part \in Parts : x = Run(part, i)
    BY DEF Parts
  <2>6. AllOnward(source, b, blocks'[b])
    <3>1. t = <<x>> \/ t = <<>>
      BY <2>1, <2>5
    <3> QED BY <1>2, <1>4, <2>2, <2>5, <3>1, LoopOnward
  <2>7. \A c \in {b} : AllOnward(source, c, blocks'[c]) /\ c[1] # "predicate"
    BY <2>1, <2>6
  <2> QED BY <1>1, <2>3, <2>4, <2>7, AheadMoves
<1> QED BY <1>6, <1>7

(* The order is kept by every step.                                        *)
LEMMA AheadStep ==
  ASSUME Base, Placement, Layout, Ahead, [Next]_vars
  PROVE  Ahead'
<1>1. CASE UNCHANGED vars
  BY <1>1 DEF vars, emission, Ahead
<1>2. ASSUME NEW op \in Op, Write(op) PROVE Ahead'
  BY <1>2 DEF Write, Ahead
<1>3. CASE BeginEmit
  <2>1. blocks' = blocks /\ blocks = [b \in {Entry} |-> <<>>] /\ source' = source
    BY <1>3 DEF BeginEmit, Base, Quiet, emission
  <2>2. DOMAIN blocks' = {Entry} /\ blocks'[Entry] = <<>> /\ Entry[1] # "predicate"
    BY <2>1 DEF Entry
  <2>3. Forward(source, blocks')
    BY <2>2, OnwardGlued DEF Forward
  <2>4. 0 \in 0..(2 * Len(source) + 1)
    <3>1. Len(source) \in Nat
      BY LegibleFacts DEF Base, Nesting
    <3> QED BY <3>1
  <2>5. Ranked(source, DOMAIN blocks')
    BY <2>2, <2>4, Places DEF Ranked
  <2> QED BY <2>1, <2>3, <2>5 DEF Ahead
<1>4. CASE Visit
  BY <1>4, PlainAhead, BranchesAhead, LoopAhead, EndsAhead DEF Visit
<1>5. CASE EmitEndFunction
  <2>1. pc = "emitting" /\ source' = source
    BY <1>5 DEF EmitEndFunction
  <2>2. Forward(source, blocks) /\ Ranked(source, DOMAIN blocks)
    BY <2>1 DEF Ahead
  <2>3. CASE blocks' = blocks
    BY <2>1, <2>2, <2>3 DEF Ahead
  <2>4. CASE blocks' = Emit(blocks, insert, <<Ret>>)
    <3>1. PICK cs : cs = blocks'
      OBVIOUS
    <3>2. insert \in DOMAIN blocks /\ insert[1] # "predicate" /\ IsCode(blocks[insert])
      BY <2>1, BuilderBefore
    <3>3. Appends(blocks, insert, <<Ret>>, cs) /\ IsCode(<<Ret>>)
      BY <2>4, <3>1, <3>2, Emitted, ShortCode
    <3>4. Lays(blocks, cs, insert, <<Ret>>, {}, {}) /\ DOMAIN cs = DOMAIN blocks
      BY <3>3 DEF Lays, Appends
    <3>5. AllOnward(source, insert, <<Ret>>)
      BY OnwardIs, OnwardGlued
    <3>6. Forward(source, cs)
      BY <2>2, <3>2, <3>4, <3>5, ForwardKept
    <3> QED BY <2>1, <2>2, <3>1, <3>4, <3>6 DEF Ahead
  <2> QED BY <1>5, <2>3, <2>4 DEF EmitEndFunction
<1>6. CASE RunStep
  <2>1. pc = "running" /\ source' = source /\ blocks' = blocks
    BY <1>6 DEF RunStep, RunEvaluate, RunBranch, RunReturn, Running, emission
  <2> QED BY <2>1 DEF Ahead
<1> QED BY <1>1, <1>2, <1>3, <1>4, <1>5, <1>6, StepKinds

(* How many blocks a running function can still enter before it evaluates  *)
(* something or returns.                                                   *)
Left ==
  IF Instruction.do \in {"br", "condbr"} THEN 2 * Len(source) + 2 - Place(source, at[1])
  ELSE 0

(* Every branch brings a running function of any length closer to an       *)
(* evaluation or its return: there is no way around a loop, an empty one   *)
(* or one left by continue included, that evaluates nothing.  With         *)
(* NeverRunsOff this is what is left to say for a body never to be stuck   *)
(* between two evaluations.                                                *)
THEOREM BranchesAdvance ==
  Spec => [][RunBranch => Left \in Nat /\ Left' \in Nat /\ Left' < Left]_vars
<1>1. Init => Base /\ Placement /\ Layout /\ Joined /\ Moving /\ Ahead
  <2> SUFFICES ASSUME Init PROVE Placement /\ Ahead
    BY RunInit
  <2>1. pc = "writing"
    BY DEF Init
  <2> QED BY <2>1 DEF Placement, Ahead
<1>2. Base /\ Placement /\ Layout /\ Joined /\ Moving /\ Ahead /\ [Next]_vars
        => (Base /\ Placement /\ Layout /\ Joined /\ Moving /\ Ahead)'
  BY BaseStep, PlacementStep, LayoutStep, JoinedStep, MovingStep, AheadStep
<1>3. ASSUME Base, Moving, Ahead, RunBranch
      PROVE  Left \in Nat /\ Left' \in Nat /\ Left' < Left
  <2>1. pc = "running" /\ source' = source /\ blocks' = blocks
    BY <1>3 DEF RunBranch, Running, emission
  <2>2. PICK b, x : b = at[1] /\ x = Instruction
    OBVIOUS
  <2>3. PICK k : k \in DOMAIN blocks[b] /\ x = blocks[b][k] /\ b \in DOMAIN blocks
    BY <1>3, <2>1, <2>2, RunsAt DEF Instruction
  <2>4. PICK j \in DOMAIN x.to : at' = <<x.to[j], 1>> /\ x.do \in {"br", "condbr"}
    BY <1>3, <2>2 DEF RunBranch, Running
  <2>5. PICK b2 : b2 = x.to[j] /\ b2 \in DOMAIN blocks
    BY <1>3, <2>1, <2>2, <2>4, RunsAt, Kinds
  <2>6. PICK l \in Nat : l = Len(source)
    BY <1>3, LegibleFacts DEF Base, Nesting
  <2>7. PICK p, p2 \in 0..(2 * l + 1) : p = Place(source, b) /\ p2 = Place(source, b2)
    BY <1>3, <2>1, <2>3, <2>5, <2>6 DEF Ahead, Ranked
  <2>8. /\ b2[1] = "predicate" \/ p < p2
        /\ b2[1] = "predicate" => Evaluates(blocks[b2])
    BY <1>3, <2>1, <2>3, <2>4, <2>5, <2>7 DEF Ahead, Forward, AllOnward, Onward
  <2>9. Left = 2 * l + 2 - p
    BY <2>2, <2>4, <2>6, <2>7 DEF Left
  <2>10. PICK y : y = blocks[b2][1] /\ Instruction' = y
    BY <2>1, <2>4, <2>5 DEF Instruction
  <2>11. Left' = IF y.do \in {"br", "condbr"} THEN 2 * l + 2 - p2 ELSE 0
    <3>1. at'[1] = b2
      BY <2>4, <2>5
    <3>2. Left' = IF Instruction'.do \in {"br", "condbr"}
                  THEN 2 * Len(source') + 2 - Place(source', at'[1]) ELSE 0
      BY DEF Left
    <3>3. Left' = IF y.do \in {"br", "condbr"}
                  THEN 2 * Len(source) + 2 - Place(source, b2) ELSE 0
      BY <2>1, <2>10, <3>1, <3>2
    <3> QED BY <2>6, <2>7, <3>3
  <2>12. CASE b2[1] = "predicate"
    <3>1. y.do = "run"
      BY <2>8, <2>10, <2>12 DEF Evaluates
    <3>2. Left' = 0
      BY <2>11, <3>1
    <3> QED BY <2>7, <2>9, <3>2
  <2>13. CASE p < p2
    BY <2>7, <2>9, <2>11, <2>13
  <2> QED BY <2>8, <2>12, <2>13
<1>4. Base /\ Moving /\ Ahead /\ [Next]_vars
        => [RunBranch => Left \in Nat /\ Left' \in Nat /\ Left' < Left]_vars
  BY <1>3
<1> QED BY <1>1, <1>2, <1>4, PTL DEF Spec

=============================================================================
