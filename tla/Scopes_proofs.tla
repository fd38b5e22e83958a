---------------------------- MODULE Scopes_proofs ----------------------------
(***************************************************************************)
(* Proofs about Scopes, for all sources: what RegisterDeclarations,        *)
(* TypePrecheck and TypeCheck have on the stack of scopes at every item,   *)
(* what they accept, and where a name leads.                               *)
(***************************************************************************)
EXTENDS Scopes, Braces, TLAPS

Opens(s) == {k \in DOMAIN s : s[k].op \in Openers}
Ends(s) == {k \in DOMAIN s : s[k].op = "end"}

(* Where the item at p of the source s may stand, n being the openers      *)
(* around it.                                                              *)
Placed(s, n, p) ==
  /\ s[p].op \notin {"fn", "tce", "bad_tce"} => n # <<>>
  /\ s[p].op \in {"var", "use"} => s[p].name \in Var

(* A history of the source, and the place of a pass in it.                 *)
Legible(h, s) ==
  /\ s \in Seq(Item)
  /\ IsHistory(h, Opens(s), Ends(s), Len(s))
  /\ \A p \in DOMAIN s : Placed(s, h[p - 1], p)

Visited(h, s, p, n) ==
  /\ p \in 1..(Len(s) + 1)
  /\ h[Len(s)] = <<>>
  /\ n = h[p - 1]

(* The source is one that can be written, and the pass is where the braces *)
(* say it is.                                                              *)
Nesting ==
  \E h : /\ Legible(h, source)
         /\ pc = "writing" => nest = h[Len(source)]
         /\ pc # "writing" => Visited(h, source, pos, nest)

-----------------------------------------------------------------------------
(* What a history is, and that no item both opens and ends a construct.    *)
LEMMA LegibleFacts ==
  ASSUME NEW h, NEW s, Legible(h, s)
  PROVE  /\ s \in Seq(Item) /\ Len(s) \in Nat /\ DOMAIN s = 1..Len(s)
         /\ h \in [Nat -> Seq(Nat)]
         /\ Opens(s) \cap Ends(s) = {}
<1>1. s \in Seq(Item)
  BY DEF Legible
<1>2. Len(s) \in Nat /\ DOMAIN s = 1..Len(s)
  BY <1>1
<1>3. h \in [Nat -> Seq(Nat)] /\ Opens(s) \cap Ends(s) = {}
  BY DEF Legible, IsHistory
<1> QED BY <1>1, <1>2, <1>3

(* The first source is empty.                                              *)
LEMMA NothingWritten == \E h : Legible(h, <<>>) /\ h[0] = <<>>
<1>1. Opens(<<>>) = {} /\ Ends(<<>>) = {} /\ Len(<<>>) = 0 /\ DOMAIN <<>> = {}
  BY DEF Opens, Ends
<1>2. PICK h : IsHistory(h, {}, {}, 0)
  <2>1. {} \cap {} = {}
    OBVIOUS
  <2> QED BY <2>1, HistoryOfNothing
<1>3. h[0] = <<>>
  BY <1>2 DEF IsHistory
<1>4. <<>> \in Seq(Item)
  OBVIOUS
<1> QED BY <1>1, <1>2, <1>3, <1>4 DEF Legible

(* One more item.                                                          *)
LEMMA ItemWritten ==
  ASSUME NEW s, NEW h, Legible(h, s), NEW item \in Item, NEW n, n = h[Len(s)],
         item.op = "end" => n # <<>>,
         Placed(Append(s, item), n, Len(s) + 1)
  PROVE  \E g : /\ Legible(g, Append(s, item))
                /\ g[Len(s) + 1] = IF item.op \in Openers THEN Append(n, Len(s) + 1)
                                   ELSE IF item.op = "end" THEN Shorter(n, 1) ELSE n
<1>0. /\ s \in Seq(Item) /\ Len(s) \in Nat /\ DOMAIN s = 1..Len(s)
      /\ h \in [Nat -> Seq(Nat)]
  BY LegibleFacts
<1>a. Append(s, item) \in Seq(Item)
  BY <1>0
<1>1. PICK l \in Nat, t \in Seq(Item) : l = Len(s) /\ t = Append(s, item)
  BY <1>0, <1>a
<1>2. /\ Len(t) = l + 1 /\ DOMAIN t = 1..(l + 1) /\ t[l + 1] = item
      /\ \A k \in 1..l : t[k] = s[k]
  BY <1>0, <1>1
<1>3. Opens(t) \cap Ends(t) = {}
  BY DEF Opens, Ends, Openers
<1>4. Agree(Opens(s), Opens(t), l) /\ Agree(Ends(s), Ends(t), l)
  <2>1. \A k \in 1..l : k \in DOMAIN s /\ k \in DOMAIN t /\ t[k] = s[k]
    BY <1>0, <1>1, <1>2
  <2> QED BY <2>1 DEF Agree, Opens, Ends
<1>5. /\ l + 1 \in Opens(t) <=> item.op \in Openers
      /\ l + 1 \in Ends(t) <=> item.op = "end"
  <2>1. l + 1 \in DOMAIN t
    BY <1>2
  <2> QED BY <1>2, <2>1 DEF Opens, Ends
<1>6. InOne(h, Ends(t), l + 1)
  <2>1. l + 1 - 1 = l
    OBVIOUS
  <2> QED BY <1>1, <1>5, <2>1 DEF InOne
<1>7. PICK g : /\ IsHistory(g, Opens(t), Ends(t), l + 1)
               /\ g[l + 1] = Behind(h[l], Opens(t), Ends(t), l + 1)
               /\ Extends(g, h, l)
  <2>1. IsHistory(h, Opens(s), Ends(s), l)
    BY <1>1 DEF Legible
  <2> QED BY <1>3, <1>4, <1>6, <2>1, HistoryGrows
<1>8. g[l + 1] = IF item.op \in Openers THEN Append(n, l + 1)
                 ELSE IF item.op = "end" THEN Shorter(n, 1) ELSE n
  BY <1>1, <1>5, <1>7 DEF Behind, Shorter
<1>9. ASSUME NEW p \in DOMAIN t
      PROVE  Placed(t, g[p - 1], p)
  <2>1. CASE p = l + 1
    <3>1. p - 1 = l /\ l \in 0..l
      BY <2>1
    <3>2. g[p - 1] = n
      BY <1>1, <1>7, <3>1 DEF Extends
    <3> QED BY <1>1, <2>1, <3>2
  <2>2. CASE p # l + 1
    <3>1. p \in 1..l /\ p - 1 \in 0..l
      BY <1>2, <2>2
    <3>2. PICK m : m = h[p - 1]
      OBVIOUS
    <3>3. g[p - 1] = m /\ t[p] = s[p]
      BY <1>2, <1>7, <3>1, <3>2 DEF Extends
    <3>4. Placed(s, m, p)
      BY <1>0, <1>1, <3>1, <3>2 DEF Legible
    <3> QED BY <3>3, <3>4 DEF Placed
  <2> QED BY <2>1, <2>2
<1>10. Legible(g, t)
  BY <1>1, <1>2, <1>7, <1>9 DEF Legible
<1> QED BY <1>1, <1>8, <1>10

-----------------------------------------------------------------------------
(* The openers around the item at p stand before it, outer ones first.     *)
LEMMA NestFacts ==
  ASSUME NEW s, NEW h, Legible(h, s), NEW p, NEW n, Visited(h, s, p, n)
  PROVE  /\ p \in Nat /\ p - 1 \in 0..Len(s)
         /\ n \in Seq(Nat) /\ Len(n) \in Nat /\ DOMAIN n = 1..Len(n)
         /\ \A k \in DOMAIN n : n[k] \in 1..(p - 1) /\ n[k] \in Opens(s)
         /\ \A j, k \in DOMAIN n : j < k => n[j] < n[k]
<1>0. Len(s) \in Nat /\ h \in [Nat -> Seq(Nat)]
  BY LegibleFacts
<1>1. p \in Nat /\ p - 1 \in 0..Len(s) /\ p - 1 \in Nat
  BY <1>0 DEF Visited
<1>2. n \in Seq(Nat)
  BY <1>0, <1>1 DEF Visited
<1>3. Ascending(n, Opens(s), p - 1)
  BY <1>1 DEF Visited, Legible, IsHistory, Recorded
<1>4. n \in Seq(1..(p - 1))
  BY <1>3 DEF Ascending
<1>5. \A k \in DOMAIN n : n[k] \in 1..(p - 1)
  BY <1>4, SeqMember
<1>6. Len(n) \in Nat /\ DOMAIN n = 1..Len(n)
  BY <1>2
<1> QED BY <1>1, <1>2, <1>3, <1>5, <1>6 DEF Ascending

(* The next item, after an opener, an end and any other item.              *)
LEMMA NestMoves ==
  ASSUME NEW s, NEW h, Legible(h, s), NEW p \in DOMAIN s, NEW n, Visited(h, s, p, n)
  PROVE  /\ s[p].op \in Openers => Visited(h, s, p + 1, Append(n, p))
         /\ s[p].op = "end" => n # <<>> /\ Visited(h, s, p + 1, Shorter(n, 1))
         /\ s[p].op \notin Openers /\ s[p].op # "end" => Visited(h, s, p + 1, n)
<1>0. Len(s) \in Nat /\ DOMAIN s = 1..Len(s) /\ p \in Nat /\ p \in 1..Len(s)
  BY LegibleFacts
<1>1. Step(h, Opens(s), Ends(s), p)
  BY <1>0 DEF Legible, IsHistory
<1>2. /\ h[p] = Behind(n, Opens(s), Ends(s), p)
      /\ p \in Ends(s) => n # <<>>
  BY <1>1 DEF Step, Visited
<1>3. /\ p \in Opens(s) <=> s[p].op \in Openers
      /\ p \in Ends(s) <=> s[p].op = "end"
  BY DEF Opens, Ends
<1>4. h[Len(s)] = <<>> /\ p + 1 \in 1..(Len(s) + 1) /\ p + 1 - 1 = p
  BY <1>0 DEF Visited
<1>5. \A m : h[p] = m => Visited(h, s, p + 1, m)
  BY <1>4 DEF Visited
<1>6. "end" \notin Openers
  BY DEF Openers
<1> QED BY <1>2, <1>3, <1>5, <1>6 DEF Behind, Shorter

(* The end of a construct, as it is counted.                               *)
LEMMA EndOfIs ==
  ASSUME NEW h, Legible(h, source), h[Len(source)] = <<>>,
         NEW i \in Opens(source)
  PROVE  /\ i \in 1..Len(source) /\ EndOf(i) \in i..Len(source)
         /\ IsEnd(Opens(source), Ends(source), i, Len(source), EndOf(i))
<1> DEFINE l == Len(source)
           O == Opens(source)
           E == Ends(source)
<1>1. l \in Nat /\ DOMAIN source = 1..l /\ i \in 1..l /\ IsHistory(h, O, E, l)
  BY LegibleFacts DEF Legible, Opens
<1>2. ASSUME NEW j \in i..l
      PROVE  /\ Opened(i, j) \in Nat /\ Closed(i, j) \in Nat
             /\ Balance(O, E, i, j) = Opened(i, j) - Closed(i, j)
  <2>1. i..j \subseteq DOMAIN source
    BY <1>1
  <2>2. /\ {k \in i..j : source[k].op \in Openers} = {k \in i..j : k \in O}
        /\ {k \in i..j : source[k].op = "end"} = {k \in i..j : k \in E}
    BY <2>1 DEF Opens, Ends
  <2>3. IsFiniteSet(i..j)
    BY <1>1, FS_Interval
  <2>4. IsFiniteSet({k \in i..j : k \in O}) /\ IsFiniteSet({k \in i..j : k \in E})
    BY <2>3, FS_Subset
  <2>5. /\ Cardinality({k \in i..j : k \in O}) \in Nat
        /\ Cardinality({k \in i..j : k \in E}) \in Nat
    BY <2>4, FS_CardinalityType
  <2> HIDE DEF O, E
  <2> QED BY <2>2, <2>5 DEF Balance, Opened, Closed
<1> DEFINE P(j) == /\ Opened(i, j) = Closed(i, j)
                   /\ \A k \in i..(j - 1) : Opened(i, k) > Closed(i, k)
<1>3. ASSUME NEW j \in i..l
      PROVE  IsEnd(O, E, i, l, j) <=> P(j)
  <2>1. \A k \in i..(j - 1) : k \in i..l
    BY <1>1
  <2>2. ASSUME NEW k \in i..l
        PROVE  /\ Balance(O, E, i, k) = 0 <=> Opened(i, k) = Closed(i, k)
               /\ Balance(O, E, i, k) > 0 <=> Opened(i, k) > Closed(i, k)
    <3>1. PICK a, b \in Nat : a = Opened(i, k) /\ b = Closed(i, k)
      BY <1>2
    <3>2. PICK d : d = Balance(O, E, i, k)
      OBVIOUS
    <3>3. d = Opened(i, k) - Closed(i, k)
      BY <1>2, <3>2
    <3>4. d = a - b
      BY <3>1, <3>3
    <3>5. (d = 0 <=> a = b) /\ (d > 0 <=> a > b)
      BY <3>4
    <3> QED BY <3>1, <3>2, <3>5
  <2> HIDE DEF O, E, l
  <2> QED BY <2>1, <2>2 DEF IsEnd
<1>4. PICK e \in i..l : IsEnd(O, E, i, l, e)
  BY <1>1, EndExists
<1>5. EndOf(i) = CHOOSE j \in i..l : P(j)
  BY DEF EndOf
<1> HIDE DEF P
<1>6. \E j \in i..l : P(j)
  BY <1>3, <1>4
<1>7. EndOf(i) \in i..l /\ P(EndOf(i))
  BY <1>5, <1>6
<1> QED BY <1>1, <1>3, <1>7

(* An error takes the pass behind the construct that caught it.            *)
LEMMA NestJumps ==
  ASSUME NEW h, Legible(h, source), Visited(h, source, pos, nest),
         NEW k \in DOMAIN nest
  PROVE  /\ EndOf(nest[k]) \in Nat /\ EndOf(nest[k]) >= pos
         /\ Visited(h, source, EndOf(nest[k]) + 1, SubSeq(nest, 1, k - 1))
<1>0. /\ Len(source) \in Nat /\ pos \in Nat /\ pos - 1 \in 0..Len(source)
      /\ nest \in Seq(Nat) /\ nest[k] \in Opens(source) /\ nest[k] \in 1..(pos - 1)
      /\ h[Len(source)] = <<>> /\ nest = h[pos - 1]
  BY LegibleFacts, NestFacts DEF Visited
<1>1. PICK i, e : i = nest[k] /\ e = EndOf(nest[k])
  OBVIOUS
<1>2. /\ i \in 1..Len(source) /\ e \in i..Len(source)
      /\ IsEnd(Opens(source), Ends(source), i, Len(source), e)
  BY <1>0, <1>1, EndOfIs
<1>3. IsHistory(h, Opens(source), Ends(source), Len(source))
  BY DEF Legible
<1>4. h[i - 1] = SubSeq(nest, 1, k - 1) /\ e > pos - 1
  <2>1. PICK q : q = pos - 1 /\ q \in 0..Len(source)
    BY <1>0
  <2>2. nest = h[q]
    BY <1>0, <2>1
  <2>a. IsOpenAt(h, Opens(source), Ends(source), Len(source), q, nest, k)
    BY <1>0, <1>3, <2>1, <2>2, OuterPart
  <2>3. /\ h[nest[k] - 1] = SubSeq(nest, 1, k - 1)
        /\ EndsAfter(Opens(source), Ends(source), Len(source), nest[k], q)
    BY <2>a DEF IsOpenAt
  <2>4. e > q
    BY <1>1, <1>2, <2>3 DEF EndsAfter
  <2> QED BY <1>1, <2>1, <2>3, <2>4
<1>5. Encloses(h, Ends(source), Len(source), i, e)
  <2>1. Returns(h, i, e)
    BY <1>0, <1>2, <1>3, EndReturns
  <2> QED BY <1>0, <1>1, <1>2, <1>3, <2>1, ReturnFacts
<1>6. h[e] = SubSeq(nest, 1, k - 1) /\ e \in 1..Len(source)
  BY <1>2, <1>4, <1>5 DEF Encloses
<1>7. e + 1 \in 1..(Len(source) + 1) /\ e + 1 - 1 = e /\ e \in Nat /\ e >= pos
  BY <1>0, <1>4, <1>6
<1>8. Visited(h, source, e + 1, SubSeq(nest, 1, k - 1))
  BY <1>0, <1>6, <1>7 DEF Visited
<1> QED BY <1>1, <1>7, <1>8

(* A construct that is skipped, and what is inside one.                    *)
LEMMA NestSkips ==
  ASSUME NEW h, Legible(h, source), Visited(h, source, pos, nest),
         pos \in Opens(source)
  PROVE  /\ EndOf(pos) \in Nat /\ EndOf(pos) > pos
         /\ Visited(h, source, EndOf(pos) + 1, nest)
<1>0. Len(source) \in Nat /\ h[Len(source)] = <<>> /\ nest = h[pos - 1]
  BY LegibleFacts DEF Visited
<1>1. PICK e : e = EndOf(pos)
  OBVIOUS
<1>2. /\ pos \in 1..Len(source) /\ e \in pos..Len(source)
      /\ IsEnd(Opens(source), Ends(source), pos, Len(source), e)
  BY <1>0, <1>1, EndOfIs
<1>3. IsHistory(h, Opens(source), Ends(source), Len(source))
  BY DEF Legible
<1>4. Encloses(h, Ends(source), Len(source), pos, e)
  <2>1. Returns(h, pos, e)
    BY <1>0, <1>2, <1>3, EndReturns
  <2> QED BY <1>0, <1>1, <1>2, <1>3, <2>1, ReturnFacts
<1>5. h[e] = nest /\ e \in (pos + 1)..Len(source)
  BY <1>0, <1>4 DEF Encloses
<1>6. e + 1 \in 1..(Len(source) + 1) /\ e + 1 - 1 = e /\ e \in Nat /\ e > pos
  BY <1>2, <1>5
<1> QED BY <1>0, <1>1, <1>5, <1>6 DEF Visited

(* The item behind one whose inside is passed over.                        *)
LEMMA NestPast ==
  ASSUME NEW h, Legible(h, source), Visited(h, source, pos, nest),
         pos \in DOMAIN source, source[pos].op # "end"
  PROVE  Past \in Nat /\ Past > pos /\ Visited(h, source, Past, nest)
<1>1. pos \in Nat
  BY NestFacts
<1>2. CASE source[pos].op \in Openers
  <2>1. pos \in Opens(source)
    BY <1>2 DEF Opens
  <2>2. EndOf(pos) \in Nat /\ EndOf(pos) > pos /\ Visited(h, source, EndOf(pos) + 1, nest)
    BY <2>1, NestSkips
  <2>3. Past = EndOf(pos) + 1
    BY <1>2 DEF Past
  <2> QED BY <1>1, <2>2, <2>3
<1>3. CASE source[pos].op \notin Openers
  <2>1. Past = pos + 1 /\ Visited(h, source, pos + 1, nest)
    BY <1>3, NestMoves DEF Past
  <2> QED BY <1>1, <2>1
<1> QED BY <1>2, <1>3

(* What is around an item by the count of the braces is what the pass has  *)
(* around it.                                                              *)
LEMMA AroundFacts ==
  ASSUME NEW h, Legible(h, source), Visited(h, source, pos, nest),
         pos \in DOMAIN source, source[pos].op # "end"
  PROVE  Around(pos) = {nest[k] : k \in DOMAIN nest}
<1>0. /\ Len(source) \in Nat /\ DOMAIN source = 1..Len(source) /\ pos \in 1..Len(source)
      /\ h[Len(source)] = <<>> /\ nest = h[pos - 1]
      /\ IsHistory(h, Opens(source), Ends(source), Len(source))
      /\ pos \notin Ends(source)
  BY LegibleFacts DEF Visited, Legible, Ends
<1>1. \A k \in DOMAIN nest : nest[k] \in 1..(pos - 1) /\ nest[k] \in Opens(source)
  BY NestFacts
<1>2. ASSUME NEW j \in 1..(pos - 1), j \in Opens(source)
      PROVE  EndOf(j) > pos <=> \E k \in DOMAIN nest : nest[k] = j
  <2>1. /\ EndOf(j) \in j..Len(source)
        /\ IsEnd(Opens(source), Ends(source), j, Len(source), EndOf(j))
    BY <1>0, <1>2, EndOfIs
  <2>2. EndOf(j) > pos <=> IsAround(h, j, pos)
    BY <1>0, <1>2, <2>1, AroundIs
  <2>3. IsAround(h, j, pos) <=> \E k \in DOMAIN nest : nest[k] = j
    BY <1>0 DEF IsAround
  <2> QED BY <2>2, <2>3
<1>3. \A j \in 1..(pos - 1) : j \in Opens(source) <=> source[j].op \in Openers
  BY <1>0 DEF Opens
<1> QED BY <1>1, <1>2, <1>3 DEF Around

-----------------------------------------------------------------------------
(* Before a pass runs, nothing is known; what is caught is a test block.   *)
Phases ==
  {"writing", "registering", "prechecking", "checking", "accepted", "rejected"}
TestOps == {"tce", "bad_tce"}

Quiet ==
  pc = "writing" =>
    /\ pos = 1 /\ scopes = <<>> /\ within = FALSE
    /\ decls = {} /\ funcs = {} /\ caught = {} /\ found = {}

CaughtTests == \A i \in caught : i \in DOMAIN source /\ source[i].op \in TestOps

Base == pc \in Phases /\ Nesting /\ Quiet /\ CaughtTests

(* The place of a pass, in one formula.                                    *)
LEMMA NestingElim ==
  ASSUME Nesting, pc # "writing"
  PROVE  \E h : Legible(h, source) /\ Visited(h, source, pos, nest)
BY DEF Nesting

(* After a step of a pass the source is the same.                          *)
LEMMA NestingIntro ==
  ASSUME NEW h, Legible(h, source), source' = source, pc' # "writing",
         Visited(h, source, pos', nest')
  PROVE  Nesting'
BY DEF Nesting

(* The item that is visited is one of the source.                          *)
LEMMA AtFacts ==
  ASSUME NEW h, Legible(h, source), Visited(h, source, pos, nest), NEW op, At(op)
  PROVE  pos \in DOMAIN source /\ source[pos].op = op
<1>1. Len(source) \in Nat /\ DOMAIN source = 1..Len(source)
  BY LegibleFacts
<1> QED BY <1>1 DEF At, Visited

(* What an error does that no test block, or the one at nest[k], catches.  *)
Uncaught(s) ==
  /\ pc' = "rejected" /\ scopes' = s
  /\ UNCHANGED <<source, debug, pos, nest, within, caught>>
CaughtAt(s, k) ==
  /\ pos' = EndOf(nest[k]) + 1
  /\ nest' = SubSeq(nest, 1, k - 1)
  /\ scopes' = Shorter(s, 1)
  /\ caught' = caught \cup {nest[k]}
  /\ within' = FALSE
  /\ UNCHANGED <<source, debug, pc>>

(* An error has one of these effects.                                      *)
LEMMA ThrowFacts ==
  ASSUME NEW h, Legible(h, source), Visited(h, source, pos, nest), NEW s,
         NEW m \in Nat, m <= Len(nest), Throw(s, m)
  PROVE  \/ Uncaught(s)
         \/ \E k \in DOMAIN nest :
              /\ k <= m /\ source[nest[k]].op = "tce" /\ nest[k] \in DOMAIN source
              /\ CaughtAt(s, k)
<1>1. CASE Tests(m) = {}
  BY <1>1 DEF Throw, Uncaught
<1>2. CASE Tests(m) # {}
  <2>1. Tests(m) \in SUBSET (1..m)
    BY DEF Tests
  <2>2. \E k \in Tests(m) : \A j \in Tests(m) : j <= k
    BY <1>2, <2>1, NatMax
  <2>3. PICK T, k : T = Tests(m) /\ k = Max(T)
    OBVIOUS
  <2>4. \E i \in T : \A j \in T : i >= j
    <3>1. PICK i \in T : \A j \in T : j <= i
      BY <2>2, <2>3
    <3>2. T \subseteq Int
      BY <2>1, <2>3
    <3>3. \A j \in T : i >= j
      BY <3>1, <3>2
    <3> QED BY <3>1, <3>3
  <2>5. k \in Tests(m)
    BY <2>3, <2>4 DEF Max
  <2>6. CaughtAt(s, k)
    BY <1>2, <2>3 DEF Throw, CaughtAt
  <2>7. k \in 1..m /\ source[nest[k]].op = "tce"
    BY <2>5 DEF Tests
  <2>8. k \in DOMAIN nest /\ k <= m
    BY <2>7, NestFacts
  <2>9. nest[k] \in DOMAIN source
    BY <2>8, NestFacts DEF Opens
  <2> QED BY <2>6, <2>7, <2>8, <2>9
<1> QED BY <1>1, <1>2

(* The error at an item is inside all the openers around it; that of a     *)
(* test block without one, at its end, inside those around the block.      *)
LEMMA ThrowDepth ==
  ASSUME NEW h, Legible(h, source), Visited(h, source, pos, nest)
  PROVE  /\ Len(nest) \in Nat /\ Len(nest) <= Len(nest)
         /\ At("end") => Len(nest) - 1 \in Nat /\ Len(nest) - 1 <= Len(nest)
<1>1. Len(nest) \in Nat
  BY NestFacts
<1>2. ASSUME At("end") PROVE nest # <<>>
  BY <1>2, AtFacts, NestMoves
<1>3. nest \in Seq(Nat)
  BY NestFacts
<1> QED BY <1>1, <1>2, <1>3

(* An error leaves the pass where it is, or behind a test block.           *)
LEMMA ThrowMoves ==
  ASSUME NEW h, Legible(h, source), Visited(h, source, pos, nest), NEW s,
         NEW m \in Nat, m <= Len(nest), Throw(s, m), pc # "writing"
  PROVE  source' = source /\ pc' # "writing" /\ Visited(h, source, pos', nest')
<1>1. CASE Uncaught(s)
  BY <1>1 DEF Uncaught
<1>2. ASSUME NEW k \in DOMAIN nest, CaughtAt(s, k)
      PROVE  source' = source /\ pc' # "writing" /\ Visited(h, source, pos', nest')
  <2>1. Visited(h, source, EndOf(nest[k]) + 1, SubSeq(nest, 1, k - 1))
    BY NestJumps
  <2> QED BY <1>2, <2>1 DEF CaughtAt
<1> QED BY <1>1, <1>2, ThrowFacts

(* What a visitor passes over is an item or a whole construct.             *)
LEMMA PastItem ==
  ASSUME NEW h, Legible(h, source), Visited(h, source, pos, nest), CaughtTests,
         PrecheckPast \/ CheckSkipTest
  PROVE  pos \in DOMAIN source /\ source[pos].op # "end"
<1>1. ASSUME NEW op, At(op), op # "end"
      PROVE  pos \in DOMAIN source /\ source[pos].op # "end"
  BY <1>1, AtFacts
<1>2. CASE pos \in caught
  BY <1>2 DEF CaughtTests, TestOps
<1>3. CASE At("fn") \/ At("var")
  BY <1>1, <1>3
<1>4. CASE Unvisited
  <2>1. PICK op \in {"loop", "block", "use", "break", "return"} : At(op)
    BY <1>4 DEF Unvisited
  <2> QED BY <1>1, <2>1
<1> QED BY <1>2, <1>3, <1>4 DEF PrecheckPast, CheckSkipTest

(* Every step of a pass moves it to a place that the braces have.          *)
LEMMA PassMoves ==
  ASSUME NEW h, Legible(h, source), Visited(h, source, pos, nest), CaughtTests,
         pc # "writing", Next
  PROVE  source' = source /\ pc' # "writing" /\ Visited(h, source, pos', nest')
<1>a. Len(source) \in Nat /\ DOMAIN source = 1..Len(source)
  BY LegibleFacts
<1>b. Openers = {"fn", "loop", "block", "tce"}
  BY DEF Openers
<1>1. ASSUME NEW item \in Item, Write(item) PROVE FALSE
  BY <1>1 DEF Write
<1>2. CASE BeginRegister
  BY <1>2 DEF BeginRegister
<1>3. CASE RegisterOpen
  <2>1. pos \in DOMAIN source /\ source[pos].op \in Openers
    BY <1>3, AtFacts DEF RegisterOpen
  <2>2. Visited(h, source, pos + 1, Append(nest, pos))
    BY <2>1, NestMoves
  <2> QED BY <1>3, <2>2 DEF RegisterOpen
<1>4. CASE RegisterBadTest
  <2>1. pos \in DOMAIN source /\ source[pos].op = "bad_tce"
    BY <1>4, AtFacts DEF RegisterBadTest
  <2>2. Visited(h, source, pos + 1, nest)
    BY <1>b, <2>1, NestMoves
  <2> QED BY <1>4, <2>2 DEF RegisterBadTest, Advance
<1>5. CASE RegisterEnd
  <2>1. pos \in DOMAIN source /\ source[pos].op = "end"
    BY <1>5, AtFacts DEF RegisterEnd
  <2>2. Visited(h, source, pos + 1, Shorter(nest, 1))
    BY <2>1, NestMoves
  <2> QED BY <1>5, <2>2 DEF RegisterEnd
<1>6. CASE RegisterVar
  <2>1. pos \in DOMAIN source /\ source[pos].op = "var"
    BY <1>6, AtFacts DEF RegisterVar
  <2>2. Visited(h, source, pos + 1, nest)
    BY <1>b, <2>1, NestMoves
  <2> QED BY <1>6, <2>2 DEF RegisterVar, Advance
<1>7. CASE RegisterRedeclared
  BY <1>7, ThrowDepth, ThrowMoves DEF RegisterRedeclared
<1>8. CASE RegisterOther
  <2>1. pos \in DOMAIN source /\ source[pos].op \in {"import", "use", "break", "return"}
    BY <1>8, AtFacts DEF RegisterOther
  <2>2. Visited(h, source, pos + 1, nest)
    BY <1>b, <2>1, NestMoves
  <2> QED BY <1>8, <2>2 DEF RegisterOther, Advance
<1>9. ASSUME pos = Len(source) + 1 PROVE Visited(h, source, 1, nest)
  <2>1. nest = h[pos - 1] /\ h[Len(source)] = <<>>
    BY DEF Visited
  <2>2. pos - 1 = Len(source) /\ 1 \in 1..(Len(source) + 1) /\ 1 - 1 = 0
    BY <1>a, <1>9
  <2>3. nest = h[0]
    BY <2>1, <2>2 DEF Legible, IsHistory
  <2> QED BY <2>1, <2>2, <2>3 DEF Visited
<1>20. CASE BeginPrecheck
  BY <1>9, <1>20 DEF BeginPrecheck
<1>21. CASE PrecheckOpen
  <2>1. pos \in DOMAIN source /\ source[pos].op = "tce"
    BY <1>21, AtFacts DEF PrecheckOpen
  <2>2. Visited(h, source, pos + 1, Append(nest, pos))
    BY <1>b, <2>1, NestMoves
  <2> QED BY <1>21, <2>2 DEF PrecheckOpen
<1>22. CASE PrecheckEnd
  <2>1. pos \in DOMAIN source /\ source[pos].op = "end"
    BY <1>22, AtFacts DEF PrecheckEnd
  <2>2. Visited(h, source, pos + 1, Shorter(nest, 1))
    BY <2>1, NestMoves
  <2> QED BY <1>22, <2>2 DEF PrecheckEnd
<1>23. CASE PrecheckPast
  <2>1. pos \in DOMAIN source /\ source[pos].op # "end"
    BY <1>23, PastItem
  <2>2. Visited(h, source, Past, nest)
    BY <2>1, NestPast
  <2> QED BY <1>23, <2>2 DEF PrecheckPast
<1>24. CASE PrecheckError
  BY <1>24, ThrowDepth, ThrowMoves DEF PrecheckError
<1>25. CASE BeginCheck
  BY <1>9, <1>25 DEF BeginCheck
<1>10. CASE CheckOpen
  <2>1. pos \in DOMAIN source /\ source[pos].op \in Openers
    BY <1>10, AtFacts DEF CheckOpen
  <2>2. Visited(h, source, pos + 1, Append(nest, pos))
    BY <2>1, NestMoves
  <2> QED BY <1>10, <2>2 DEF CheckOpen
<1>11. CASE CheckSkipTest
  <2>1. pos \in DOMAIN source /\ source[pos].op # "end"
    BY <1>11, PastItem
  <2>2. Visited(h, source, Past, nest)
    BY <2>1, NestPast
  <2> QED BY <1>11, <2>2 DEF CheckSkipTest
<1>12. CASE CheckEnd
  <2>1. pos \in DOMAIN source /\ source[pos].op = "end"
    BY <1>12, AtFacts DEF CheckEnd
  <2>2. Visited(h, source, pos + 1, Shorter(nest, 1))
    BY <2>1, NestMoves
  <2> QED BY <1>12, <2>2 DEF CheckEnd
<1>13. CASE CheckTestWithoutError
  BY <1>13, ThrowDepth, ThrowMoves DEF CheckTestWithoutError
<1>14. CASE CheckUse
  <2>1. pos \in DOMAIN source /\ source[pos].op = "use"
    BY <1>14, AtFacts DEF CheckUse
  <2>2. Visited(h, source, pos + 1, nest)
    BY <1>b, <2>1, NestMoves
  <2> QED BY <1>14, <2>2 DEF CheckUse, Advance
<1>15. CASE CheckBreak
  <2>1. pos \in DOMAIN source /\ source[pos].op = "break"
    BY <1>15, AtFacts DEF CheckBreak
  <2>2. Visited(h, source, pos + 1, nest)
    BY <1>b, <2>1, NestMoves
  <2> QED BY <1>15, <2>2 DEF CheckBreak, Advance
<1>16. CASE CheckReturn
  <2>1. pos \in DOMAIN source /\ source[pos].op = "return"
    BY <1>16, AtFacts DEF CheckReturn
  <2>2. Visited(h, source, pos + 1, nest)
    BY <1>b, <2>1, NestMoves
  <2> QED BY <1>16, <2>2 DEF CheckReturn, Advance
<1>17. CASE CheckOther
  <2>1. pos \in DOMAIN source /\ source[pos].op \in {"var", "import"}
    BY <1>17, AtFacts DEF CheckOther
  <2>2. Visited(h, source, pos + 1, nest)
    BY <1>b, <2>1, NestMoves
  <2> QED BY <1>17, <2>2 DEF CheckOther, Advance
<1>18. CASE CheckError
  BY <1>18, ThrowDepth, ThrowMoves DEF CheckError
<1>19. CASE Accept
  BY <1>19 DEF Accept
<1> QED BY <1>1, <1>2, <1>3, <1>4, <1>5, <1>6, <1>7, <1>8, <1>10, <1>11, <1>12, <1>13,
           <1>14, <1>15, <1>16, <1>17, <1>18, <1>19, <1>20, <1>21, <1>22, <1>23, <1>24,
           <1>25 DEF Next

(* An item is written where the braces allow it.                           *)
LEMMA WriteNests ==
  ASSUME Base, NEW item \in Item, Write(item)
  PROVE  Nesting' /\ pc' = "writing"
<1>1. PICK h : Legible(h, source) /\ nest = h[Len(source)]
  BY DEF Base, Nesting, Write
<1>2. /\ source \in Seq(Item) /\ Len(source) \in Nat /\ DOMAIN source = 1..Len(source)
      /\ h \in [Nat -> Seq(Nat)]
  BY <1>1, LegibleFacts
<1>l. PICK l \in Nat : l = Len(source)
  BY <1>2
<1>3. PICK t, n : l = Len(source) /\ t = Append(source, item) /\ n = nest
  BY <1>l
<1>4. t[l + 1] = item /\ \A k \in 1..l : t[k] = source[k]
  BY <1>2, <1>3
<1>6. MayWrite(item) /\ item.name \in Var \cup {NoVar}
  BY DEF Write, Item
<1>7. Placed(t, n, l + 1)
  <2>1. item.op \notin {"fn", "tce", "bad_tce"} => n # <<>>
    BY <1>3, <1>6 DEF MayWrite
  <2>3. item.op \in {"var", "use"} => item.name \in Var
    BY <1>6 DEF MayWrite
  <2>4. t[l + 1] = item
    BY <1>4
  <2> QED BY <2>1, <2>3, <2>4 DEF Placed
<1>8. item.op = "end" => n # <<>>
  BY <1>3, <1>6 DEF MayWrite
<1>9. PICK g : /\ Legible(g, t)
               /\ g[l + 1] = IF item.op \in Openers THEN Append(n, l + 1)
                             ELSE IF item.op = "end" THEN Shorter(n, 1) ELSE n
  BY <1>1, <1>3, <1>7, <1>8, ItemWritten
<1>10. nest' = g[Len(source')] /\ source' = t /\ pc' = "writing"
  <2>1. source' = t /\ pc' = "writing"
    BY <1>3 DEF Write
  <2>2. Len(source') = l + 1
    BY <1>2, <1>3, <2>1
  <2>3. nest' = IF item.op \in Openers THEN Append(n, l + 1)
                ELSE IF item.op = "end" THEN Shorter(n, 1) ELSE n
    BY <1>3 DEF Write
  <2> QED BY <1>9, <2>1, <2>2, <2>3
<1> QED BY <1>9, <1>10 DEF Nesting

(* What a step of a pass does to the test blocks that are caught.          *)
LEMMA PassCatches ==
  ASSUME NEW h, Legible(h, source), Visited(h, source, pos, nest),
         pc # "writing", Next
  PROVE  \A i \in caught' : i \in caught \/ (i \in DOMAIN source /\ source[i].op = "tce")
<1>1. ASSUME NEW s, NEW m \in Nat, m <= Len(nest), Throw(s, m)
      PROVE  \A i \in caught' : i \in caught \/ (i \in DOMAIN source /\ source[i].op = "tce")
  <2>1. CASE Uncaught(s)
    BY <2>1 DEF Uncaught
  <2>2. CASE \E k \in DOMAIN nest : /\ source[nest[k]].op = "tce"
                                    /\ nest[k] \in DOMAIN source /\ CaughtAt(s, k)
    BY <2>2 DEF CaughtAt
  <2> QED BY <1>1, <2>1, <2>2, ThrowFacts
<1>2. CASE RegisterRedeclared
  BY <1>1, <1>2, ThrowDepth DEF RegisterRedeclared
<1>3. CASE CheckError
  BY <1>1, <1>3, ThrowDepth DEF CheckError
<1>4. CASE PrecheckError
  BY <1>1, <1>4, ThrowDepth DEF PrecheckError
<1>5. CASE CheckTestWithoutError
  BY <1>1, <1>5, ThrowDepth DEF CheckTestWithoutError
<1>6. CASE ~RegisterRedeclared /\ ~CheckError /\ ~PrecheckError /\ ~CheckTestWithoutError
  <2>1. caught' = caught
    BY <1>6 DEF Next, Write, BeginRegister, RegisterOpen, RegisterBadTest, RegisterEnd,
         RegisterVar, RegisterOther, BeginPrecheck, PrecheckOpen, PrecheckEnd,
         PrecheckPast, BeginCheck, CheckOpen, CheckSkipTest, CheckEnd, CheckUse,
         CheckBreak, CheckReturn, CheckOther, Accept
  <2> QED BY <2>1
<1> QED BY <1>2, <1>3, <1>4, <1>5, <1>6

(* The phase a step leads to.                                              *)
LEMMA NextPhase ==
  ASSUME pc \in Phases, Next
  PROVE  pc' \in Phases
<1>1. ASSUME NEW s, NEW m, Throw(s, m) PROVE pc' \in Phases
  BY <1>1 DEF Throw, Phases
<1>2. CASE RegisterRedeclared
  BY <1>1, <1>2 DEF RegisterRedeclared
<1>3. CASE PrecheckError
  BY <1>1, <1>3 DEF PrecheckError
<1>4. CASE CheckError
  BY <1>1, <1>4 DEF CheckError
<1>5. CASE CheckTestWithoutError
  BY <1>1, <1>5 DEF CheckTestWithoutError
<1> QED
  BY <1>2, <1>3, <1>4, <1>5 DEF Phases, Next, Write, BeginRegister, RegisterOpen,
     RegisterBadTest, RegisterEnd, RegisterVar, RegisterOther, BeginPrecheck, PrecheckOpen,
     PrecheckEnd, PrecheckPast, BeginCheck, CheckOpen, CheckSkipTest, CheckEnd, CheckUse,
     CheckBreak, CheckReturn, CheckOther, Accept, Advance

(* The part of the invariant about the place of a pass.                    *)
LEMMA BaseInit == Init => Base
<1> SUFFICES ASSUME Init PROVE Base
  OBVIOUS
<1>1. Nesting
  <2>1. PICK h : Legible(h, <<>>) /\ h[0] = <<>>
    BY NothingWritten
  <2>2. source = <<>> /\ nest = <<>> /\ pc = "writing" /\ Len(source) = 0
    BY DEF Init
  <2> QED BY <2>1, <2>2 DEF Nesting
<1>2. Quiet /\ CaughtTests /\ pc \in Phases
  BY DEF Init, Quiet, CaughtTests, Phases
<1> QED BY <1>1, <1>2 DEF Base

(* Every step keeps it.                                                    *)
LEMMA BaseStep == Base /\ [Next]_vars => Base'
<1> SUFFICES ASSUME Base, [Next]_vars PROVE Base'
  OBVIOUS
<1>1. CASE UNCHANGED vars
  BY <1>1 DEF vars, Base, Nesting, Quiet, CaughtTests
<1>2. ASSUME NEW item \in Item, Write(item) PROVE Base'
  <2>1. Nesting' /\ pc' = "writing"
    BY <1>2, WriteNests
  <2>2. Quiet' /\ CaughtTests'
    BY <1>2 DEF Base, Write, Quiet, CaughtTests
  <2> QED BY <2>1, <2>2 DEF Base, Phases
<1>3. CASE BeginRegister
  <2>1. PICK h : Legible(h, source) /\ nest = h[Len(source)]
    BY <1>3 DEF BeginRegister, Base, Nesting
  <2>2. Visited(h, source, 1, nest)
    <3>1. h[Len(source)] = <<>> /\ h[0] = <<>> /\ nest = <<>>
      BY <1>3, <2>1 DEF BeginRegister, Legible, IsHistory
    <3>2. 1 \in 1..(Len(source) + 1) /\ 1 - 1 = 0
      BY <2>1, LegibleFacts
    <3> QED BY <3>1, <3>2 DEF Visited
  <2>3. pos' = 1 /\ nest' = nest /\ source' = source /\ pc' = "registering"
    BY <1>3 DEF BeginRegister, Base, Quiet
  <2>4. Nesting'
    BY <2>1, <2>2, <2>3, NestingIntro
  <2>5. Quiet' /\ CaughtTests'
    BY <1>3 DEF BeginRegister, Quiet, CaughtTests, TestOps
  <2> QED BY <2>3, <2>4, <2>5 DEF Base, Phases
<1>4. CASE pc # "writing" /\ Next
  <2>1. PICK h : Legible(h, source) /\ Visited(h, source, pos, nest)
    BY <1>4, NestingElim DEF Base
  <2>2. source' = source /\ pc' # "writing" /\ Visited(h, source, pos', nest')
    BY <1>4, <2>1, PassMoves DEF Base
  <2>3. Nesting'
    BY <2>1, <2>2, NestingIntro
  <2>4. CaughtTests'
    BY <1>4, <2>1, <2>2, PassCatches DEF Base, CaughtTests, TestOps
  <2>5. pc' \in Phases
    BY <1>4, NextPhase DEF Base
  <2> QED BY <2>2, <2>3, <2>4, <2>5 DEF Base, Quiet
<1>5. CASE pc = "writing" /\ Next
  <2>1. (\E item \in Item : Write(item)) \/ BeginRegister
    BY <1>5 DEF Next, RegisterOpen, RegisterBadTest, RegisterEnd, RegisterVar,
         RegisterRedeclared, RegisterOther, BeginPrecheck, PrecheckOpen, PrecheckEnd,
         PrecheckPast, PrecheckError, BeginCheck, CheckOpen, CheckSkipTest, CheckEnd,
         CheckTestWithoutError, CheckUse, CheckBreak, CheckReturn, CheckOther, CheckError,
         Accept
  <2> QED BY <1>2, <1>3, <2>1
<1> QED BY <1>1, <1>4, <1>5

-----------------------------------------------------------------------------
(* The scopes of an opener, and those around an item, as functions of the  *)
(* source, the pass and the openers around the item.                       *)
KindsIn(s, c, i) ==
  IF s[i].op = "tce" /\ c \in {"registering", "prechecking"}
  THEN <<"intrinsic">> ELSE Kinds(s[i].op)
PushedIn(s, c, i) == [k \in DOMAIN KindsIn(s, c, i) |-> <<KindsIn(s, c, i)[k], i>>]
EnclosingIn(s, c, n) == {Root} \cup UNION {ToSet(PushedIn(s, c, n[k])) : k \in DOMAIN n}

AllScopes == {"package", "fn", "loop", "compound", "intrinsic"} \X Nat

(* A stack in the order of the source, of constructs opened before p.      *)
Ranked(st, p) ==
  /\ st \in Seq(AllScopes)
  /\ \A k \in DOMAIN st : st[k][2] < p
  /\ \A j, k \in DOMAIN st : j < k => IsOuter(st[j], st[k])

(* The stack of a pass holds the scopes around the item it visits.         *)
Covers(st, x) == st # <<>> /\ st[1] = Root /\ x \subseteq ToSet(st)

Stack ==
  /\ Ranked(scopes, pos)
  /\ Visiting => Covers(scopes, EnclosingIn(source, pc, nest))

(* The operators of the model are those, said of the state.                *)
LEMMA EnclosingIs ==
  /\ Enclosing = EnclosingIn(source, pc, nest)
  /\ Enclosing' = EnclosingIn(source', pc', nest')
  /\ \A i : Pushed(i) = PushedIn(source, pc, i)
<1>1. \A i : Pushed(i) = PushedIn(source, pc, i)
  BY DEF Pushed, PushedIn, KindsIn
<1>2. Enclosing = EnclosingIn(source, pc, nest)
  BY DEF Enclosing, EnclosingIn, Pushed, PushedIn, KindsIn
<1>3. Enclosing' = EnclosingIn(source', pc', nest')
  BY DEF Enclosing, EnclosingIn, Pushed, PushedIn, KindsIn
<1> QED BY <1>1, <1>2, <1>3

(* An opener at i pushes one scope, or the construct and then its body.    *)
PushesOne(t, i) == Len(t) = 1 /\ t[1][2] = i
PushesTwo(t, i) ==
  /\ Len(t) = 2
  /\ t[1][2] = i /\ t[1][1] # "compound" /\ t[2] = <<"compound", i>>

(* What an opener pushes is one or two scopes of its own.                  *)
LEMMA PushedFacts ==
  ASSUME NEW s, NEW c, NEW i \in Nat, s[i].op \in Openers
  PROVE  \E t \in Seq(AllScopes) :
           /\ t = PushedIn(s, c, i)
           /\ PushesOne(t, i) \/ PushesTwo(t, i)
           /\ s[i].op # "tce" => t[Len(t)] = <<"compound", i>>
<1> DEFINE All == {"package", "fn", "loop", "compound", "intrinsic"}
<1>1. PICK ks : ks = KindsIn(s, c, i)
  OBVIOUS
<1>2. \/ ks = <<"intrinsic">> /\ s[i].op = "tce"
      \/ ks = <<"compound">>
      \/ \E a \in All \ {"compound"} : ks = <<a, "compound">>
  <2>1. CASE s[i].op = "fn"
    BY <1>1, <2>1 DEF KindsIn, Kinds
  <2>2. CASE s[i].op = "loop"
    BY <1>1, <2>2 DEF KindsIn, Kinds
  <2>3. CASE s[i].op = "block"
    BY <1>1, <2>3 DEF KindsIn, Kinds
  <2>4. CASE s[i].op = "tce" /\ c \in {"registering", "prechecking"}
    BY <1>1, <2>4 DEF KindsIn
  <2>5. CASE s[i].op = "tce" /\ c \notin {"registering", "prechecking"}
    BY <1>1, <2>5 DEF KindsIn, Kinds
  <2> QED BY <2>1, <2>2, <2>3, <2>4, <2>5 DEF Openers
<1>3. PushedIn(s, c, i) = [k \in DOMAIN ks |-> <<ks[k], i>>]
  BY <1>1 DEF PushedIn
<1>4. CASE ks = <<"intrinsic">> /\ s[i].op = "tce"
  <2>1. PICK t : t = << <<"intrinsic", i>> >>
    OBVIOUS
  <2>2. PushedIn(s, c, i) = t
    BY <1>3, <1>4, <2>1
  <2>3. t \in Seq(AllScopes)
    BY <2>1 DEF AllScopes
  <2>4. PushesOne(t, i)
    BY <2>1 DEF PushesOne
  <2> QED BY <1>4, <2>2, <2>3, <2>4
<1>5. CASE ks = <<"compound">>
  <2>1. PICK t : t = << <<"compound", i>> >>
    OBVIOUS
  <2>2. PushedIn(s, c, i) = t
    BY <1>3, <1>5, <2>1
  <2>3. t \in Seq(AllScopes)
    BY <2>1 DEF AllScopes
  <2>4. PushesOne(t, i) /\ t[Len(t)] = <<"compound", i>>
    BY <2>1 DEF PushesOne
  <2> QED BY <2>2, <2>3, <2>4
<1>6. ASSUME NEW a \in All \ {"compound"}, ks = <<a, "compound">>
      PROVE  \E t \in Seq(AllScopes) :
           /\ t = PushedIn(s, c, i)
           /\ PushesTwo(t, i)
           /\ t[Len(t)] = <<"compound", i>>
  <2>1. PICK t : t = << <<a, i>>, <<"compound", i>> >>
    OBVIOUS
  <2>2. PushedIn(s, c, i) = t
    BY <1>3, <1>6, <2>1
  <2>3. t \in Seq(AllScopes)
    BY <2>1 DEF AllScopes
  <2>4. PushesTwo(t, i) /\ t[Len(t)] = <<"compound", i>>
    BY <2>1 DEF PushesTwo
  <2> QED BY <2>2, <2>3, <2>4
<1> QED BY <1>2, <1>4, <1>5, <1>6

(* The construct that is opened at p is pushed on the others.              *)
Grows(u, st, t) ==
  /\ ToSet(u) = ToSet(st) \cup ToSet(t)
  /\ st # <<>> => u # <<>> /\ u[1] = st[1]

(* Pushing the scopes of the item at p keeps the stack in order.           *)
LEMMA RankedAppend ==
  ASSUME NEW st, NEW p \in Nat, Ranked(st, p), NEW s, NEW c, s[p].op \in Openers
  PROVE  /\ Ranked(st \o PushedIn(s, c, p), p + 1)
         /\ Grows(st \o PushedIn(s, c, p), st, PushedIn(s, c, p))
<1>1. PICK t \in Seq(AllScopes) : t = PushedIn(s, c, p)
                                  /\ (PushesOne(t, p) \/ PushesTwo(t, p))
  BY PushedFacts
<1>a. \A k \in 1..Len(t) : t[k][2] = p
  <2> SUFFICES ASSUME NEW k \in 1..Len(t) PROVE t[k][2] = p
    OBVIOUS
  <2>1. CASE PushesOne(t, p)
    <3>1. Len(t) = 1 /\ t[1][2] = p
      BY <2>1 DEF PushesOne
    <3>2. k = 1
      BY <3>1
    <3> QED BY <3>1, <3>2
  <2>2. CASE PushesTwo(t, p)
    <3>1. Len(t) = 2 /\ t[1][2] = p /\ t[2] = <<"compound", p>>
      BY <2>2 DEF PushesTwo
    <3>2. k = 1 \/ k = 2
      BY <3>1
    <3>3. t[2][2] = p
      BY <3>1
    <3> QED BY <3>1, <3>2, <3>3
  <2> QED BY <1>1, <2>1, <2>2
<1>2. st \in Seq(AllScopes)
  BY DEF Ranked
<1>3. PICK a, b \in Nat : a = Len(st) /\ b = Len(t) /\ DOMAIN st = 1..a /\ DOMAIN t = 1..b
  BY <1>2
<1>b. st \o t \in Seq(AllScopes)
  BY <1>2
<1>4. PICK u \in Seq(AllScopes) : u = st \o t
  BY <1>b
<1>5. /\ Len(u) = a + b /\ DOMAIN u = 1..(a + b)
      /\ \A k \in 1..a : u[k] = st[k]
      /\ \A k \in 1..b : u[a + k] = t[k]
  BY <1>2, <1>3, <1>4
<1>6. \A k \in 1..(a + b) : k \in 1..a \/ (\E j \in 1..b : k = a + j)
  <2> SUFFICES ASSUME NEW k \in 1..(a + b), k \notin 1..a
               PROVE  \E j \in 1..b : k = a + j
    OBVIOUS
  <2>1. k - a \in 1..b /\ k = a + (k - a)
    OBVIOUS
  <2> QED BY <2>1
<1>7. \A k \in DOMAIN u : u[k][2] < p + 1
  <2>1. \A k \in 1..a : u[k][2] \in Nat /\ u[k][2] < p
    <3>1. \A k \in 1..a : st[k] \in AllScopes
      BY <1>2, <1>3
    <3> QED BY <1>3, <1>5, <3>1 DEF Ranked, AllScopes
  <2>2. \A k \in 1..b : u[a + k][2] = p
    BY <1>a, <1>3, <1>5
  <2>3. ASSUME NEW k \in 1..(a + b) PROVE u[k][2] < p + 1
    <3>1. CASE k \in 1..a
      BY <2>1, <3>1
    <3>2. CASE k \notin 1..a
      <4>1. u[k][2] = p
        BY <1>6, <2>2, <3>2
      <4> QED BY <4>1
    <3> QED BY <3>1, <3>2
  <2> QED BY <1>5, <2>3
<1>8. \A j, k \in DOMAIN u : j < k => IsOuter(u[j], u[k])
  <2> SUFFICES ASSUME NEW j \in 1..(a + b), NEW k \in 1..(a + b), j < k
               PROVE  IsOuter(u[j], u[k])
    BY <1>5
  <2>1. CASE k \in 1..a
    <3>1. j \in 1..a
      BY <2>1
    <3>2. IsOuter(st[j], st[k])
      BY <1>3, <2>1, <3>1 DEF Ranked
    <3> QED BY <1>5, <2>1, <3>1, <3>2
  <2>2. CASE j \in 1..a /\ k \notin 1..a
    <3>1. st[j][2] < p
      BY <1>3, <2>2 DEF Ranked
    <3>2. u[k][2] = p
      <4>1. PICK i \in 1..b : k = a + i
        BY <1>6, <2>2
      <4>2. u[k] = t[i] /\ t[i][2] = p
        BY <1>a, <1>3, <1>5, <4>1
      <4> QED BY <4>2
    <3>3. u[j] = st[j]
      BY <1>5, <2>2
    <3> QED BY <3>1, <3>2, <3>3 DEF IsOuter
  <2>3. CASE j \notin 1..a
    <3>1. PICK i \in 1..b : j = a + i
      BY <1>6, <2>3
    <3>2. k \notin 1..a
      BY <2>3
    <3>3. PICK l \in 1..b : k = a + l
      BY <1>6, <3>2
    <3>a. i < l
      BY <3>1, <3>3
    <3>b. b = 1 \/ (b = 2 /\ PushesTwo(t, p))
      <4>1. PushesOne(t, p) => b = 1
        BY <1>3 DEF PushesOne
      <4>2. PushesTwo(t, p) => b = 2
        BY <1>3 DEF PushesTwo
      <4> QED BY <1>1, <4>1, <4>2
    <3>4. b = 2 /\ i = 1 /\ l = 2 /\ PushesTwo(t, p)
      BY <3>a, <3>b
    <3>5. u[j] = t[1] /\ u[k] = t[2]
      BY <1>5, <3>1, <3>3, <3>4
    <3>6. t[1][2] = p /\ t[2][2] = p /\ t[1][1] # "compound" /\ t[2][1] = "compound"
      BY <3>4 DEF PushesTwo
    <3> QED BY <3>5, <3>6 DEF IsOuter
  <2> QED BY <2>1, <2>2, <2>3
<1>9. Ranked(u, p + 1)
  BY <1>7, <1>8, <1>4 DEF Ranked
<1>10. ToSet(u) = ToSet(st) \cup ToSet(t)
  <2>1. \A k \in DOMAIN u : u[k] \in ToSet(st) \cup ToSet(t)
    <3>1. \A k \in 1..a : u[k] \in ToSet(st)
      BY <1>3, <1>5 DEF ToSet
    <3>2. \A k \in 1..b : u[a + k] \in ToSet(t)
      BY <1>3, <1>5 DEF ToSet
    <3> QED BY <1>5, <1>6, <3>1, <3>2
  <2>2. \A k \in 1..a : st[k] = u[k] /\ k \in DOMAIN u
    BY <1>5
  <2>3. \A k \in 1..b : t[k] = u[a + k] /\ a + k \in DOMAIN u
    BY <1>5
  <2> QED BY <1>3, <2>1, <2>2, <2>3 DEF ToSet
<1>11. st # <<>> => u # <<>> /\ u[1] = st[1]
  <2> SUFFICES ASSUME st # <<>> PROVE u # <<>> /\ u[1] = st[1]
    OBVIOUS
  <2>1. a > 0
    BY <1>2, <1>3
  <2>2. Len(u) # 0 /\ 1 \in 1..a
    BY <1>5, <2>1
  <2> QED BY <1>5, <2>2
<1>12. Grows(u, st, t)
  BY <1>10, <1>11 DEF Grows
<1> QED BY <1>1, <1>4, <1>9, <1>12

(* A stack from which the last m are popped.                               *)
LEMMA RankedShorter ==
  ASSUME NEW st, NEW p \in Nat, Ranked(st, p), NEW q \in Nat, p <= q,
         NEW m \in 0..Len(st)
  PROVE  /\ Ranked(Shorter(st, m), q)
         /\ DOMAIN Shorter(st, m) = 1..(Len(st) - m)
         /\ \A k \in 1..(Len(st) - m) : Shorter(st, m)[k] = st[k]
<1>1. st \in Seq(AllScopes) /\ Len(st) \in Nat /\ DOMAIN st = 1..Len(st)
  BY DEF Ranked
<1>2. PICK a \in Nat : a = Len(st) - m /\ a \in 0..Len(st)
  <2>1. PICK b \in Nat : b = Len(st)
    BY <1>1
  <2>2. m \in 0..b
    BY <2>1
  <2>3. b - m \in Nat /\ b - m \in 0..b
    BY <2>2
  <2> QED BY <2>1, <2>3
<1>3. /\ SubSeq(st, 1, a) \in Seq(AllScopes) /\ Len(SubSeq(st, 1, a)) = a
      /\ \A k \in 1..a : SubSeq(st, 1, a)[k] = st[k]
  BY <1>1, <1>2, FirstOf
<1>4. PICK u \in Seq(AllScopes) : u = Shorter(st, m) /\ u = SubSeq(st, 1, a)
  BY <1>2, <1>3 DEF Shorter
<1>5. DOMAIN u = 1..a /\ \A k \in 1..a : u[k] = st[k] /\ k \in DOMAIN st
  <2>1. Len(u) = a /\ \A k \in 1..a : u[k] = st[k]
    BY <1>3, <1>4
  <2>2. DOMAIN u = 1..a
    BY <2>1
  <2>3. \A k \in 1..a : k \in 1..Len(st)
    BY <1>1, <1>2
  <2> QED BY <1>1, <2>1, <2>2, <2>3
<1>6. \A k \in DOMAIN u : u[k][2] < q
  <2> SUFFICES ASSUME NEW k \in 1..a PROVE u[k][2] < q
    BY <1>5
  <2>1. st[k] \in AllScopes /\ st[k][2] < p
    BY <1>1, <1>5 DEF Ranked
  <2>2. st[k][2] \in Nat
    BY <2>1 DEF AllScopes
  <2> QED BY <1>5, <2>1, <2>2
<1>7. \A j, k \in DOMAIN u : j < k => IsOuter(u[j], u[k])
  BY <1>5 DEF Ranked
<1>8. Ranked(u, q)
  BY <1>6, <1>7 DEF Ranked
<1> QED BY <1>2, <1>4, <1>5, <1>8

(* Scopes of the construct at i that are on the stack: at least m.         *)
HasOne(st, i) == \E q \in DOMAIN st : st[q][2] = i
HasTwo(st, i) == \E q, r \in DOMAIN st : q # r /\ st[q][2] = i /\ st[r][2] = i

(* The scopes of constructs opened before i stay when they are popped.     *)
LEMMA PopKeeps ==
  ASSUME NEW st, NEW p \in Nat, Ranked(st, p), NEW i \in Nat, NEW m \in {1, 2},
         HasOne(st, i), m = 2 => HasTwo(st, i)
  PROVE  /\ m \in 0..Len(st)
         /\ \A q \in DOMAIN st : st[q][2] < i => q \in 1..(Len(st) - m)
<1>1. st \in Seq(AllScopes) /\ Len(st) \in Nat /\ DOMAIN st = 1..Len(st)
  BY DEF Ranked
<1>2. PICK a \in Nat : a = Len(st) /\ DOMAIN st = 1..a
  BY <1>1
<1>3. \A q \in 1..a : st[q][2] \in Nat
  <2>1. \A q \in 1..a : st[q] \in AllScopes
    BY <1>1, <1>2
  <2> QED BY <2>1 DEF AllScopes
<1>4. ASSUME NEW q \in 1..a, NEW r \in 1..a, st[q][2] < i, st[r][2] = i
      PROVE  q < r
  <2>1. r < q => IsOuter(st[r], st[q])
    BY <1>2 DEF Ranked
  <2>2. ~IsOuter(st[r], st[q])
    BY <1>3, <1>4 DEF IsOuter
  <2>3. r # q
    BY <1>4, <1>3
  <2> QED BY <2>1, <2>2, <2>3
<1>5. CASE m = 1
  <2>1. PICK r \in 1..a : st[r][2] = i
    BY <1>2 DEF HasOne
  <2>2. ASSUME NEW q \in 1..a, st[q][2] < i PROVE q \in 1..(a - 1)
    <3>1. q < r
      BY <1>4, <2>1, <2>2
    <3> QED BY <3>1
  <2>3. 1 \in 0..a
    BY <2>1
  <2> QED BY <1>2, <1>5, <2>2, <2>3
<1>6. CASE m = 2
  <2>1. PICK r, t \in 1..a : r # t /\ st[r][2] = i /\ st[t][2] = i
    BY <1>2, <1>6 DEF HasTwo
  <2>2. ASSUME NEW q \in 1..a, st[q][2] < i PROVE q \in 1..(a - 2)
    <3>1. q < r /\ q < t
      BY <1>4, <2>1, <2>2
    <3> QED BY <2>1, <3>1
  <2>3. 2 \in 0..a
    BY <2>1
  <2> QED BY <1>2, <1>6, <2>2, <2>3
<1> QED BY <1>5, <1>6

(* What the opener at i has pushed is on the stack.                        *)
LEMMA HasPushed ==
  ASSUME NEW st, NEW p \in Nat, Ranked(st, p), NEW s, NEW c, NEW i \in Nat,
         s[i].op \in Openers, ToSet(PushedIn(s, c, i)) \subseteq ToSet(st)
  PROVE  /\ Len(PushedIn(s, c, i)) \in {1, 2} /\ HasOne(st, i)
         /\ Len(PushedIn(s, c, i)) = 2 => HasTwo(st, i)
<1>1. PICK t \in Seq(AllScopes) : t = PushedIn(s, c, i)
                                  /\ (PushesOne(t, i) \/ PushesTwo(t, i))
  BY PushedFacts
<1>2. \A k \in DOMAIN t : \E q \in DOMAIN st : st[q] = t[k]
  BY <1>1 DEF ToSet
<1>3. CASE PushesOne(t, i)
  <2>1. Len(t) = 1 /\ t[1][2] = i
    BY <1>3 DEF PushesOne
  <2>2. 1 \in DOMAIN t
    BY <2>1
  <2>3. HasOne(st, i)
    BY <1>2, <2>1, <2>2 DEF HasOne
  <2> QED BY <1>1, <2>1, <2>3
<1>4. CASE PushesTwo(t, i)
  <2>1. Len(t) = 2 /\ t[1][2] = i /\ t[1][1] # "compound" /\ t[2] = <<"compound", i>>
    BY <1>4 DEF PushesTwo
  <2>2. 1 \in DOMAIN t /\ 2 \in DOMAIN t
    BY <2>1
  <2>3. PICK q, r \in DOMAIN st : st[q] = t[1] /\ st[r] = t[2]
    BY <1>2, <2>2
  <2>4. st[q][2] = i /\ st[r][2] = i /\ st[q][1] # "compound" /\ st[r][1] = "compound"
    BY <2>1, <2>3
  <2>5. q # r
    BY <2>4
  <2>6. HasOne(st, i) /\ HasTwo(st, i)
    BY <2>4, <2>5 DEF HasOne, HasTwo
  <2> QED BY <1>1, <2>1, <2>6
<1> QED BY <1>1, <1>3, <1>4

(* The scopes around an item are the package's and those of the openers.   *)
OfOpener(s, c, n, x) == \E k \in DOMAIN n : x \in ToSet(PushedIn(s, c, n[k])) /\ x[2] = n[k]

(* A scope that encloses an item is the root or one of an opener around    *)
(* it.                                                                     *)
LEMMA EnclosingMember ==
  ASSUME NEW s, NEW c, NEW n \in Seq(Nat), \A k \in DOMAIN n : s[n[k]].op \in Openers,
         NEW x \in EnclosingIn(s, c, n)
  PROVE  x = Root \/ OfOpener(s, c, n, x)
<1>1. x = Root \/ \E k \in DOMAIN n : x \in ToSet(PushedIn(s, c, n[k]))
  BY DEF EnclosingIn
<1>2. ASSUME NEW k \in DOMAIN n, x \in ToSet(PushedIn(s, c, n[k]))
      PROVE  x[2] = n[k]
  BY <1>2 DEF PushedIn, ToSet
<1> QED BY <1>1, <1>2 DEF OfOpener

(* A construct that is opened adds its scopes, and an outer part of the    *)
(* openers has those of its openers.                                       *)
LEMMA EnclosingGrows ==
  ASSUME NEW s, NEW c, NEW n \in Seq(Nat), NEW i \in Nat
  PROVE  EnclosingIn(s, c, Append(n, i))
           = EnclosingIn(s, c, n) \cup ToSet(PushedIn(s, c, i))
<1>a. PICK l \in Nat : l = Len(n)
  OBVIOUS
<1>b. PICK m : m = Append(n, i)
  OBVIOUS
<1>1. l = Len(n) /\ m = Append(n, i)
  BY <1>a, <1>b
<1>2. /\ DOMAIN n = 1..l /\ DOMAIN m = (1..l) \cup {l + 1}
      /\ m[l + 1] = i /\ \A k \in 1..l : m[k] = n[k]
  BY <1>1
<1> DEFINE P(x) == ToSet(PushedIn(s, c, x))
<1> HIDE DEF P
<1>3. UNION {P(m[k]) : k \in DOMAIN m} = (UNION {P(n[k]) : k \in DOMAIN n}) \cup P(i)
  BY <1>2
<1> QED BY <1>1, <1>3 DEF EnclosingIn, P

(* The scopes of an outer part of the openers enclose the item as well,    *)
(* and belong to openers further out.                                      *)
LEMMA EnclosingOuter ==
  ASSUME NEW s, NEW c, NEW n \in Seq(Nat), NEW k \in DOMAIN n,
         NEW x \in EnclosingIn(s, c, SubSeq(n, 1, k - 1)),
         \A j \in DOMAIN n : s[n[j]].op \in Openers,
         \A i, j \in DOMAIN n : i < j => n[i] < n[j]
  PROVE  x \in EnclosingIn(s, c, n) /\ (x = Root \/ x[2] < n[k])
<1>1. PICK l \in Nat : l = k - 1 /\ l \in 0..Len(n)
  OBVIOUS
<1>2. PICK m : m = SubSeq(n, 1, l)
  OBVIOUS
<1>3. m \in Seq(Nat) /\ Len(m) = l /\ \A j \in 1..l : m[j] = n[j]
  BY <1>1, <1>2, FirstOf
<1>4. DOMAIN m = 1..l /\ \A j \in 1..l : j \in DOMAIN n /\ j < k
  BY <1>1, <1>3
<1>5. x \in EnclosingIn(s, c, m)
  BY <1>1, <1>2
<1>6. \A j \in DOMAIN m : s[m[j]].op \in Openers
  BY <1>3, <1>4
<1>a. x = Root \/ OfOpener(s, c, m, x)
  BY <1>3, <1>5, <1>6, EnclosingMember
<1>7. x = Root \/ \E j \in DOMAIN m : x \in ToSet(PushedIn(s, c, m[j])) /\ x[2] = m[j]
  BY <1>a DEF OfOpener
<1>8. ASSUME NEW j \in DOMAIN m, x \in ToSet(PushedIn(s, c, m[j])) /\ x[2] = m[j]
      PROVE  x \in EnclosingIn(s, c, n) /\ x[2] < n[k]
  <2>1. m[j] = n[j] /\ j \in DOMAIN n /\ n[j] < n[k]
    BY <1>3, <1>4
  <2>2. x \in ToSet(PushedIn(s, c, n[j]))
    BY <1>8, <2>1
  <2> QED BY <1>8, <2>1, <2>2 DEF EnclosingIn
<1>9. Root \in EnclosingIn(s, c, n)
  BY DEF EnclosingIn
<1> QED BY <1>7, <1>8, <1>9

-----------------------------------------------------------------------------
(* The item at pos opens a construct.                                      *)
LEMMA OpenStack ==
  ASSUME NEW h, Legible(h, source), Visited(h, source, pos, nest),
         pos \in DOMAIN source, source[pos].op \in Openers, Ranked(scopes, pos),
         Covers(scopes, EnclosingIn(source, pc, nest))
  PROVE  /\ Ranked(scopes \o Pushed(pos), pos + 1)
         /\ Covers(scopes \o Pushed(pos), EnclosingIn(source, pc, Append(nest, pos)))
<1>1. pos \in Nat /\ nest \in Seq(Nat)
  BY NestFacts
<1>2. PICK t : t = PushedIn(source, pc, pos) /\ t = Pushed(pos)
  BY EnclosingIs
<1>3. PICK u : u = scopes \o t
  OBVIOUS
<1>4. Ranked(u, pos + 1) /\ Grows(u, scopes, t)
  <2>1. /\ Ranked(scopes \o PushedIn(source, pc, pos), pos + 1)
        /\ Grows(scopes \o PushedIn(source, pc, pos), scopes, PushedIn(source, pc, pos))
    BY <1>1, RankedAppend
  <2> QED BY <1>2, <1>3, <2>1
<1>5. EnclosingIn(source, pc, Append(nest, pos)) = EnclosingIn(source, pc, nest) \cup ToSet(t)
  <2>1. EnclosingIn(source, pc, Append(nest, pos))
          = EnclosingIn(source, pc, nest) \cup ToSet(PushedIn(source, pc, pos))
    BY <1>1, EnclosingGrows
  <2> QED BY <1>2, <2>1
<1>6. Covers(u, EnclosingIn(source, pc, Append(nest, pos)))
  BY <1>4, <1>5 DEF Covers, Grows
<1> QED BY <1>2, <1>3, <1>4, <1>6

(* Openers around an item at p: before it, outer ones first.               *)
Chain(n, p) ==
  /\ n \in Seq(Nat)
  /\ \A k \in DOMAIN n : n[k] \in 1..(p - 1) /\ source[n[k]].op \in Openers
  /\ \A j, k \in DOMAIN n : j < k => n[j] < n[k]

(* Those around the item of a pass are, and so are the outer ones of them. *)
LEMMA ChainFacts ==
  ASSUME NEW h, Legible(h, source), Visited(h, source, pos, nest)
  PROVE  pos \in Nat /\ nest \in Seq(Nat) /\ Chain(nest, pos)
BY NestFacts DEF Opens, Chain

LEMMA ChainOuter ==
  ASSUME NEW n, NEW p, Chain(n, p), NEW l \in 0..Len(n)
  PROVE  /\ Chain(SubSeq(n, 1, l), p)
         /\ \A k \in 1..l :
              /\ k \in DOMAIN n /\ k \in DOMAIN SubSeq(n, 1, l)
              /\ SubSeq(n, 1, l)[k] = n[k]
              /\ SubSeq(SubSeq(n, 1, l), 1, k - 1) = SubSeq(n, 1, k - 1)
<1>1. n \in Seq(Nat) /\ Len(n) \in Nat /\ DOMAIN n = 1..Len(n) /\ l \in Nat /\ l <= Len(n)
  BY DEF Chain
<1>2. PICK m : m = SubSeq(n, 1, l)
  OBVIOUS
<1>3. m \in Seq(Nat) /\ Len(m) = l /\ \A k \in 1..l : m[k] = n[k]
  BY <1>1, <1>2, FirstOf
<1>4. DOMAIN m = 1..l /\ \A k \in 1..l : k \in DOMAIN n
  BY <1>1, <1>3
<1>5. Chain(m, p)
  <2>1. \A k \in DOMAIN m : m[k] \in 1..(p - 1) /\ source[m[k]].op \in Openers
    BY <1>3, <1>4 DEF Chain
  <2>2. \A j, k \in DOMAIN m : j < k => m[j] < m[k]
    BY <1>3, <1>4 DEF Chain
  <2> QED BY <1>3, <2>1, <2>2 DEF Chain
<1>6. ASSUME NEW k \in 1..l PROVE SubSeq(m, 1, k - 1) = SubSeq(n, 1, k - 1)
  <2>1. PICK q \in Nat : q = k - 1 /\ q \in 0..l /\ q \in 0..Len(n) /\ q \in 0..Len(m)
    BY <1>1, <1>3
  <2>2. PICK u, v : u = SubSeq(m, 1, q) /\ v = SubSeq(n, 1, q)
    OBVIOUS
  <2>3. /\ u \in Seq(Nat) /\ Len(u) = q /\ \A j \in 1..q : u[j] = m[j]
        /\ v \in Seq(Nat) /\ Len(v) = q /\ \A j \in 1..q : v[j] = n[j]
    BY <1>1, <1>3, <2>1, <2>2, FirstOf
  <2>4. \A j \in 1..q : j \in 1..l
    BY <1>1, <2>1
  <2>5. \A j \in 1..q : u[j] = v[j]
    BY <1>3, <2>3, <2>4
  <2>6. u = v
    BY <2>3, <2>5
  <2> QED BY <2>1, <2>2, <2>6
<1> QED BY <1>2, <1>3, <1>4, <1>5, <1>6

(* The construct n[k] ends, or catches an error: what it has pushed, or    *)
(* one scope, is popped.                                                   *)
LEMMA PopStack ==
  ASSUME NEW p \in Nat, NEW n \in Seq(Nat), Chain(n, p),
         NEW st, Ranked(st, p), Covers(st, EnclosingIn(source, pc, n)),
         NEW k \in DOMAIN n, NEW m, m \in {1, Len(Pushed(n[k]))},
         NEW q \in Nat, p <= q
  PROVE  /\ m \in 0..Len(st)
         /\ Ranked(Shorter(st, m), q)
         /\ Covers(Shorter(st, m), EnclosingIn(source, pc, SubSeq(n, 1, k - 1)))
<1>1. /\ \A j \in DOMAIN n : n[j] \in 1..(p - 1)
      /\ \A i, j \in DOMAIN n : i < j => n[i] < n[j]
  BY DEF Chain
<1>2. \A j \in DOMAIN n : source[n[j]].op \in Openers
  BY DEF Chain
<1>3. PICK i \in Nat : i = n[k] /\ i > 0 /\ source[i].op \in Openers
  <2>1. n[k] \in 1..(p - 1)
    BY <1>1
  <2> QED BY <1>1, <1>2, <2>1
<1>4. PICK t : t = PushedIn(source, pc, i) /\ t = Pushed(n[k])
  BY <1>3, EnclosingIs
<1>5. ToSet(t) \subseteq ToSet(st)
  <2>1. ToSet(t) \subseteq EnclosingIn(source, pc, n)
    BY <1>3, <1>4 DEF EnclosingIn
  <2> QED BY <2>1 DEF Covers
<1>6. Len(t) \in {1, 2} /\ HasOne(st, i) /\ (Len(t) = 2 => HasTwo(st, i))
  BY <1>1, <1>3, <1>4, <1>5, HasPushed
<1>7. m \in {1, 2} /\ (m = 2 => HasTwo(st, i))
  BY <1>4, <1>6
<1>8. /\ m \in 0..Len(st)
      /\ \A r \in DOMAIN st : st[r][2] < i => r \in 1..(Len(st) - m)
  BY <1>1, <1>6, <1>7, PopKeeps
<1>9. PICK u : u = Shorter(st, m)
  OBVIOUS
<1>10. /\ Ranked(u, q) /\ DOMAIN u = 1..(Len(st) - m)
       /\ \A r \in 1..(Len(st) - m) : u[r] = st[r]
  BY <1>1, <1>8, <1>9, RankedShorter
<1>11. u # <<>> /\ u[1] = Root
  <2>1. st # <<>> /\ st[1] = Root /\ st \in Seq(AllScopes)
    BY DEF Covers, Ranked
  <2>2. 1 \in DOMAIN st /\ st[1][2] < i
    BY <1>3, <2>1 DEF Root
  <2>3. 1 \in 1..(Len(st) - m)
    BY <1>8, <2>2
  <2>4. u[1] = Root /\ 1 \in DOMAIN u
    BY <1>10, <2>1, <2>3
  <2> QED BY <2>4
<1>12. ASSUME NEW x \in EnclosingIn(source, pc, SubSeq(n, 1, k - 1))
       PROVE  x \in ToSet(u)
  <2>1. x \in EnclosingIn(source, pc, n) /\ (x = Root \/ x[2] < i)
    BY <1>1, <1>2, <1>3, EnclosingOuter
  <2>2. x[2] < i
    BY <1>3, <2>1 DEF Root
  <2>3. PICK r \in DOMAIN st : st[r] = x
    BY <2>1 DEF Covers, ToSet
  <2>4. r \in 1..(Len(st) - m)
    BY <1>8, <2>2, <2>3
  <2>5. r \in DOMAIN u /\ u[r] = x
    BY <1>10, <2>3, <2>4
  <2> QED BY <2>5 DEF ToSet
<1> QED BY <1>8, <1>9, <1>10, <1>11, <1>12 DEF Covers

(* The stack after an error, thrown inside the first m openers around the  *)
(* item with the stack st.                                                 *)
LEMMA ThrownStack ==
  ASSUME NEW h, Legible(h, source), Visited(h, source, pos, nest),
         NEW m \in Nat, m <= Len(nest),
         NEW st, Ranked(st, pos), Covers(st, EnclosingIn(source, pc, SubSeq(nest, 1, m))),
         Throw(st, m)
  PROVE  Stack'
<1>1. CASE Uncaught(st)
  BY <1>1 DEF Uncaught, Stack, Visiting
<1>2. ASSUME NEW k \in DOMAIN nest, k <= m, CaughtAt(st, k)
      PROVE  Stack'
  <2>1. pos \in Nat /\ nest \in Seq(Nat) /\ Chain(nest, pos) /\ k \in 1..m /\ m \in 0..Len(nest)
    BY <1>2, ChainFacts
  <2>2. PICK n : n = SubSeq(nest, 1, m)
    OBVIOUS
  <2>3. /\ Chain(n, pos) /\ k \in DOMAIN n /\ n[k] = nest[k]
        /\ SubSeq(n, 1, k - 1) = SubSeq(nest, 1, k - 1)
    BY <2>1, <2>2, ChainOuter
  <2>4. n \in Seq(Nat)
    BY <2>3 DEF Chain
  <2>5. EndOf(nest[k]) + 1 \in Nat /\ pos <= EndOf(nest[k]) + 1
    <3>1. EndOf(nest[k]) \in Nat /\ EndOf(nest[k]) >= pos
      BY NestJumps
    <3> QED BY <2>1, <3>1
  <2>6. PICK o : o = 1 /\ o \in {1, Len(Pushed(n[k]))}
    OBVIOUS
  <2>7. /\ Ranked(Shorter(st, o), EndOf(nest[k]) + 1)
        /\ Covers(Shorter(st, o), EnclosingIn(source, pc, SubSeq(n, 1, k - 1)))
    BY <2>1, <2>2, <2>3, <2>4, <2>5, <2>6, PopStack
  <2>8. Ranked(scopes', pos') /\ Covers(scopes', EnclosingIn(source', pc', nest'))
    BY <1>2, <2>3, <2>6, <2>7 DEF CaughtAt
  <2> QED BY <2>8 DEF Stack
<1> QED BY <1>1, <1>2, ThrowFacts

(* An error at the item.                                                   *)
LEMMA ThrowStack ==
  ASSUME Base, Stack, Visiting, Throw(scopes, Len(nest))
  PROVE  Stack'
<1>1. PICK h : Legible(h, source) /\ Visited(h, source, pos, nest)
  BY NestingElim DEF Base, Visiting
<1>2. Len(nest) \in Nat /\ Len(nest) <= Len(nest) /\ SubSeq(nest, 1, Len(nest)) = nest
  <2>1. nest \in Seq(Nat)
    BY <1>1, NestFacts
  <2>2. Len(nest) \in Nat /\ Len(nest) \in 0..Len(nest) /\ Len(nest) <= Len(nest)
    BY <2>1
  <2>3. PICK n : n = SubSeq(nest, 1, Len(nest))
    OBVIOUS
  <2>4. n \in Seq(Nat) /\ Len(n) = Len(nest) /\ \A k \in 1..Len(nest) : n[k] = nest[k]
    BY <2>1, <2>2, <2>3, FirstOf
  <2>5. n = nest
    BY <2>1, <2>4
  <2> QED BY <2>2, <2>3, <2>5
<1>3. PICK m \in Nat : m = Len(nest)
  BY <1>2
<1>4. m <= Len(nest) /\ SubSeq(nest, 1, m) = nest /\ Throw(scopes, m)
  BY <1>2, <1>3
<1>5. Ranked(scopes, pos) /\ Covers(scopes, EnclosingIn(source, pc, SubSeq(nest, 1, m)))
  BY <1>4 DEF Stack
<1> QED BY <1>1, <1>4, <1>5, ThrownStack

(* The error of a test block without one: the body has been left, and the  *)
(* block's own scope stays below the one that is popped.                   *)
LEMMA ThrowAtEndStack ==
  ASSUME Base, Stack, Visiting, At("end"), Throw(Shorter(scopes, 1), Len(nest) - 1)
  PROVE  Stack'
<1>1. PICK h : Legible(h, source) /\ Visited(h, source, pos, nest)
  BY NestingElim DEF Base, Visiting
<1>2. pos \in Nat /\ nest \in Seq(Nat) /\ Chain(nest, pos) /\ nest # <<>>
  BY <1>1, ChainFacts, AtFacts, NestMoves
<1>3. PICK k : k = Len(nest) /\ k \in DOMAIN nest /\ k - 1 \in Nat /\ k - 1 <= Len(nest)
  BY <1>2
<1>4. PICK o : o = 1 /\ o \in {1, Len(Pushed(nest[k]))}
  OBVIOUS
<1>5. pos <= pos
  BY <1>2
<1>6. /\ Ranked(Shorter(scopes, o), pos)
      /\ Covers(Shorter(scopes, o), EnclosingIn(source, pc, SubSeq(nest, 1, k - 1)))
  BY <1>2, <1>3, <1>4, <1>5, PopStack DEF Stack
<1>7. PICK m \in Nat : m = k - 1 /\ m <= Len(nest)
  BY <1>3
<1>8. PICK st : st = Shorter(scopes, 1)
  OBVIOUS
<1>9. /\ Ranked(st, pos) /\ Throw(st, m)
      /\ Covers(st, EnclosingIn(source, pc, SubSeq(nest, 1, m)))
  BY <1>3, <1>4, <1>6, <1>7, <1>8
<1> QED BY <1>1, <1>7, <1>9, ThrownStack

(* The stack when a construct opens, and when one ends.                    *)
LEMMA OpenedStack ==
  ASSUME Base, Stack, Visiting, \E op \in Openers : At(op),
         scopes' = scopes \o Pushed(pos), nest' = Append(nest, pos),
         pos' = pos + 1, source' = source, pc' = pc
  PROVE  Stack'
<1>1. PICK h : Legible(h, source) /\ Visited(h, source, pos, nest)
  BY NestingElim DEF Base, Visiting
<1>2. pos \in DOMAIN source /\ source[pos].op \in Openers
  BY <1>1, AtFacts
<1>3. /\ Ranked(scopes \o Pushed(pos), pos + 1)
      /\ Covers(scopes \o Pushed(pos), EnclosingIn(source, pc, Append(nest, pos)))
  BY <1>1, <1>2, OpenStack DEF Stack
<1>4. Ranked(scopes', pos') /\ Covers(scopes', EnclosingIn(source', pc', nest'))
  BY <1>3
<1> QED BY <1>4 DEF Stack

(* An end takes exactly the scopes off the stack that its opener pushed.   *)
LEMMA ClosedStack ==
  ASSUME Base, Stack, Visiting, At("end"),
         scopes' = Shorter(scopes, Len(Pushed(Last(nest)))), nest' = Shorter(nest, 1),
         pos' = pos + 1, source' = source, pc' = pc
  PROVE  Stack'
<1>1. PICK h : Legible(h, source) /\ Visited(h, source, pos, nest)
  BY NestingElim DEF Base, Visiting
<1>2. pos \in DOMAIN source /\ source[pos].op = "end"
  BY <1>1, AtFacts
<1>3. nest # <<>> /\ nest \in Seq(Nat) /\ pos \in Nat
  BY <1>1, <1>2, NestMoves, NestFacts
<1>4. PICK k : k = Len(nest) /\ k \in DOMAIN nest /\ Last(nest) = nest[k]
  BY <1>3 DEF Last
<1>5. PICK m : m = Len(Pushed(nest[k])) /\ m \in {1, Len(Pushed(nest[k]))}
  OBVIOUS
<1>6. pos + 1 \in Nat /\ pos <= pos + 1
  BY <1>3
<1>7. /\ Ranked(Shorter(scopes, m), pos + 1)
      /\ Covers(Shorter(scopes, m), EnclosingIn(source, pc, SubSeq(nest, 1, k - 1)))
  <2>1. Chain(nest, pos)
    BY <1>1, ChainFacts
  <2> QED BY <1>3, <1>4, <1>5, <1>6, <2>1, PopStack DEF Stack
<1>8. scopes' = Shorter(scopes, m) /\ nest' = SubSeq(nest, 1, k - 1)
  BY <1>4, <1>5 DEF Shorter
<1>9. Ranked(scopes', pos') /\ Covers(scopes', EnclosingIn(source', pc', nest'))
  BY <1>7, <1>8
<1> QED BY <1>9 DEF Stack

(* The stack when nothing is pushed or popped, and the pass is not behind. *)
LEMMA SameStack ==
  ASSUME Base, Stack, Visiting, scopes' = scopes, nest' = nest,
         pos' \in Nat, pos <= pos', source' = source, pc' = pc
  PROVE  Stack'
<1>1. PICK h : Legible(h, source) /\ Visited(h, source, pos, nest)
  BY NestingElim DEF Base, Visiting
<1>2. pos \in Nat
  BY <1>1, NestFacts
<1>3. Ranked(scopes, pos')
  <2>1. Ranked(scopes, pos)
    BY DEF Stack
  <2>2. \A k \in DOMAIN scopes : scopes[k][2] \in Nat
    <3>1. \A k \in DOMAIN scopes : scopes[k] \in AllScopes
      BY <2>1, SeqMember DEF Ranked
    <3> QED BY <3>1 DEF AllScopes
  <2>3. \A k \in DOMAIN scopes : scopes[k][2] < pos'
    BY <1>2, <2>1, <2>2 DEF Ranked
  <2> QED BY <2>1, <2>3 DEF Ranked
<1> QED BY <1>3 DEF Stack, Visiting

(* The last scope is popped, and the pass is over.                         *)
LEMMA LastStack ==
  ASSUME Base, Stack, Visiting, scopes' = Shorter(scopes, 1), pos' = pos,
         pc' = "accepted"
  PROVE  Stack'
<1>1. PICK h : Legible(h, source) /\ Visited(h, source, pos, nest)
  BY NestingElim DEF Base, Visiting
<1>2. pos \in Nat /\ pos <= pos
  BY <1>1, NestFacts
<1>3. scopes \in Seq(AllScopes) /\ scopes # <<>>
  BY DEF Stack, Ranked, Covers
<1>4. PICK m : m = 1 /\ m \in 0..Len(scopes)
  BY <1>3
<1>5. Ranked(Shorter(scopes, m), pos)
  BY <1>2, <1>4, RankedShorter DEF Stack
<1> QED BY <1>4, <1>5 DEF Stack, Visiting

(* The stack a pass starts with.                                           *)
LEMMA FirstStack ==
  ASSUME scopes' = <<Root>>, pos' = 1, nest' = <<>>
  PROVE  Stack'
<1>1. PICK st : st = <<Root>>
  OBVIOUS
<1>2. Ranked(st, 1)
  <2>1. st \in Seq(AllScopes) /\ DOMAIN st = {1} /\ st[1] = Root
    BY <1>1 DEF AllScopes, Root
  <2>2. st[1][2] < 1
    BY <2>1 DEF Root
  <2> QED BY <2>1, <2>2 DEF Ranked
<1>3. EnclosingIn(source', pc', <<>>) = {Root}
  BY DEF EnclosingIn
<1>4. Covers(st, {Root})
  BY <1>1 DEF Covers, ToSet
<1> QED BY <1>1, <1>2, <1>3, <1>4 DEF Stack

(* The stack is empty at first.                                            *)
LEMMA StackInit == Init => Stack
<1> SUFFICES ASSUME Init PROVE Stack
  OBVIOUS
<1>1. scopes = <<>> /\ ~Visiting
  BY DEF Init, Visiting
<1>2. Ranked(<<>>, pos)
  BY DEF Ranked
<1> QED BY <1>1, <1>2 DEF Stack

(* Every step keeps the stack in order.                                    *)
LEMMA StackStep == Base /\ Stack /\ [Next]_vars => Stack'
<1> SUFFICES ASSUME Base, Stack, [Next]_vars PROVE Stack'
  OBVIOUS
<1>a. Visiting => pos \in Nat /\ pos + 1 \in Nat /\ pos <= pos + 1
  <2>1. Visiting => \E h : Legible(h, source) /\ Visited(h, source, pos, nest)
    BY NestingElim DEF Base, Visiting
  <2>2. Visiting => pos \in Nat
    BY <2>1, NestFacts
  <2> QED BY <2>2
<1>1. CASE UNCHANGED vars
  BY <1>1 DEF vars, Stack, Visiting
<1>2. ASSUME NEW item \in Item, Write(item) PROVE Stack'
  <2>1. scopes' = <<>> /\ ~Visiting'
    BY <1>2 DEF Write, Base, Quiet, Visiting
  <2>2. Ranked(<<>>, pos')
    BY DEF Ranked
  <2> QED BY <2>1, <2>2 DEF Stack
<1>3. CASE BeginRegister
  BY <1>3, FirstStack DEF BeginRegister, Base, Quiet
<1>4. CASE RegisterOpen
  BY <1>4, OpenedStack DEF RegisterOpen, Visiting
<1>5. CASE RegisterBadTest
  BY <1>a, <1>5, SameStack DEF RegisterBadTest, Advance, Visiting
<1>6. CASE RegisterEnd
  BY <1>6, ClosedStack DEF RegisterEnd, Visiting
<1>7. CASE RegisterVar
  BY <1>a, <1>7, SameStack DEF RegisterVar, Advance, Visiting
<1>8. CASE RegisterRedeclared
  BY <1>8, ThrowStack DEF RegisterRedeclared, Visiting
<1>9. CASE RegisterOther
  BY <1>a, <1>9, SameStack DEF RegisterOther, Advance, Visiting
<1>10. ASSUME Visiting, pos = Len(source) + 1 PROVE nest = <<>>
  <2>1. PICK h : Legible(h, source) /\ Visited(h, source, pos, nest)
    BY <1>10, NestingElim DEF Base, Visiting
  <2>2. pos - 1 = Len(source)
    BY <1>10, <2>1, LegibleFacts
  <2> QED BY <2>1, <2>2 DEF Visited
<1>b. ASSUME Visiting, PrecheckPast \/ CheckSkipTest
      PROVE  pos' \in Nat /\ pos <= pos'
  <2>1. PICK h : Legible(h, source) /\ Visited(h, source, pos, nest)
    BY <1>b, NestingElim DEF Base, Visiting
  <2>2. pos \in DOMAIN source /\ source[pos].op # "end"
    BY <1>b, <2>1, PastItem DEF Base
  <2>3. Past \in Nat /\ Past > pos
    BY <2>1, <2>2, NestPast
  <2> QED BY <1>a, <1>b, <2>3 DEF PrecheckPast, CheckSkipTest
<1>21. CASE BeginPrecheck
  BY <1>10, <1>21, FirstStack DEF BeginPrecheck, Visiting
<1>22. CASE PrecheckOpen
  <2>1. \E op \in Openers : At(op)
    BY <1>22 DEF PrecheckOpen, Openers
  <2> QED BY <1>22, <2>1, OpenedStack DEF PrecheckOpen, Visiting
<1>23. CASE PrecheckEnd
  BY <1>23, ClosedStack DEF PrecheckEnd, Visiting
<1>24. CASE PrecheckPast
  BY <1>b, <1>24, SameStack DEF PrecheckPast, Visiting
<1>25. CASE PrecheckError
  BY <1>25, ThrowStack DEF PrecheckError, Visiting
<1>26. CASE BeginCheck
  BY <1>10, <1>26, FirstStack DEF BeginCheck, Visiting
<1>11. CASE CheckOpen
  BY <1>11, OpenedStack DEF CheckOpen, Visiting
<1>12. CASE CheckSkipTest
  BY <1>b, <1>12, SameStack DEF CheckSkipTest, Visiting
<1>13. CASE CheckEnd
  BY <1>13, ClosedStack DEF CheckEnd, Visiting
<1>14. CASE CheckTestWithoutError
  BY <1>14, ThrowAtEndStack DEF CheckTestWithoutError, Visiting
<1>15. CASE CheckUse
  BY <1>a, <1>15, SameStack DEF CheckUse, Advance, Visiting
<1>16. CASE CheckBreak
  BY <1>a, <1>16, SameStack DEF CheckBreak, Advance, Visiting
<1>17. CASE CheckReturn
  BY <1>a, <1>17, SameStack DEF CheckReturn, Advance, Visiting
<1>18. CASE CheckOther
  BY <1>a, <1>18, SameStack DEF CheckOther, Advance, Visiting
<1>19. CASE CheckError
  BY <1>19, ThrowStack DEF CheckError, Visiting
<1>20. CASE Accept
  BY <1>20, LastStack DEF Accept, Visiting
<1> QED BY <1>1, <1>2, <1>3, <1>4, <1>5, <1>6, <1>7, <1>8, <1>9, <1>11, <1>12, <1>13,
           <1>14, <1>15, <1>16, <1>17, <1>18, <1>19, <1>20, <1>21, <1>22, <1>23, <1>24,
           <1>25, <1>26 DEF Next

(* In every pass the scopes that enclose the item are on the stack, in the *)
(* order of the source and with the package first: no error that a test    *)
(* block catches makes pop_scope take away one of them.                    *)
THEOREM StackEncloses == Spec => []ScopesEnclose
<1>1. Init => Base /\ Stack
  BY BaseInit, StackInit
<1>2. Base /\ Stack /\ [Next]_vars => (Base /\ Stack)'
  BY BaseStep, StackStep
<1>3. Stack => ScopesEnclose
  <2>1. Enclosing = EnclosingIn(source, pc, nest)
    BY EnclosingIs
  <2> QED BY <2>1 DEF Stack, ScopesEnclose, Ranked, Covers, InOrder
<1> QED BY <1>1, <1>2, <1>3, PTL DEF Spec

-----------------------------------------------------------------------------
(* Without test blocks nothing else is on the stack.                       *)
Exact == TestFree /\ Visiting => ToSet(scopes) \subseteq EnclosingIn(source, pc, nest)

(* A scope is on the stack once.                                           *)
LEMMA RankedOnce ==
  ASSUME NEW st, NEW p \in Nat, Ranked(st, p), NEW j \in DOMAIN st, NEW k \in DOMAIN st,
         j < k
  PROVE  st[j] # st[k]
<1>1. st[j] \in AllScopes /\ IsOuter(st[j], st[k])
  BY SeqMember DEF Ranked
<1>2. st[j][2] \in Nat
  BY <1>1 DEF AllScopes
<1> QED BY <1>1, <1>2 DEF IsOuter

(* The scopes the innermost opener has pushed are the last of the stack.   *)
LEMMA PopExact ==
  ASSUME NEW h, Legible(h, source), Visited(h, source, pos, nest),
         Ranked(scopes, pos), Covers(scopes, EnclosingIn(source, pc, nest)),
         ToSet(scopes) \subseteq EnclosingIn(source, pc, nest),
         NEW k \in DOMAIN nest, k = Len(nest), NEW m, m = Len(Pushed(nest[k]))
  PROVE  ToSet(Shorter(scopes, m))
           \subseteq EnclosingIn(source, pc, SubSeq(nest, 1, k - 1))
<1>1. /\ pos \in Nat /\ nest \in Seq(Nat)
      /\ \A j \in DOMAIN nest : nest[j] \in Opens(source) /\ nest[j] \in 1..(pos - 1)
      /\ \A i, j \in DOMAIN nest : i < j => nest[i] < nest[j]
  BY NestFacts
<1>2. \A j \in DOMAIN nest : source[nest[j]].op \in Openers
  BY <1>1 DEF Opens
<1>3. PICK i \in Nat : i = nest[k] /\ i > 0 /\ source[i].op \in Openers
  BY <1>1, <1>2
<1>4. PICK t \in Seq(AllScopes) : t = PushedIn(source, pc, i)
                                  /\ (PushesOne(t, i) \/ PushesTwo(t, i))
  BY <1>3, PushedFacts
<1>5. m = Len(t)
  BY <1>3, <1>4, EnclosingIs
<1>d. DOMAIN t = 1..Len(t) /\ Len(t) \in Nat
  OBVIOUS
<1>6. ToSet(t) \subseteq ToSet(scopes)
  <2>1. ToSet(t) \subseteq EnclosingIn(source, pc, nest)
    BY <1>3, <1>4 DEF EnclosingIn
  <2> QED BY <2>1 DEF Covers
<1>7. Len(t) \in {1, 2} /\ HasOne(scopes, i) /\ (Len(t) = 2 => HasTwo(scopes, i))
  BY <1>1, <1>3, <1>4, <1>6, HasPushed
<1>8. /\ m \in 0..Len(scopes)
      /\ \A r \in DOMAIN scopes : scopes[r][2] < i => r \in 1..(Len(scopes) - m)
  BY <1>1, <1>5, <1>7, PopKeeps
<1>9. PICK u, a : u = Shorter(scopes, m) /\ a = Len(scopes)
  OBVIOUS
<1>10. /\ a \in Nat /\ DOMAIN scopes = 1..a /\ m \in {1, 2} /\ m \in 0..a
       /\ DOMAIN u = 1..(a - m)
       /\ \A r \in 1..(a - m) : u[r] = scopes[r]
  <2>1. pos <= pos
    BY <1>1
  <2>2. /\ DOMAIN u = 1..(a - m)
        /\ \A r \in 1..(a - m) : u[r] = scopes[r]
    BY <1>1, <1>8, <1>9, <2>1, RankedShorter
  <2>3. scopes \in Seq(AllScopes)
    BY DEF Ranked
  <2> QED BY <1>5, <1>7, <1>8, <1>9, <2>2, <2>3
<1>11. ASSUME NEW r \in 1..a
       PROVE  \/ scopes[r] \in ToSet(t)
              \/ /\ scopes[r] \in EnclosingIn(source, pc, SubSeq(nest, 1, k - 1))
                 /\ scopes[r][2] < i
  <2>1. scopes[r] \in EnclosingIn(source, pc, nest)
    BY <1>10 DEF ToSet
  <2>2. scopes[r] = Root \/ OfOpener(source, pc, nest, scopes[r])
    BY <1>1, <1>2, <2>1, EnclosingMember
  <2>3. CASE scopes[r] = Root
    <3>1. Root[2] < i
      BY <1>3 DEF Root
    <3> QED BY <2>3, <3>1 DEF EnclosingIn
  <2>4. CASE OfOpener(source, pc, nest, scopes[r])
    <3>1. PICK j \in DOMAIN nest :
            scopes[r] \in ToSet(PushedIn(source, pc, nest[j])) /\ scopes[r][2] = nest[j]
      BY <2>4 DEF OfOpener
    <3>2. CASE j = k
      BY <1>3, <1>4, <3>1, <3>2
    <3>3. CASE j # k
      <4>a. PICK b \in Nat : b = Len(nest) /\ k \in 1..b /\ j \in 1..b /\ k = b
        BY <1>1
      <4>c. b > 0 /\ j # b /\ j \in Nat
        BY <3>3, <4>a
      <4>d. PICK l \in Nat : l = b - 1
        BY <4>c
      <4>b. l = k - 1 /\ l \in 0..b /\ j \in 1..l /\ j < k
        BY <4>a, <4>c, <4>d
      <4>1. l = k - 1 /\ l \in 0..Len(nest) /\ j \in 1..l /\ j < k
        BY <4>a, <4>b
      <4>2. PICK n : n = SubSeq(nest, 1, l)
        OBVIOUS
      <4>3. n \in Seq(Nat) /\ Len(n) = l /\ n[j] = nest[j]
        BY <1>1, <4>1, <4>2, FirstOf
      <4>4. j \in DOMAIN n
        BY <4>1, <4>3
      <4>5. scopes[r] \in EnclosingIn(source, pc, n)
        BY <3>1, <4>3, <4>4 DEF EnclosingIn
      <4>6. nest[j] < i
        BY <1>1, <1>3, <4>1
      <4> QED BY <3>1, <4>1, <4>2, <4>5, <4>6
    <3> QED BY <3>2, <3>3
  <2> QED BY <2>2, <2>3, <2>4
<1>12. ASSUME NEW r \in 1..a, r \notin 1..(a - m)
       PROVE  scopes[r] \in ToSet(t)
  BY <1>8, <1>9, <1>10, <1>11, <1>12
<1>13. ASSUME NEW q \in 1..a, NEW r \in 1..a, q < r
       PROVE  scopes[q] # scopes[r]
  <2>1. q \in DOMAIN scopes /\ r \in DOMAIN scopes
    BY <1>10
  <2> QED BY <1>1, <1>13, <2>1, RankedOnce
<1>14. ASSUME NEW r \in 1..(a - m)
       PROVE  scopes[r] \notin ToSet(t)
  <2>1. CASE m = 1
    <3>1. \A x, y \in ToSet(t) : x = y
      <4>1. DOMAIN t = {1}
        <5>1. Len(t) = 1
          BY <1>5, <2>1
        <5> QED BY <1>d, <5>1
      <4> QED BY <4>1 DEF ToSet
    <3>2. a \in 1..a /\ a \notin 1..(a - m) /\ r < a /\ r \in 1..a
      BY <1>10, <2>1
    <3>3. scopes[a] \in ToSet(t) /\ scopes[r] # scopes[a]
      BY <1>12, <1>13, <3>2
    <3> QED BY <3>1, <3>3
  <2>2. CASE m = 2
    <3>1. \A x, y, z \in ToSet(t) : x = y \/ x = z \/ y = z
      <4>1. DOMAIN t = {1, 2}
        <5>1. Len(t) = 2
          BY <1>5, <2>2
        <5> QED BY <1>d, <5>1
      <4> QED BY <4>1 DEF ToSet
    <3>2. PICK b \in Nat : b = a - 1
      BY <1>10, <2>2
    <3>3. /\ a \in 1..a /\ a \notin 1..(a - m) /\ r < a /\ r \in 1..a
          /\ b \in 1..a /\ b \notin 1..(a - m) /\ r < b /\ b < a
      BY <1>10, <2>2, <3>2
    <3>4. scopes[a] \in ToSet(t) /\ scopes[b] \in ToSet(t)
      BY <1>12, <3>3
    <3>5. scopes[r] # scopes[a] /\ scopes[r] # scopes[b] /\ scopes[b] # scopes[a]
      BY <1>13, <3>3
    <3> QED BY <3>1, <3>4, <3>5
  <2> QED BY <1>10, <2>1, <2>2
<1>15. ASSUME NEW x \in ToSet(u)
       PROVE  x \in EnclosingIn(source, pc, SubSeq(nest, 1, k - 1))
  <2>1. PICK r \in 1..(a - m) : x = scopes[r]
    BY <1>10 DEF ToSet
  <2>2. r \in 1..a
    BY <1>10
  <2> QED BY <1>11, <1>14, <2>1, <2>2
<1> QED BY <1>9, <1>15

(* The steps that throw.                                                   *)
Throws == RegisterRedeclared \/ PrecheckError \/ CheckError \/ CheckTestWithoutError

LEMMA ThrowsFacts ==
  ASSUME NEW h, Legible(h, source), Visited(h, source, pos, nest), Throws
  PROVE  Visiting /\ \E s : \E m \in Nat : m <= Len(nest) /\ Throw(s, m)
<1>1. CASE RegisterRedeclared
  BY <1>1, ThrowDepth DEF RegisterRedeclared, Visiting
<1>2. CASE PrecheckError
  BY <1>2, ThrowDepth DEF PrecheckError, Visiting
<1>3. CASE CheckError
  BY <1>3, ThrowDepth DEF CheckError, Visiting
<1>4. CASE CheckTestWithoutError
  BY <1>4, ThrowDepth DEF CheckTestWithoutError, Visiting
<1> QED BY <1>1, <1>2, <1>3, <1>4 DEF Throws

(* An error is not caught without a test block.                            *)
LEMMA ThrowRejects ==
  ASSUME Base, Visiting, TestFree, Throws
  PROVE  pc' = "rejected" /\ source' = source
<1>1. PICK h : Legible(h, source) /\ Visited(h, source, pos, nest)
  BY NestingElim DEF Base, Visiting
<1>2. ASSUME NEW s, NEW m \in Nat, m <= Len(nest), Throw(s, m)
      PROVE  pc' = "rejected" /\ source' = source
  <2>1. CASE Uncaught(s)
    BY <2>1 DEF Uncaught
  <2>2. CASE \E k \in DOMAIN nest : source[nest[k]].op = "tce" /\ nest[k] \in DOMAIN source
    BY <2>2 DEF TestFree
  <2> QED BY <1>1, <1>2, <2>1, <2>2, ThrowFacts
<1> QED BY <1>1, <1>2, ThrowsFacts

(* Without test blocks no step leaves a scope on the stack that has ended. *)
LEMMA ExactStep == Base /\ Stack /\ Exact /\ [Next]_vars => Exact'
<1> SUFFICES ASSUME Base, Stack, Exact, [Next]_vars, TestFree', Visiting'
             PROVE  ToSet(scopes') \subseteq EnclosingIn(source', pc', nest')
  BY DEF Exact
<1>1. CASE UNCHANGED vars
  BY <1>1 DEF vars, Exact, Visiting, TestFree
<1>2. ASSUME NEW item \in Item, Write(item) PROVE FALSE
  BY <1>2 DEF Write, Visiting
<1>3. CASE BeginRegister \/ BeginPrecheck \/ BeginCheck
  <2>1. scopes' = <<Root>>
    BY <1>3 DEF BeginRegister, BeginPrecheck, BeginCheck
  <2>2. ToSet(scopes') = {Root}
    BY <2>1 DEF ToSet
  <2> QED BY <2>2 DEF EnclosingIn
<1>4. CASE RegisterOpen \/ PrecheckOpen \/ CheckOpen
  <2>1. /\ scopes' = scopes \o Pushed(pos) /\ nest' = Append(nest, pos)
        /\ source' = source /\ pc' = pc /\ \E op \in Openers : At(op)
        /\ Visiting
    BY <1>4 DEF RegisterOpen, PrecheckOpen, CheckOpen, Visiting, Openers
  <2>2. PICK h : Legible(h, source) /\ Visited(h, source, pos, nest)
    BY <2>1, NestingElim DEF Base, Visiting
  <2>3. source[pos].op \in Openers /\ pos \in Nat /\ nest \in Seq(Nat)
    BY <2>1, <2>2, AtFacts, NestFacts
  <2>4. PICK t : t = PushedIn(source, pc, pos) /\ t = Pushed(pos)
    BY EnclosingIs
  <2>5. Grows(scopes \o t, scopes, t)
    BY <2>3, <2>4, RankedAppend DEF Stack
  <2>6. EnclosingIn(source, pc, Append(nest, pos)) = EnclosingIn(source, pc, nest) \cup ToSet(t)
    <3>1. EnclosingIn(source, pc, Append(nest, pos))
            = EnclosingIn(source, pc, nest) \cup ToSet(PushedIn(source, pc, pos))
      BY <2>3, EnclosingGrows
    <3> QED BY <2>4, <3>1
  <2>7. TestFree
    BY <2>1 DEF TestFree
  <2>8. ToSet(scopes) \subseteq EnclosingIn(source, pc, nest)
    BY <2>1, <2>7 DEF Exact
  <2>9. ToSet(scopes') = ToSet(scopes) \cup ToSet(t)
    BY <2>1, <2>4, <2>5 DEF Grows
  <2> QED BY <2>1, <2>6, <2>8, <2>9
<1>5. CASE RegisterEnd \/ PrecheckEnd \/ CheckEnd
  <2>1. /\ scopes' = Shorter(scopes, Len(Pushed(Last(nest)))) /\ nest' = Shorter(nest, 1)
        /\ source' = source /\ pc' = pc /\ At("end") /\ Visiting
    BY <1>5 DEF RegisterEnd, PrecheckEnd, CheckEnd, Visiting
  <2>2. PICK h : Legible(h, source) /\ Visited(h, source, pos, nest)
    BY <2>1, NestingElim DEF Base, Visiting
  <2>3. nest # <<>> /\ nest \in Seq(Nat)
    BY <2>1, <2>2, AtFacts, NestMoves, NestFacts
  <2>4. PICK k : k = Len(nest) /\ k \in DOMAIN nest /\ Last(nest) = nest[k]
    BY <2>3 DEF Last
  <2>5. TestFree
    BY <2>1 DEF TestFree
  <2>6. PICK m : m = Len(Pushed(nest[k]))
    OBVIOUS
  <2>7. ToSet(Shorter(scopes, m)) \subseteq EnclosingIn(source, pc, SubSeq(nest, 1, k - 1))
    BY <2>1, <2>2, <2>4, <2>5, <2>6, PopExact DEF Exact, Stack
  <2> QED BY <2>1, <2>4, <2>6, <2>7 DEF Shorter
<1>6. CASE Throws
  <2>1. PICK h : Legible(h, source) /\ Visited(h, source, pos, nest)
    <3>1. pc # "writing"
      BY <1>6 DEF Throws, RegisterRedeclared, PrecheckError, CheckError,
         CheckTestWithoutError
    <3> QED BY <3>1, NestingElim DEF Base
  <2>2. PICK s, m : m \in Nat /\ m <= Len(nest) /\ Throw(s, m) /\ Visiting
    BY <1>6, <2>1, ThrowsFacts
  <2>3. source' = source
    BY <2>1, <2>2, ThrowMoves DEF Visiting
  <2>4. TestFree
    BY <2>3 DEF TestFree
  <2>5. pc' = "rejected"
    BY <1>6, <2>2, <2>4, ThrowRejects
  <2> QED BY <2>5 DEF Visiting
<1>7. CASE Accept
  BY <1>7 DEF Accept, Visiting
<1>8. CASE \/ RegisterBadTest \/ RegisterVar \/ RegisterOther \/ PrecheckPast
           \/ CheckSkipTest \/ CheckUse \/ CheckBreak \/ CheckReturn \/ CheckOther
  <2>1. scopes' = scopes /\ nest' = nest /\ source' = source /\ pc' = pc
    BY <1>8 DEF RegisterBadTest, RegisterVar, RegisterOther, PrecheckPast, CheckSkipTest,
         CheckUse, CheckBreak, CheckReturn, CheckOther, Advance
  <2> QED BY <2>1 DEF Exact, TestFree, Visiting
<1> QED BY <1>1, <1>2, <1>3, <1>4, <1>5, <1>6, <1>7, <1>8 DEF Next, Throws

(* Without test blocks the stack is what the braces say: the scopes around *)
(* the item, each once and in the order of the source.                     *)
THEOREM StackIsExact == Spec => []ScopesExact
<1>1. Init => Base /\ Stack /\ Exact
  BY BaseInit, StackInit DEF Exact, Init, Visiting
<1>2. Base /\ Stack /\ Exact /\ [Next]_vars => (Base /\ Stack /\ Exact)'
  BY BaseStep, StackStep, ExactStep
<1>3. Stack /\ Exact => ScopesExact
  <2>1. Enclosing = EnclosingIn(source, pc, nest)
    BY EnclosingIs
  <2> QED BY <2>1 DEF Stack, Exact, ScopesExact, Ranked, Covers, InOrder
<1> QED BY <1>1, <1>2, <1>3, PTL DEF Spec

-----------------------------------------------------------------------------
(* The items that are, or stand in, a test block of c.                     *)
Failed(c) == {i \in DOMAIN source : ({i} \cup Around(i)) \cap c # {}}
Failing == Failed(caught)

(* What a pass has seen of the test blocks has failed, or is still open.   *)
Seen(s, f, n, p) ==
  \A i \in DOMAIN s : i < p /\ s[i].op = "tce" => i \in f \/ \E k \in DOMAIN n : n[k] = i

TestsSeen ==
  /\ pc # "writing" => \A i \in DOMAIN source : source[i].op = "bad_tce" => i \in caught
  /\ pc \in {"checking", "accepted"} => Seen(source, Failing, nest, pos)

(* What has failed, in the same source.                                    *)
LEMMA FailingNext ==
  ASSUME source' = source, NEW c, c = caught'
  PROVE  Failing' = Failed(c)
BY DEF Failing, Failed, Around, EndOf, Opened, Closed

LEMMA FailedGrows ==
  ASSUME NEW c, NEW d, c \subseteq d
  PROVE  Failed(c) \subseteq Failed(d)
BY DEF Failed

(* Inside a test block that failed everything has.                         *)
LEMMA InsideFailed ==
  ASSUME NEW h, Legible(h, source), h[Len(source)] = <<>>,
         NEW i \in Opens(source), NEW j \in (i + 1)..EndOf(i), source[j].op = "tce",
         NEW c, i \in c
  PROVE  j \in DOMAIN source /\ j \in Failed(c)
<1>1. /\ i \in 1..Len(source) /\ EndOf(i) \in i..Len(source)
      /\ IsEnd(Opens(source), Ends(source), i, Len(source), EndOf(i))
  BY EndOfIs
<1>2. /\ Len(source) \in Nat /\ DOMAIN source = 1..Len(source)
      /\ IsHistory(h, Opens(source), Ends(source), Len(source))
  BY LegibleFacts DEF Legible
<1>3. IsAround(h, i, j)
  BY <1>1, <1>2, InsideOne
<1>4. j \in 1..Len(source) /\ j \in DOMAIN source /\ i \in 1..(j - 1)
  BY <1>1, <1>2
<1>5. j \notin Ends(source)
  BY DEF Ends
<1>6. EndOf(i) > j
  BY <1>1, <1>2, <1>3, <1>4, <1>5, AroundIs
<1>7. i \in Around(j)
  BY <1>4, <1>6 DEF Around, Opens
<1> QED BY <1>4, <1>7 DEF Failed

(* What is caught stays caught.                                            *)
LEMMA CaughtStays ==
  ASSUME NEW h, Legible(h, source), Visited(h, source, pos, nest), pc # "writing", Next
  PROVE  caught \subseteq caught'
<1>1. ASSUME NEW s, NEW m \in Nat, m <= Len(nest), Throw(s, m)
      PROVE  caught \subseteq caught'
  BY <1>1, ThrowFacts DEF Uncaught, CaughtAt
<1>2. CASE Throws
  BY <1>1, <1>2, ThrowsFacts
<1>3. CASE ~Throws
  <2>1. caught' = caught
    BY <1>3 DEF Next, Throws, Write, BeginRegister, RegisterOpen, RegisterBadTest,
         RegisterEnd, RegisterVar, RegisterOther, BeginPrecheck, PrecheckOpen, PrecheckEnd,
         PrecheckPast, BeginCheck, CheckOpen, CheckSkipTest, CheckEnd, CheckUse, CheckBreak,
         CheckReturn, CheckOther, Accept
  <2> QED BY <2>1
<1> QED BY <1>2, <1>3

(* A test block that ends with an error, or is skipped: what is behind it. *)
LEMMA SeenBehind ==
  ASSUME NEW h, Legible(h, source), Visited(h, source, pos, nest),
         Seen(source, Failing, nest, pos),
         NEW i \in Opens(source), EndOf(i) \in Nat,
         NEW c, caught \subseteq c, i \in c, NEW n,
         \A k \in DOMAIN nest : nest[k] < i => \E j \in DOMAIN n : n[j] = nest[k],
         i <= pos
  PROVE  Seen(source, Failed(c), n, EndOf(i) + 1)
<1>0. DOMAIN source = 1..Len(source) /\ Len(source) \in Nat /\ pos \in Nat
      /\ h[Len(source)] = <<>>
  BY LegibleFacts, NestFacts DEF Visited
<1>1. SUFFICES ASSUME NEW j \in DOMAIN source, j < EndOf(i) + 1, source[j].op = "tce",
                      j \notin Failed(c)
               PROVE  \E k \in DOMAIN n : n[k] = j
  BY DEF Seen
<1>2. i \in Nat /\ j \in Nat /\ j # i
  BY <1>0, <1>1 DEF Opens, Failed
<1>3. j < i
  <2>1. ASSUME i < j PROVE FALSE
    <3>1. j \in (i + 1)..EndOf(i)
      BY <1>1, <1>2, <2>1
    <3> QED BY <1>0, <1>1, <3>1, InsideFailed
  <2> QED BY <1>2, <2>1
<1>4. j < pos
  BY <1>0, <1>2, <1>3
<1>5. j \notin Failing
  BY <1>1, FailedGrows DEF Failing
<1>6. PICK k \in DOMAIN nest : nest[k] = j
  BY <1>1, <1>4, <1>5 DEF Seen
<1> QED BY <1>3, <1>6

(* An item that opens no test block is passed.                             *)
LEMMA SeenNext ==
  ASSUME NEW h, Legible(h, source), Visited(h, source, pos, nest), NEW f,
         Seen(source, f, nest, pos),
         NEW n, pos \in DOMAIN source,
         source[pos].op = "tce" => \E j \in DOMAIN n : n[j] = pos,
         \A k \in DOMAIN nest : source[nest[k]].op = "tce" =>
           \E j \in DOMAIN n : n[j] = nest[k]
  PROVE  Seen(source, f, n, pos + 1)
<1>0. DOMAIN source = 1..Len(source) /\ Len(source) \in Nat /\ pos \in Nat
  BY LegibleFacts, NestFacts
<1>1. SUFFICES ASSUME NEW j \in DOMAIN source, j < pos + 1, source[j].op = "tce",
                      j \notin f
               PROVE  \E k \in DOMAIN n : n[k] = j
  BY DEF Seen
<1>2. j = pos \/ j < pos
  BY <1>0, <1>1
<1>3. CASE j = pos
  BY <1>1, <1>3
<1>4. CASE j < pos
  <2>1. PICK k \in DOMAIN nest : nest[k] = j
    BY <1>1, <1>4 DEF Seen
  <2> QED BY <1>1, <2>1
<1> QED BY <1>2, <1>3, <1>4

(* An error that is caught: the blocks behind the pass are those before    *)
(* the one that catches it, and that one with all it holds.                *)
LEMMA SeenThrow ==
  ASSUME NEW h, Legible(h, source), Visited(h, source, pos, nest),
         Seen(source, Failing, nest, pos), NEW s, NEW k \in DOMAIN nest, CaughtAt(s, k)
  PROVE  \E c : c = caught' /\ Seen(source, Failed(c), nest', pos')
<1>0. pos \in Nat /\ nest \in Seq(Nat)
  BY NestFacts
<1>1. PICK i : i = nest[k]
  OBVIOUS
<1>2. /\ i \in Opens(source) /\ i \in 1..(pos - 1)
      /\ \A j \in DOMAIN nest : nest[j] \in Nat
      /\ \A j, m \in DOMAIN nest : j < m => nest[j] < nest[m]
  BY <1>1, NestFacts
<1>3. EndOf(i) \in Nat /\ i <= pos
  BY <1>0, <1>1, <1>2, NestJumps
<1>4. PICK l \in Nat : l = k - 1 /\ l \in 0..Len(nest)
  BY <1>0
<1>5. PICK n : n = SubSeq(nest, 1, l)
  OBVIOUS
<1>6. n \in Seq(Nat) /\ Len(n) = l /\ \A j \in 1..l : n[j] = nest[j]
  BY <1>0, <1>4, <1>5, FirstOf
<1>7. ASSUME NEW m \in DOMAIN nest, nest[m] < i
      PROVE  \E j \in DOMAIN n : n[j] = nest[m]
  <2>1. m \in Nat /\ m > 0 /\ k \in Nat
    BY <1>0
  <2>2. m < k
    BY <1>1, <1>2, <1>7, <2>1
  <2>3. m \in 1..l
    BY <1>4, <2>1, <2>2
  <2> QED BY <1>6, <2>3
<1>8. PICK c : c = caught' /\ caught \subseteq c /\ i \in c
  BY <1>1 DEF CaughtAt
<1>9. Seen(source, Failed(c), n, EndOf(i) + 1)
  BY <1>2, <1>3, <1>7, <1>8, SeenBehind
<1>10. nest' = n /\ pos' = EndOf(i) + 1
  BY <1>1, <1>4, <1>5 DEF CaughtAt
<1> QED BY <1>8, <1>9, <1>10

(* Every step keeps what the visitors know of test blocks.                 *)
LEMMA TestsSeenStep == Base /\ TestsSeen /\ [Next]_vars => TestsSeen'
<1> SUFFICES ASSUME Base, TestsSeen, [Next]_vars PROVE TestsSeen'
  OBVIOUS
<1>1. CASE UNCHANGED vars
  BY <1>1 DEF vars, TestsSeen, Failing, Failed, Around, EndOf, Opened, Closed
<1>2. ASSUME NEW item \in Item, Write(item) PROVE TestsSeen'
  BY <1>2 DEF Write, TestsSeen
<1>3. CASE BeginRegister
  BY <1>3 DEF BeginRegister, TestsSeen
<1>4. ASSUME pc # "writing", Next PROVE TestsSeen'
  <2>1. PICK h : Legible(h, source) /\ Visited(h, source, pos, nest)
    BY <1>4, NestingElim DEF Base
  <2>2. source' = source /\ caught \subseteq caught'
    BY <1>4, <2>1, PassMoves, CaughtStays DEF Base
  <2>c. PICK c : c = caught' /\ caught \subseteq c
    BY <2>2
  <2>3. \A i \in DOMAIN source' : source'[i].op = "bad_tce" => i \in caught'
    BY <1>4, <2>2 DEF TestsSeen
  <2>4. DOMAIN source = 1..Len(source) /\ Len(source) \in Nat /\ pos \in Nat
        /\ nest \in Seq(Nat)
    BY <2>1, LegibleFacts, NestFacts
  <2>5. ASSUME pc = "checking", pc' = "checking"
        PROVE  Seen(source, Failed(c), nest', pos')
    <3>0. Seen(source, Failing, nest, pos)
      BY <2>5 DEF TestsSeen
    <3>a. ASSUME caught' = caught PROVE Failed(c) = Failing
      BY <2>c, <3>a DEF Failing
    <3>1. CASE CheckOpen
      <4>1. pos \in DOMAIN source
        BY <2>1, <3>1, AtFacts DEF CheckOpen
      <4>2. PICK n : n = Append(nest, pos)
        OBVIOUS
      <4>3. /\ \E j \in DOMAIN n : n[j] = pos
            /\ \A k \in DOMAIN nest : \E j \in DOMAIN n : n[j] = nest[k]
        <5>1. PICK l \in Nat : l = Len(nest) /\ DOMAIN nest = 1..l
          BY <2>4
        <5>2. /\ l + 1 \in DOMAIN n /\ n[l + 1] = pos
              /\ \A k \in 1..l : k \in DOMAIN n /\ n[k] = nest[k]
          BY <2>4, <4>2, <5>1
        <5> QED BY <5>1, <5>2
      <4>4. Seen(source, Failing, n, pos + 1)
        BY <2>1, <3>0, <4>1, <4>3, SeenNext
      <4> QED BY <3>1, <3>a, <4>2, <4>4 DEF CheckOpen
    <3>2. CASE CheckEnd
      <4>1. pos \in DOMAIN source /\ source[pos].op = "end"
        BY <2>1, <3>2, AtFacts DEF CheckEnd
      <4>2. nest # <<>> /\ source[Last(nest)].op # "tce"
        BY <2>1, <3>2, <4>1, NestMoves DEF CheckEnd
      <4>a. PICK b \in Nat : b = Len(nest) /\ b # 0
        BY <2>4, <4>2
      <4>b. PICK l \in Nat : l = b - 1 /\ l \in 0..b /\ l + 1 = b
        BY <4>a
      <4>3. l = Len(nest) - 1 /\ l \in 0..Len(nest) /\ l + 1 = Len(nest)
        BY <4>a, <4>b
      <4>4. PICK n : n = Shorter(nest, 1) /\ n = SubSeq(nest, 1, l)
        BY <4>3 DEF Shorter
      <4>5. n \in Seq(Nat) /\ Len(n) = l /\ \A j \in 1..l : n[j] = nest[j]
        <5>1. nest \in Seq(Nat) /\ l \in 0..Len(nest)
          BY <2>4, <4>3
        <5> QED BY <4>4, <5>1, FirstOf
      <4>6. ASSUME NEW k \in DOMAIN nest, source[nest[k]].op = "tce"
            PROVE  \E j \in DOMAIN n : n[j] = nest[k]
        <5>1. k # l + 1
          BY <4>2, <4>3, <4>6 DEF Last
        <5>2. k \in 1..l
          BY <2>4, <4>3, <5>1
        <5> QED BY <4>5, <5>2
      <4>7. Seen(source, Failing, n, pos + 1)
        BY <2>1, <3>0, <4>1, <4>6, SeenNext
      <4> QED BY <3>2, <3>a, <4>4, <4>7 DEF CheckEnd
    <3>3. CASE CheckSkipTest
      <4>1. pos \in DOMAIN source /\ source[pos].op \in TestOps /\ pos \in caught
        BY <3>3 DEF CheckSkipTest, Base, CaughtTests
      <4>2. CASE source[pos].op = "bad_tce"
        <5>1. pos' = pos + 1 /\ nest' = nest /\ caught' = caught
          BY <3>3, <4>2 DEF CheckSkipTest, Past, Openers
        <5>2. Seen(source, Failing, nest, pos + 1)
          BY <2>1, <3>0, <4>1, <4>2, SeenNext
        <5> QED BY <3>a, <5>1, <5>2
      <4>3. CASE source[pos].op = "tce"
        <5>1. pos' = EndOf(pos) + 1 /\ nest' = nest /\ caught' = caught
          BY <3>3, <4>3 DEF CheckSkipTest, Past, Openers
        <5>2. pos \in Opens(source)
          BY <4>1, <4>3 DEF Opens, Openers
        <5>3. EndOf(pos) \in Nat /\ pos <= pos /\ pos \in c
          BY <2>1, <2>4, <2>c, <4>1, <5>2, NestSkips
        <5>4. Seen(source, Failed(c), nest, EndOf(pos) + 1)
          BY <2>1, <2>c, <3>0, <5>2, <5>3, SeenBehind
        <5> QED BY <5>1, <5>4
      <4> QED BY <4>1, <4>2, <4>3 DEF TestOps
    <3>4. CASE Throws
      <4>1. PICK s, m : m \in Nat /\ m <= Len(nest) /\ Throw(s, m)
        BY <2>1, <3>4, ThrowsFacts
      <4>2. ~Uncaught(s)
        BY <2>5 DEF Uncaught
      <4>3. PICK k \in DOMAIN nest : CaughtAt(s, k)
        BY <2>1, <4>1, <4>2, ThrowFacts
      <4> QED BY <2>1, <2>c, <3>0, <4>3, SeenThrow
    <3>5. CASE CheckUse \/ CheckBreak \/ CheckReturn \/ CheckOther
      <4>1. At("use") \/ At("break") \/ At("return") \/ At("var") \/ At("import")
        BY <3>5 DEF CheckUse, CheckBreak, CheckReturn, CheckOther
      <4>2. pos \in DOMAIN source /\ source[pos].op # "tce"
        BY <2>1, <4>1, AtFacts
      <4>3. Seen(source, Failing, nest, pos + 1)
        BY <2>1, <3>0, <4>2, SeenNext
      <4>4. pos' = pos + 1 /\ nest' = nest /\ caught' = caught
        BY <3>5 DEF CheckUse, CheckBreak, CheckReturn, CheckOther, Advance
      <4> QED BY <3>a, <4>3, <4>4
    <3>6. \/ CheckOpen \/ CheckEnd \/ CheckSkipTest \/ Throws \/ CheckUse \/ CheckBreak
          \/ CheckReturn \/ CheckOther
      BY <1>4, <2>5 DEF Next, Throws, Write, BeginRegister, RegisterOpen, RegisterBadTest,
         RegisterEnd, RegisterVar, RegisterRedeclared, RegisterOther, BeginPrecheck,
         PrecheckOpen, PrecheckEnd, PrecheckPast, BeginCheck, Accept
    <3> QED BY <3>1, <3>2, <3>3, <3>4, <3>5, <3>6
  <2>6. ASSUME pc # "checking", pc' = "checking"
        PROVE  Seen(source, Failed(c), nest', pos')
    <3>1. BeginCheck
      <4>1. ASSUME NEW s, NEW m, Throw(s, m) PROVE pc' = pc \/ pc' = "rejected"
        BY <4>1 DEF Throw
      <4>2. ~Throws
        BY <2>1, <2>6, <4>1, ThrowsFacts
      <4> QED BY <1>4, <2>6, <4>2 DEF Next, Throws, Write, BeginRegister, RegisterOpen,
         RegisterBadTest, RegisterEnd, RegisterVar, RegisterOther, BeginPrecheck,
         PrecheckOpen, PrecheckEnd, PrecheckPast, CheckOpen, CheckSkipTest, CheckEnd,
         CheckUse, CheckBreak, CheckReturn, CheckOther, Accept, Advance
    <3>2. pos' = 1
      BY <3>1 DEF BeginCheck
    <3>3. \A i \in DOMAIN source : ~(i < 1)
      BY <2>4
    <3> QED BY <3>2, <3>3 DEF Seen
  <2>7. ASSUME pc' = "accepted"
        PROVE  Seen(source, Failed(c), nest', pos')
    <3>1. ASSUME NEW s, NEW m, Throw(s, m) PROVE pc' = pc \/ pc' = "rejected"
      BY <3>1 DEF Throw
    <3>2. ASSUME Throws PROVE FALSE
      <4>1. pc # "accepted"
        BY <3>2 DEF Throws, RegisterRedeclared, PrecheckError, CheckError,
           CheckTestWithoutError
      <4> QED BY <2>1, <2>7, <3>1, <3>2, <4>1, ThrowsFacts
    <3>3. Accept
      BY <1>4, <2>7, <3>2 DEF Next, Throws, Write, BeginRegister, RegisterOpen,
         RegisterBadTest, RegisterEnd, RegisterVar, RegisterOther, BeginPrecheck,
         PrecheckOpen, PrecheckEnd, PrecheckPast, BeginCheck, CheckOpen, CheckSkipTest,
         CheckEnd, CheckUse, CheckBreak, CheckReturn, CheckOther, Advance
    <3>4. pc = "checking" /\ UNCHANGED <<pos, nest, caught>>
      BY <3>3 DEF Accept
    <3>5. Seen(source, Failing, nest, pos)
      BY <3>4 DEF TestsSeen
    <3>6. Failed(c) = Failing
      BY <2>c, <3>4 DEF Failing
    <3> QED BY <3>4, <3>5, <3>6
  <2>8. Failing' = Failed(c)
    BY <2>2, <2>c, FailingNext
  <2>9. pc' \in {"checking", "accepted"} => Seen(source', Failing', nest', pos')
    BY <2>2, <2>5, <2>6, <2>7, <2>8
  <2> QED BY <2>3, <2>9 DEF TestsSeen
<1>5. CASE pc = "writing" /\ Next
  <2>1. (\E item \in Item : Write(item)) \/ BeginRegister
    BY <1>5 DEF Next, RegisterOpen, RegisterBadTest, RegisterEnd, RegisterVar,
         RegisterRedeclared, RegisterOther, BeginPrecheck, PrecheckOpen, PrecheckEnd,
         PrecheckPast, PrecheckError, BeginCheck, CheckOpen, CheckSkipTest, CheckEnd,
         CheckTestWithoutError, CheckUse, CheckBreak, CheckReturn, CheckOther, CheckError,
         Accept
  <2> QED BY <1>2, <1>3, <2>1
<1> QED BY <1>1, <1>4, <1>5

(* TypeCheck goes on behind a test block only if the block, or one around  *)
(* it, has had an error, in whichever pass; so it is for every test block  *)
(* of an accepted source.                                                  *)
THEOREM TestsFailed == Spec => []EveryTestFailed
<1>1. Init => Base /\ TestsSeen
  BY BaseInit DEF Init, TestsSeen
<1>2. Base /\ TestsSeen /\ [Next]_vars => (Base /\ TestsSeen)'
  BY BaseStep, TestsSeenStep
<1>3. TestsSeen => EveryTestFailed
  <2> SUFFICES ASSUME TestsSeen, pc \in {"checking", "accepted"},
                      NEW i \in DOMAIN source, Passed(i)
               PROVE  ({i} \cup Around(i)) \cap caught # {}
    BY DEF EveryTestFailed
  <2>1. CASE source[i].op = "bad_tce"
    BY <2>1 DEF TestsSeen
  <2>2. CASE source[i].op = "tce"
    <3>1. ~\E k \in DOMAIN nest : nest[k] = i
      BY DEF Passed, ToSet
    <3>2. i \in Failing
      BY <2>2, <3>1 DEF TestsSeen, Seen, Passed
    <3> QED BY <3>2 DEF Failing, Failed
  <2> QED BY <2>1, <2>2 DEF Passed
<1> QED BY <1>1, <1>2, <1>3, PTL DEF Spec
-----------------------------------------------------------------------------
(* What the braces say of the source, without test blocks: the items that  *)
(* are faulty in either pass, all declarations with their scopes, and what *)
(* a name may lead to.                                                     *)
Wrong == {i \in DOMAIN source : Redeclared(i)}
Lost == {i \in DOMAIN source : Unknown(i) \/ Misplaced(i)}

Variables == {i \in DOMAIN source : source[i].op = "var"}
Arguments == {i \in DOMAIN source : source[i].op = "fn" /\ source[i].name # NoVar}
AllDecls ==
  {<< <<"compound", Home(i)>>, source[i].name, i>> : i \in Variables}
    \cup {<< <<"fn", i>>, source[i].name, i>> : i \in Arguments}

Having(i, x) == {j \in Around(i) : LocalsOf(j, x) \cup ArgOf(j, x) # {}}
LeadsTo(i, d) ==
  \E j \in Having(i, source[i].name) :
    /\ \A k \in Having(i, source[i].name) : k <= j
    /\ d \in IF LocalsOf(j, source[i].name) # {} THEN LocalsOf(j, source[i].name)
             ELSE ArgOf(j, source[i].name)
Answers == {r \in (DOMAIN source) \X (DOMAIN source) : LeadsTo(r[1], r[2])}

(* It does not change while the source is visited.                         *)
LEMMA SameBraces ==
  ASSUME source' = source
  PROVE  /\ Wrong' = Wrong /\ Lost' = Lost
         /\ AllDecls' = AllDecls /\ Answers' = Answers
<1>1. Wrong' = Wrong
  BY DEF Wrong, Redeclared, LocalsOf, Home, Around, EndOf, Opened, Closed
<1>2. Lost' = Lost
  BY DEF Lost, Unknown, Misplaced, Inside, LocalsOf, ArgOf, Home, Around, EndOf, Opened,
     Closed
<1>3. AllDecls' = AllDecls
  BY DEF AllDecls, Variables, Arguments, Home, Around, EndOf, Opened, Closed
<1>4. Answers' = Answers
  BY DEF Answers, LeadsTo, Having, LocalsOf, ArgOf, Home, Around, EndOf, Opened, Closed
<1> QED BY <1>1, <1>2, <1>3, <1>4

(* Without test blocks: what RegisterDeclarations has declared of it, what *)
(* each pass has found, and the verdicts.                                  *)
Names ==
  TestFree =>
    /\ pc = "registering" => /\ decls = {d \in AllDecls : d[3] < pos}
                             /\ \A i \in Wrong : ~(i < pos)
    /\ pc = "prechecking" => decls = AllDecls /\ Wrong = {} /\ nest = <<>>
    /\ pc = "checking" => /\ decls = AllDecls /\ Wrong = {}
                          /\ \A i \in Lost : ~(i < pos)
    /\ pc = "accepted" => Wrong = {} /\ Lost = {}
    /\ pc = "rejected" => Wrong \cup Lost # {}
    /\ found \subseteq Answers

-----------------------------------------------------------------------------
(* The declarations of one scope, and of one item.                         *)
LEMMA DeclsOfScope ==
  /\ \A j, x : {d \in AllDecls : d[1] = <<"compound", j>> /\ d[2] = x}
                 = {<< <<"compound", j>>, x, i>> : i \in LocalsOf(j, x)}
  /\ \A j, x : x # NoVar =>
       {d \in AllDecls : d[1] = <<"fn", j>> /\ d[2] = x}
         = {<< <<"fn", j>>, x, i>> : i \in ArgOf(j, x) \cap DOMAIN source}
  /\ \A d \in AllDecls : /\ d[1][1] \in {"compound", "fn"}
                         /\ d[3] \in DOMAIN source /\ d[2] = source[d[3]].name
<1>1. \A d \in AllDecls :
        \/ \E i \in Variables : d = << <<"compound", Home(i)>>, source[i].name, i>>
        \/ \E i \in Arguments : d = << <<"fn", i>>, source[i].name, i>>
  BY DEF AllDecls
<1>2. ASSUME NEW j, NEW x
      PROVE  {d \in AllDecls : d[1] = <<"compound", j>> /\ d[2] = x}
               = {<< <<"compound", j>>, x, i>> : i \in LocalsOf(j, x)}
  <2>1. ASSUME NEW d \in AllDecls, d[1] = <<"compound", j>>, d[2] = x
        PROVE  \E i \in LocalsOf(j, x) : d = << <<"compound", j>>, x, i>>
    <3>1. PICK i \in Variables : d = << <<"compound", Home(i)>>, source[i].name, i>>
      <4>1. ~\E i \in Arguments : d = << <<"fn", i>>, source[i].name, i>>
        BY <2>1
      <4> QED BY <1>1, <4>1
    <3>2. Home(i) = j /\ source[i].name = x
      BY <2>1, <3>1
    <3> QED BY <3>1, <3>2 DEF Variables, LocalsOf
  <2>2. ASSUME NEW i \in LocalsOf(j, x)
        PROVE  << <<"compound", j>>, x, i>> \in AllDecls
    BY DEF LocalsOf, AllDecls, Variables
  <2> QED BY <2>1, <2>2
<1>3. ASSUME NEW j, NEW x, x # NoVar
      PROVE  {d \in AllDecls : d[1] = <<"fn", j>> /\ d[2] = x}
               = {<< <<"fn", j>>, x, i>> : i \in ArgOf(j, x) \cap DOMAIN source}
  <2>1. ASSUME NEW d \in AllDecls, d[1] = <<"fn", j>>, d[2] = x
        PROVE  \E i \in ArgOf(j, x) \cap DOMAIN source : d = << <<"fn", j>>, x, i>>
    <3>1. PICK i \in Arguments : d = << <<"fn", i>>, source[i].name, i>>
      <4>1. ~\E i \in Variables : d = << <<"compound", Home(i)>>, source[i].name, i>>
        BY <2>1
      <4> QED BY <1>1, <4>1
    <3>2. i = j /\ source[i].name = x
      BY <2>1, <3>1
    <3> QED BY <3>1, <3>2 DEF Arguments, ArgOf
  <2>2. ASSUME NEW i \in ArgOf(j, x) \cap DOMAIN source
        PROVE  << <<"fn", j>>, x, i>> \in AllDecls
    BY <1>3 DEF ArgOf, AllDecls, Arguments
  <2> QED BY <2>1, <2>2
<1>4. ASSUME NEW d \in AllDecls
      PROVE  /\ d[1][1] \in {"compound", "fn"}
             /\ d[3] \in DOMAIN source /\ d[2] = source[d[3]].name
  BY <1>1 DEF Variables, Arguments
<1> QED BY <1>2, <1>3, <1>4

(* The declarations an item makes.                                         *)
LEMMA DeclsOfItem ==
  ASSUME NEW i \in DOMAIN source
  PROVE  /\ source[i].op = "var" =>
              {d \in AllDecls : d[3] = i} = {<< <<"compound", Home(i)>>, source[i].name, i>>}
         /\ source[i].op = "fn" /\ source[i].name # NoVar =>
              {d \in AllDecls : d[3] = i} = {<< <<"fn", i>>, source[i].name, i>>}
         /\ source[i].op \notin {"var", "fn"} => {d \in AllDecls : d[3] = i} = {}
         /\ source[i].op = "fn" /\ source[i].name = NoVar =>
              {d \in AllDecls : d[3] = i} = {}
<1>1. \A d \in AllDecls :
        \/ \E k \in Variables : d = << <<"compound", Home(k)>>, source[k].name, k>>
        \/ \E k \in Arguments : d = << <<"fn", k>>, source[k].name, k>>
  BY DEF AllDecls
<1>2. \A d \in AllDecls : d[3] = i =>
        \/ i \in Variables /\ d = << <<"compound", Home(i)>>, source[i].name, i>>
        \/ i \in Arguments /\ d = << <<"fn", i>>, source[i].name, i>>
  BY <1>1
<1>3. /\ i \in Variables => << <<"compound", Home(i)>>, source[i].name, i>> \in AllDecls
      /\ i \in Arguments => << <<"fn", i>>, source[i].name, i>> \in AllDecls
  BY DEF AllDecls
<1>4. /\ i \in Variables <=> source[i].op = "var"
      /\ i \in Arguments <=> source[i].op = "fn" /\ source[i].name # NoVar
  BY DEF Variables, Arguments
<1> QED BY <1>2, <1>3, <1>4

(* One item later there are its declarations too.                          *)
LEMMA DeclsUpTo ==
  ASSUME NEW h, Legible(h, source), NEW p \in Nat
  PROVE  /\ {d \in AllDecls : d[3] < p + 1}
              = {d \in AllDecls : d[3] < p} \cup {d \in AllDecls : d[3] = p}
         /\ {d \in AllDecls : d[3] < 1} = {}
         /\ {d \in AllDecls : d[3] < Len(source) + 1} = AllDecls
<1>1. Len(source) \in Nat /\ DOMAIN source = 1..Len(source)
  BY LegibleFacts
<1>2. \A d \in AllDecls : d[3] \in 1..Len(source)
  BY <1>1, DeclsOfScope
<1>3. \A i \in 1..Len(source) :
        /\ i < p + 1 <=> i < p \/ i = p
        /\ ~(i < 1) /\ i < Len(source) + 1
  BY <1>1
<1> QED BY <1>2, <1>3

-----------------------------------------------------------------------------
(* The stack of scopes at an item, without test blocks.                    *)
LEMMA PushedPlain ==
  ASSUME NEW s, NEW c, NEW i, s[i].op \in Openers, s[i].op # "tce"
  PROVE  ToSet(PushedIn(s, c, i))
           = {<<"compound", i>>} \cup (IF s[i].op = "block" THEN {} ELSE {<<s[i].op, i>>})
<1>1. PICK ks : ks = KindsIn(s, c, i)
  OBVIOUS
<1>2. ToSet(PushedIn(s, c, i)) = {<<ks[k], i>> : k \in DOMAIN ks}
  BY <1>1 DEF PushedIn, ToSet
<1>3. CASE s[i].op = "fn"
  <2>1. ks = <<"fn", "compound">>
    BY <1>1, <1>3 DEF KindsIn, Kinds
  <2>2. DOMAIN ks = {1, 2} /\ ks[1] = "fn" /\ ks[2] = "compound"
    BY <2>1
  <2> QED BY <1>2, <1>3, <2>2
<1>4. CASE s[i].op = "loop"
  <2>1. ks = <<"loop", "compound">>
    BY <1>1, <1>4 DEF KindsIn, Kinds
  <2>2. DOMAIN ks = {1, 2} /\ ks[1] = "loop" /\ ks[2] = "compound"
    BY <2>1
  <2> QED BY <1>2, <1>4, <2>2
<1>5. CASE s[i].op = "block"
  <2>1. ks = <<"compound">>
    BY <1>1, <1>5 DEF KindsIn, Kinds
  <2>2. DOMAIN ks = {1} /\ ks[1] = "compound"
    BY <2>1
  <2> QED BY <1>2, <1>5, <2>2
<1> QED BY <1>3, <1>4, <1>5 DEF Openers

(* The scopes on it are the package's, and those of the openers around.    *)
OnStack(A) ==
  /\ \A j \in A : /\ <<"compound", j>> \in ToSet(scopes)
                  /\ source[j].op # "block" => <<source[j].op, j>> \in ToSet(scopes)
                  /\ j \in DOMAIN source /\ source[j].op \in {"fn", "loop", "block"}
  /\ \A z \in ToSet(scopes) :
       \/ z = Root
       \/ \E j \in A : z = <<"compound", j>>
       \/ \E j \in A : z = <<source[j].op, j>> /\ source[j].op # "block"

(* Without test blocks the scopes on the stack are those of the openers    *)
(* around the item.                                                        *)
LEMMA StackAround ==
  ASSUME Base, Stack, Exact, TestFree, Visiting,
         pos \in DOMAIN source, source[pos].op # "end"
  PROVE  /\ OnStack(Around(pos))
         /\ Around(pos) = {nest[k] : k \in DOMAIN nest}
<1>1. PICK h : Legible(h, source) /\ Visited(h, source, pos, nest)
  BY NestingElim DEF Base, Visiting
<1>2. Around(pos) = {nest[k] : k \in DOMAIN nest}
  BY <1>1, AroundFacts
<1>3. ToSet(scopes) = EnclosingIn(source, pc, nest)
  BY DEF Stack, Exact, Covers
<1>4. \A k \in DOMAIN nest : /\ nest[k] \in DOMAIN source
                             /\ source[nest[k]].op \in Openers /\ source[nest[k]].op # "tce"
  BY <1>1, NestFacts DEF Opens, TestFree
<1>5. \A j \in Around(pos) :
        /\ j \in DOMAIN source /\ source[j].op \in {"fn", "loop", "block"}
        /\ ToSet(PushedIn(source, pc, j))
             = {<<"compound", j>>}
                 \cup (IF source[j].op = "block" THEN {} ELSE {<<source[j].op, j>>})
  BY <1>2, <1>4, PushedPlain DEF Openers
<1>6. EnclosingIn(source, pc, nest)
        = {Root} \cup UNION {ToSet(PushedIn(source, pc, j)) : j \in Around(pos)}
  BY <1>2 DEF EnclosingIn
<1>7. \A j \in Around(pos) :
        /\ <<"compound", j>> \in ToSet(scopes)
        /\ source[j].op # "block" => <<source[j].op, j>> \in ToSet(scopes)
  BY <1>3, <1>5, <1>6
<1>8. ASSUME NEW z \in ToSet(scopes), z # Root
      PROVE  \/ \E j \in Around(pos) : z = <<"compound", j>>
             \/ \E j \in Around(pos) : z = <<source[j].op, j>> /\ source[j].op # "block"
  BY <1>3, <1>5, <1>6, <1>8
<1> QED BY <1>2, <1>5, <1>7, <1>8 DEF OnStack

(* The innermost scope is the body of the innermost construct.             *)
LEMMA InnermostIs ==
  ASSUME Base, Stack, Exact, TestFree, Visiting,
         pos \in DOMAIN source, source[pos].op = "var"
  PROVE  Innermost = <<"compound", Home(pos)>>
<1>1. PICK h : Legible(h, source) /\ Visited(h, source, pos, nest)
  BY NestingElim DEF Base, Visiting
<1>2. /\ OnStack(Around(pos))
      /\ Around(pos) = {nest[k] : k \in DOMAIN nest}
  BY StackAround
<1>3. /\ nest \in Seq(Nat) /\ DOMAIN nest = 1..Len(nest) /\ Len(nest) \in Nat
      /\ \A k \in DOMAIN nest : nest[k] \in 1..(pos - 1)
      /\ \A j, k \in DOMAIN nest : j < k => nest[j] < nest[k]
  BY <1>1, NestFacts
<1>4. nest # <<>>
  <2>1. Placed(source, nest, pos)
    BY <1>1 DEF Legible, Visited
  <2> QED BY <2>1 DEF Placed
<1>5. PICK b \in Nat : b = Len(nest) /\ DOMAIN nest = 1..b /\ b \in 1..b
  <2>1. PICK b \in Nat : b = Len(nest)
    BY <1>3
  <2>2. DOMAIN nest = 1..b
    BY <1>3, <2>1
  <2>3. b # 0
    BY <1>3, <1>4, <2>1
  <2>4. b \in 1..b
    BY <2>3
  <2> QED BY <2>1, <2>2, <2>4
<1>6. PICK i : i = nest[b] /\ i \in Nat /\ i > 0
  BY <1>3, <1>5
<1>7. i \in Around(pos) /\ \A j \in Around(pos) : j \in Nat /\ j <= i
  <2>1. \A k \in 1..b : nest[k] \in Nat /\ nest[k] <= i
    <3> SUFFICES ASSUME NEW k \in 1..b PROVE nest[k] \in Nat /\ nest[k] <= i
      OBVIOUS
    <3>1. k = b \/ k < b
      BY <1>5
    <3>2. nest[k] \in Nat
      BY <1>3, <1>5
    <3>3. k < b => nest[k] < i
      BY <1>3, <1>5, <1>6
    <3> QED BY <1>6, <3>1, <3>2, <3>3
  <2> QED BY <1>2, <1>5, <1>6, <2>1
<1>8. Home(pos) = i
  <2>1. \A j \in Around(pos) : (\A k \in Around(pos) : k <= j) => j = i
    BY <1>6, <1>7
  <2>2. Around(pos) # {} /\ \E j \in Around(pos) : \A k \in Around(pos) : k <= j
    BY <1>7
  <2> QED BY <2>1, <2>2 DEF Home
<1>9. PICK a \in Nat : a = Len(scopes) /\ DOMAIN scopes = 1..a /\ a \in 1..a
  <2>1. scopes \in Seq(AllScopes) /\ scopes # <<>>
    BY DEF Stack, Ranked, Covers
  <2> QED BY <2>1
<1>10. PICK q \in 1..a : scopes[q] = <<"compound", i>>
  <2>1. <<"compound", i>> \in ToSet(scopes)
    BY <1>2, <1>7 DEF OnStack
  <2> QED BY <1>9, <2>1 DEF ToSet
<1>11. q = a
  <2> SUFFICES ASSUME q # a PROVE FALSE
    OBVIOUS
  <2>1. q < a
    BY <1>10, <1>9
  <2>2. PICK z : z = scopes[a]
    OBVIOUS
  <2>3. IsOuter(<<"compound", i>>, z)
    BY <1>9, <1>10, <2>1, <2>2 DEF Stack, Ranked
  <2>4. i < z[2]
    BY <2>3 DEF IsOuter
  <2>5. z \in ToSet(scopes)
    BY <1>9, <2>2 DEF ToSet
  <2>6. z = Root \/ z[2] \in Around(pos)
    BY <1>2, <2>5 DEF OnStack
  <2>7. z[2] \in Nat /\ z[2] <= i
    <3>1. CASE z = Root
      <4>1. z[2] = 0
        BY <3>1 DEF Root
      <4> QED BY <1>6, <4>1
    <3>2. CASE z[2] \in Around(pos)
      BY <1>7, <3>2
    <3> QED BY <2>6, <3>1, <3>2
  <2> QED BY <1>6, <2>4, <2>7
<1>12. Innermost = scopes[a]
  BY <1>9 DEF Innermost, Last
<1> QED BY <1>8, <1>10, <1>11, <1>12

(* A name is visible exactly if an enclosing construct declares it, and is *)
(* looked up in the nearest one.                                           *)
LEMMA VisibleIs ==
  ASSUME Base, Stack, Exact, TestFree, Visiting, decls = AllDecls,
         pos \in DOMAIN source, source[pos].op = "use"
  PROVE  /\ Name \in Var
         /\ Visible(Name) = {} <=> Unknown(pos)
         /\ Visible(Name) # {} =>
              /\ Lookup(Name)[3] \in DOMAIN source
              /\ LeadsTo(pos, Lookup(Name)[3])
<1>1. PICK h : Legible(h, source) /\ Visited(h, source, pos, nest)
  BY NestingElim DEF Base, Visiting
<1>2. PICK x, A : x = Name /\ A = Around(pos)
  OBVIOUS
<1>3. x \in Var /\ x # NoVar /\ x = source[pos].name
  <2>1. Placed(source, nest, pos)
    BY <1>1 DEF Legible, Visited
  <2>2. Name \in Var
    BY <2>1 DEF Placed, Name
  <2> QED BY <1>2, <2>2, VarAssumption DEF Name
<1>4. OnStack(A) /\ Having(pos, x) = {j \in A : LocalsOf(j, x) \cup ArgOf(j, x) # {}}
  BY <1>2, StackAround DEF Having
<1>5. \A j \in A : j \in Nat
  <2>1. PICK n \in Nat : DOMAIN source = 1..n
    BY <1>1, LegibleFacts
  <2>2. \A j \in A : j \in DOMAIN source
    BY <1>4 DEF OnStack
  <2>3. \A j \in 1..n : j \in Nat
    OBVIOUS
  <2> QED BY <2>1, <2>2, <2>3
<1>6. /\ \A j \in A : Declared(<<"compound", j>>, x) # {} <=> LocalsOf(j, x) # {}
      /\ \A j \in A : Declared(<<"fn", j>>, x) # {} <=> ArgOf(j, x) # {}
      /\ \A z \in ToSet(scopes) : Declared(z, x) # {} => z[1] \in {"compound", "fn"}
  <2>1. ASSUME NEW j \in A
        PROVE  /\ Declared(<<"compound", j>>, x) # {} <=> LocalsOf(j, x) # {}
               /\ Declared(<<"fn", j>>, x) # {} <=> ArgOf(j, x) # {}
    <3>1. Declared(<<"compound", j>>, x) = {<< <<"compound", j>>, x, i>> : i \in LocalsOf(j, x)}
      BY DeclsOfScope DEF Declared
    <3>2. Declared(<<"fn", j>>, x)
            = {<< <<"fn", j>>, x, i>> : i \in ArgOf(j, x) \cap DOMAIN source}
      BY <1>3, DeclsOfScope DEF Declared
    <3>3. ArgOf(j, x) \subseteq DOMAIN source
      BY <1>4 DEF ArgOf, OnStack
    <3>4. ArgOf(j, x) \cap DOMAIN source = ArgOf(j, x)
      BY <3>3
    <3>5. Declared(<<"compound", j>>, x) # {} <=> LocalsOf(j, x) # {}
      BY <3>1
    <3>6. Declared(<<"fn", j>>, x) # {} <=> ArgOf(j, x) # {}
      BY <3>2, <3>4
    <3> QED BY <3>5, <3>6
  <2>2. \A z : Declared(z, x) # {} => z[1] \in {"compound", "fn"}
    BY DeclsOfScope DEF Declared
  <2> QED BY <2>1, <2>2
<1>7. ASSUME NEW j \in A, LocalsOf(j, x) # {}
      PROVE  \E q \in Visible(x) : scopes[q] = <<"compound", j>>
  <2>1. PICK q \in DOMAIN scopes : scopes[q] = <<"compound", j>>
    BY <1>4 DEF OnStack, ToSet
  <2> QED BY <1>6, <1>7, <2>1 DEF Visible
<1>8. ASSUME NEW j \in A, ArgOf(j, x) # {}
      PROVE  \E q \in Visible(x) : scopes[q] = <<"fn", j>>
  <2>1. source[j].op = "fn"
    BY <1>8 DEF ArgOf
  <2>2. PICK q \in DOMAIN scopes : scopes[q] = <<"fn", j>>
    BY <1>4, <2>1 DEF OnStack, ToSet
  <2> QED BY <1>6, <1>8, <2>2 DEF Visible
<1>9. ASSUME NEW q \in Visible(x)
      PROVE  \E j \in A : \/ scopes[q] = <<"compound", j>> /\ LocalsOf(j, x) # {}
                          \/ scopes[q] = <<"fn", j>> /\ ArgOf(j, x) # {}
  <2>1. q \in DOMAIN scopes /\ Declared(scopes[q], x) # {}
    BY DEF Visible
  <2>2. PICK z \in ToSet(scopes) : z = scopes[q]
    BY <2>1 DEF ToSet
  <2>3. z[1] \in {"compound", "fn"}
    BY <1>6, <2>1, <2>2
  <2>4. z # Root
    BY <2>3 DEF Root
  <2>5. \/ \E j \in A : z = <<"compound", j>>
        \/ \E j \in A : z = <<source[j].op, j>> /\ source[j].op # "block"
    BY <1>4, <2>4 DEF OnStack
  <2>6. \E j \in A : z = <<"compound", j>> \/ z = <<"fn", j>>
    BY <1>4, <2>3, <2>5 DEF OnStack
  <2> QED BY <1>6, <2>1, <2>2, <2>6
<1>10. Visible(x) = {} <=> Unknown(pos)
  <2>1. Unknown(pos) <=> \A j \in A : LocalsOf(j, x) \cup ArgOf(j, x) = {}
    BY <1>2, <1>3 DEF Unknown
  <2> QED BY <1>7, <1>8, <1>9, <2>1
<1>11. ASSUME Visible(x) # {}
       PROVE  Lookup(x)[3] \in DOMAIN source /\ LeadsTo(pos, Lookup(x)[3])
  <2>1. PICK a \in Nat : DOMAIN scopes = 1..a
    <3>1. scopes \in Seq(AllScopes)
      BY DEF Stack, Ranked
    <3> QED BY <3>1
  <2>2. \E k \in Visible(x) : \A j \in Visible(x) : j <= k
    <3>1. Visible(x) \in SUBSET (1..a)
      BY <2>1 DEF Visible
    <3> QED BY <1>11, <3>1, NatMax
  <2>3. PICK q : q = CHOOSE k \in Visible(x) : \A j \in Visible(x) : j <= k
    OBVIOUS
  <2>4. q \in Visible(x) /\ \A j \in Visible(x) : j <= q
    BY <2>2, <2>3
  <2>5. PICK d : d = Lookup(x) /\ d \in Declared(scopes[q], x)
    <3>1. Declared(scopes[q], x) # {} /\ Declared(scopes[q], x) \subseteq decls
      BY <2>4 DEF Visible, Declared
    <3>2. Lookup(x) = CHOOSE d \in decls : d \in Declared(scopes[q], x)
      BY <2>3 DEF Lookup
    <3> QED BY <3>1, <3>2
  <2>6. PICK j \in A : \/ scopes[q] = <<"compound", j>> /\ LocalsOf(j, x) # {}
                       \/ scopes[q] = <<"fn", j>> /\ ArgOf(j, x) # {}
    BY <1>9, <2>4
  <2>7. ASSUME NEW k, NEW r \in Visible(x), scopes[r][2] = k, k \in Nat
        PROVE  k <= j
    <3>1. r \in 1..a /\ q \in 1..a /\ r <= q
      BY <2>1, <2>4 DEF Visible
    <3>2. scopes[q][2] = j /\ j \in Nat
      BY <1>5, <2>6
    <3>3. CASE r = q
      BY <2>7, <3>2, <3>3
    <3>4. CASE r # q
      <4>1. r < q
        BY <3>1, <3>4
      <4>2. IsOuter(scopes[r], scopes[q])
        BY <2>1, <3>1, <4>1 DEF Stack, Ranked
      <4> QED BY <2>7, <3>2, <4>2 DEF IsOuter
    <3> QED BY <3>3, <3>4
  <2>8. \A k \in Having(pos, x) : k <= j
    <3> SUFFICES ASSUME NEW k \in A, LocalsOf(k, x) # {} \/ ArgOf(k, x) # {}
                 PROVE  k <= j
      BY <1>4
    <3>1. PICK r \in Visible(x) : scopes[r] = <<"compound", k>> \/ scopes[r] = <<"fn", k>>
      BY <1>7, <1>8
    <3>2. scopes[r][2] = k
      BY <3>1
    <3> QED BY <1>5, <2>7, <3>2
  <2>9. j \in Having(pos, x)
    BY <1>4, <2>6
  <2>10. /\ d[3] \in DOMAIN source
         /\ d[3] \in IF LocalsOf(j, x) # {} THEN LocalsOf(j, x) ELSE ArgOf(j, x)
    <3>1. CASE scopes[q] = <<"compound", j>> /\ LocalsOf(j, x) # {}
      <4>1. Declared(<<"compound", j>>, x)
              = {<< <<"compound", j>>, x, i>> : i \in LocalsOf(j, x)}
        BY DeclsOfScope DEF Declared
      <4>2. d[3] \in LocalsOf(j, x)
        BY <2>5, <3>1, <4>1
      <4> QED BY <3>1, <4>2 DEF LocalsOf
    <3>2. CASE scopes[q] = <<"fn", j>> /\ ArgOf(j, x) # {}
      <4>1. Declared(<<"fn", j>>, x)
              = {<< <<"fn", j>>, x, i>> : i \in ArgOf(j, x) \cap DOMAIN source}
        BY <1>3, DeclsOfScope DEF Declared
      <4>2. d[3] \in ArgOf(j, x) \cap DOMAIN source
        BY <2>5, <3>2, <4>1
      <4>3. LocalsOf(j, x) = {}
        <5> SUFFICES ASSUME LocalsOf(j, x) # {} PROVE FALSE
          OBVIOUS
        <5>1. PICK r \in Visible(x) : scopes[r] = <<"compound", j>>
          BY <1>7
        <5>2. r \in 1..a /\ q \in 1..a /\ r <= q /\ r # q
          BY <2>1, <2>4, <3>2, <5>1 DEF Visible
        <5>3. IsOuter(scopes[r], scopes[q])
          BY <2>1, <5>2 DEF Stack, Ranked
        <5>4. IsOuter(<<"compound", j>>, <<"fn", j>>)
          BY <3>2, <5>1, <5>3
        <5> QED BY <1>5, <5>4 DEF IsOuter
      <4> QED BY <4>2, <4>3
    <3> QED BY <2>6, <3>1, <3>2
  <2> QED BY <1>3, <2>5, <2>8, <2>9, <2>10 DEF LeadsTo
<1> QED BY <1>2, <1>3, <1>10, <1>11

(* A break or a return is inside what it needs exactly if the stack says.  *)
LEMMA InParentIs ==
  ASSUME Base, Stack, Exact, TestFree, Visiting,
         pos \in DOMAIN source, source[pos].op # "end", NEW kind \in {"fn", "loop"}
  PROVE  InParentScopes(kind) <=> Inside(pos, kind)
<1>1. OnStack(Around(pos))
  BY StackAround
<1>2. InParentScopes(kind) <=> \E z \in ToSet(scopes) : z[1] = kind
  BY DEF InParentScopes, ToSet
<1>3. ASSUME NEW z \in ToSet(scopes), z[1] = kind
      PROVE  Inside(pos, kind)
  <2>1. z # Root /\ \A j : z # <<"compound", j>>
    BY <1>3 DEF Root
  <2>2. PICK j \in Around(pos) : z = <<source[j].op, j>>
    BY <1>1, <2>1 DEF OnStack
  <2> QED BY <1>3, <2>2 DEF Inside
<1>4. ASSUME NEW j \in Around(pos), source[j].op = kind
      PROVE  \E z \in ToSet(scopes) : z[1] = kind
  <2>1. <<source[j].op, j>> \in ToSet(scopes)
    BY <1>1, <1>4 DEF OnStack
  <2> QED BY <1>4, <2>1
<1> QED BY <1>2, <1>3, <1>4 DEF Inside
-----------------------------------------------------------------------------
(* One more item is passed without an error: its declarations are there in *)
(* the first pass, and in the second its name leads where it may.          *)
LEMMA PassedRegistering ==
  ASSUME Names, TestFree, pc = "registering", pc' = "registering", source' = source,
         NEW h, Legible(h, source), pos \in DOMAIN source, pos \notin Wrong,
         pos' = pos + 1, found' = found,
         decls' = decls \cup {d \in AllDecls : d[3] = pos}
  PROVE  Names'
<1>1. PICK n \in Nat : n = Len(source) /\ DOMAIN source = 1..n
  BY LegibleFacts
<1>2. /\ decls = {d \in AllDecls : d[3] < pos} /\ \A i \in Wrong : ~(i < pos)
      /\ found \subseteq Answers
  BY DEF Names
<1>3. pos \in Nat
  BY <1>1
<1>4. decls' = {d \in AllDecls : d[3] < pos + 1}
  BY <1>2, <1>3, DeclsUpTo
<1>5. \A i \in Wrong : ~(i < pos + 1)
  <2>1. \A i \in Wrong : i \in 1..n /\ ~(i < pos) /\ i # pos
    BY <1>1, <1>2 DEF Wrong
  <2> QED BY <1>3, <2>1
<1>6. AllDecls' = AllDecls /\ Wrong' = Wrong /\ Answers' = Answers
  BY SameBraces
<1> QED BY <1>2, <1>4, <1>5, <1>6 DEF Names

(* An item that is checked and found right leaves the names as they were.  *)
LEMMA PassedChecking ==
  ASSUME Names, TestFree, pc = "checking", pc' = "checking", source' = source,
         NEW h, Legible(h, source), pos \in DOMAIN source, pos \notin Lost,
         pos' = pos + 1, decls' = decls, found' \subseteq Answers
  PROVE  Names'
<1>1. PICK n \in Nat : n = Len(source) /\ DOMAIN source = 1..n
  BY LegibleFacts
<1>2. decls = AllDecls /\ Wrong = {} /\ \A i \in Lost : ~(i < pos)
  BY DEF Names
<1>3. pos \in Nat
  BY <1>1
<1>4. \A i \in Lost : ~(i < pos + 1)
  <2>1. \A i \in Lost : i \in 1..n /\ ~(i < pos) /\ i # pos
    BY <1>1, <1>2 DEF Lost
  <2> QED BY <1>3, <2>1
<1>5. AllDecls' = AllDecls /\ Wrong' = Wrong /\ Lost' = Lost /\ Answers' = Answers
  BY SameBraces
<1> QED BY <1>2, <1>4, <1>5 DEF Names

(* A variable is found redeclared exactly if an earlier one of its         *)
(* construct has its name.                                                 *)
LEMMA RedeclaredIs ==
  ASSUME Base, Stack, Exact, Names, TestFree, pc = "registering",
         pos \in DOMAIN source, source[pos].op = "var"
  PROVE  Declared(Innermost, Name) # {} <=> pos \in Wrong
<1>1. Innermost = <<"compound", Home(pos)>>
  BY InnermostIs DEF Visiting
<1>2. PICK x, j : x = source[pos].name /\ j = Home(pos)
  OBVIOUS
<1>3. decls = {d \in AllDecls : d[3] < pos}
  BY DEF Names
<1>4. {d \in AllDecls : d[1] = <<"compound", j>> /\ d[2] = x}
        = {<< <<"compound", j>>, x, i>> : i \in LocalsOf(j, x)}
  BY DeclsOfScope
<1>5. Declared(<<"compound", j>>, x) # {} <=> \E i \in LocalsOf(j, x) : i < pos
  <2>1. ASSUME NEW d \in Declared(<<"compound", j>>, x)
        PROVE  \E i \in LocalsOf(j, x) : i < pos
    <3>1. d[3] < pos /\ d \in AllDecls /\ d[1] = <<"compound", j>> /\ d[2] = x
      BY <1>3, <2>1 DEF Declared
    <3>2. PICK i \in LocalsOf(j, x) : d = << <<"compound", j>>, x, i>>
      BY <1>4, <3>1
    <3> QED BY <3>1, <3>2
  <2>2. ASSUME NEW i \in LocalsOf(j, x), i < pos
        PROVE  Declared(<<"compound", j>>, x) # {}
    <3>1. PICK d : d = << <<"compound", j>>, x, i>>
      OBVIOUS
    <3>2. d \in AllDecls /\ d[1] = <<"compound", j>> /\ d[2] = x /\ d[3] < pos
      BY <1>4, <2>2, <3>1
    <3> QED BY <1>3, <3>2 DEF Declared
  <2> QED BY <2>1, <2>2
<1>6. pos \in Wrong <=> \E i \in LocalsOf(j, x) : i < pos
  BY <1>2 DEF Wrong, Redeclared
<1> QED BY <1>1, <1>2, <1>5, <1>6 DEF Name

(* The steps of the first pass keep the names.                             *)
LEMMA RegisterNames ==
  ASSUME Base, Stack, Exact, Names, TestFree, pc = "registering",
         RegisterOpen \/ RegisterBadTest \/ RegisterEnd \/ RegisterVar
           \/ RegisterRedeclared \/ RegisterOther
  PROVE  Names'
<1>1. PICK h : Legible(h, source) /\ Visited(h, source, pos, nest)
  BY NestingElim DEF Base
<1>2. CASE RegisterOpen
  <2>1. PICK op \in Openers : At(op)
    BY <1>2 DEF RegisterOpen
  <2>2. pos \in DOMAIN source /\ source[pos].op = op /\ pos <= Len(source)
    BY <1>1, <2>1, AtFacts DEF At
  <2>3. Argument = {d \in AllDecls : d[3] = pos}
    <3>1. CASE op = "fn" /\ source[pos].name # NoVar
      BY <2>1, <2>2, <3>1, DeclsOfItem DEF Argument, At, Name
    <3>2. CASE op = "fn" /\ source[pos].name = NoVar
      BY <2>1, <2>2, <3>2, DeclsOfItem DEF Argument, At, Name
    <3>3. CASE op # "fn"
      <4>1. op \notin {"var", "fn"}
        BY <2>1, <3>3 DEF Openers
      <4> QED BY <2>2, <4>1, DeclsOfItem DEF Argument, At
    <3> QED BY <3>1, <3>2, <3>3
  <2>4. pos \notin Wrong
    BY <2>1, <2>2 DEF Wrong, Redeclared, Openers
  <2> QED BY <1>1, <1>2, <2>2, <2>3, <2>4, PassedRegistering DEF RegisterOpen
<1>3. CASE RegisterBadTest
  <2>1. pos \in DOMAIN source /\ source[pos].op = "bad_tce"
    BY <1>1, <1>3, AtFacts DEF RegisterBadTest
  <2> QED BY <2>1 DEF TestFree
<1>4. CASE RegisterEnd \/ RegisterOther
  <2>1. pos \in DOMAIN source /\ source[pos].op \in {"end", "import", "use", "break", "return"}
    BY <1>1, <1>4, AtFacts DEF RegisterEnd, RegisterOther
  <2>2. {d \in AllDecls : d[3] = pos} = {}
    BY <2>1, DeclsOfItem
  <2>3. pos \notin Wrong
    BY <2>1 DEF Wrong, Redeclared
  <2>4. /\ decls' = decls /\ found' = found /\ source' = source /\ pc' = pc
        /\ pos' = pos + 1
    BY <1>4 DEF RegisterEnd, RegisterOther, Advance
  <2>5. decls' = decls \cup {d \in AllDecls : d[3] = pos}
    BY <2>2, <2>4
  <2> QED BY <1>1, <2>1, <2>3, <2>4, <2>5, PassedRegistering
<1>5. CASE RegisterVar
  <2>1. pos \in DOMAIN source /\ source[pos].op = "var"
    BY <1>1, <1>5, AtFacts DEF RegisterVar
  <2>2. pos \notin Wrong
    BY <1>5, <2>1, RedeclaredIs DEF RegisterVar
  <2>3. Innermost = <<"compound", Home(pos)>>
    BY <2>1, InnermostIs DEF Visiting
  <2>4. {d \in AllDecls : d[3] = pos} = {<<Innermost, Name, pos>>}
    BY <2>1, <2>3, DeclsOfItem DEF Name
  <2>5. /\ found' = found /\ source' = source /\ pc' = pc /\ pos' = pos + 1
        /\ decls' = decls \cup {<<Innermost, Name, pos>>}
    BY <1>5 DEF RegisterVar, Advance
  <2> QED BY <1>1, <2>1, <2>2, <2>4, <2>5, PassedRegistering
<1>6. CASE RegisterRedeclared
  <2>1. pos \in DOMAIN source /\ source[pos].op = "var"
    BY <1>1, <1>6, AtFacts DEF RegisterRedeclared
  <2>2. pos \in Wrong
    BY <1>6, <2>1, RedeclaredIs DEF RegisterRedeclared
  <2>3. pc' = "rejected" /\ source' = source /\ found' = found
    BY <1>6, ThrowRejects DEF RegisterRedeclared, Visiting, Throws
  <2>4. Wrong' = Wrong /\ Lost' = Lost /\ Answers' = Answers
    BY <2>3, SameBraces
  <2> QED BY <2>2, <2>3, <2>4 DEF Names
<1> QED BY <1>2, <1>3, <1>4, <1>5, <1>6

(* Without test blocks the second pass only passes over functions.         *)
LEMMA PrecheckNames ==
  ASSUME Base, Names, TestFree, pc = "prechecking",
         PrecheckOpen \/ PrecheckEnd \/ PrecheckPast \/ PrecheckError
  PROVE  Names'
<1>1. PICK h : Legible(h, source) /\ Visited(h, source, pos, nest)
  BY NestingElim DEF Base
<1>2. decls = AllDecls /\ Wrong = {} /\ nest = <<>> /\ found \subseteq Answers
  BY DEF Names
<1>3. CASE PrecheckOpen
  <2>1. pos \in DOMAIN source /\ source[pos].op = "tce"
    BY <1>1, <1>3, AtFacts DEF PrecheckOpen
  <2> QED BY <2>1 DEF TestFree
<1>4. CASE PrecheckEnd
  <2>1. pos \in DOMAIN source /\ source[pos].op = "end"
    BY <1>1, <1>4, AtFacts DEF PrecheckEnd
  <2> QED BY <1>1, <1>2, <2>1, NestMoves
<1>5. CASE PrecheckPast
  <2>1. /\ decls' = decls /\ found' = found /\ nest' = nest /\ source' = source /\ pc' = pc
    BY <1>5 DEF PrecheckPast
  <2>2. Wrong' = Wrong /\ AllDecls' = AllDecls /\ Answers' = Answers
    BY <2>1, SameBraces
  <2> QED BY <1>2, <2>1, <2>2 DEF Names
<1>6. CASE PrecheckError
  <2>1. PICK op \in {"import", "loop", "block", "use", "break", "return"} : At(op)
    BY <1>6 DEF PrecheckError, Unvisited
  <2>2. pos \in DOMAIN source /\ source[pos].op = op
    BY <1>1, <2>1, AtFacts
  <2>3. Placed(source, nest, pos)
    BY <1>1, <2>2 DEF Legible, Visited
  <2> QED BY <1>2, <2>1, <2>2, <2>3 DEF Placed
<1> QED BY <1>3, <1>4, <1>5, <1>6

(* The steps of the last pass keep the names too.                          *)
LEMMA CheckNames ==
  ASSUME Base, Stack, Exact, Names, TestFree, pc = "checking",
         CheckOpen \/ CheckSkipTest \/ CheckEnd \/ CheckTestWithoutError \/ CheckUse
           \/ CheckBreak \/ CheckReturn \/ CheckOther \/ CheckError \/ Accept
  PROVE  Names'
<1>1. PICK h : Legible(h, source) /\ Visited(h, source, pos, nest)
  BY NestingElim DEF Base
<1>2. PICK n \in Nat : n = Len(source) /\ DOMAIN source = 1..n
  BY <1>1, LegibleFacts
<1>3. found \subseteq Answers /\ decls = AllDecls /\ Wrong = {} /\ \A i \in Lost : ~(i < pos)
  BY DEF Names
<1>4. Visiting
  BY DEF Visiting
<1>5. CASE CheckOpen \/ CheckEnd \/ CheckOther
  <2>1. PICK op \in Openers \cup {"end", "var", "import"} : At(op)
    BY <1>5 DEF CheckOpen, CheckEnd, CheckOther
  <2>2. pos \in DOMAIN source /\ source[pos].op = op
    BY <1>1, <2>1, AtFacts
  <2>3. pos \notin Lost
    BY <2>1, <2>2 DEF Lost, Unknown, Misplaced, Openers
  <2>4. /\ decls' = decls /\ found' = found /\ source' = source /\ pc' = pc
        /\ pos' = pos + 1
    BY <1>5 DEF CheckOpen, CheckEnd, CheckOther, Advance
  <2> QED BY <1>1, <1>3, <2>2, <2>3, <2>4, PassedChecking
<1>6. CASE CheckSkipTest
  <2>1. pos \in DOMAIN source /\ source[pos].op \in TestOps
    BY <1>6 DEF CheckSkipTest, Base, CaughtTests
  <2> QED BY <2>1 DEF TestFree, TestOps
<1>7. CASE CheckTestWithoutError
  <2>1. pos \in DOMAIN source /\ source[pos].op = "end"
    BY <1>1, <1>7, AtFacts DEF CheckTestWithoutError
  <2>2. nest # <<>>
    BY <1>1, <2>1, NestMoves
  <2>3. Len(nest) \in DOMAIN nest /\ nest[Len(nest)] \in DOMAIN source
    <3>1. nest \in Seq(Nat) /\ \A k \in DOMAIN nest : nest[k] \in DOMAIN source
      BY <1>1, NestFacts DEF Opens
    <3>2. Len(nest) \in DOMAIN nest
      BY <2>2, <3>1
    <3> QED BY <3>1, <3>2
  <2>4. source[nest[Len(nest)]].op = "tce"
    BY <1>7 DEF CheckTestWithoutError, Last
  <2> QED BY <2>3, <2>4 DEF TestFree
<1>8. CASE CheckUse
  <2>1. pos \in DOMAIN source /\ source[pos].op = "use" /\ Visible(Name) # {}
    BY <1>1, <1>8, AtFacts DEF CheckUse
  <2>2. /\ ~Unknown(pos)
        /\ Lookup(Name)[3] \in DOMAIN source /\ LeadsTo(pos, Lookup(Name)[3])
    BY <1>3, <1>4, <2>1, VisibleIs
  <2>3. pos \notin Lost
    BY <2>1, <2>2 DEF Lost, Misplaced
  <2>4. PICK d : d = Lookup(Name)[3]
    OBVIOUS
  <2>5. <<pos, d>> \in Answers
    BY <2>1, <2>2, <2>4 DEF Answers
  <2>6. /\ decls' = decls /\ found' = found \cup {<<pos, d>>} /\ source' = source
        /\ pc' = pc /\ pos' = pos + 1
    BY <1>8, <2>4 DEF CheckUse, Advance
  <2>7. found' \subseteq Answers
    BY <1>3, <2>5, <2>6
  <2> QED BY <1>1, <2>1, <2>3, <2>6, <2>7, PassedChecking
<1>9. CASE CheckBreak \/ CheckReturn
  <2>1. PICK kind \in {"fn", "loop"} :
          /\ InParentScopes(kind)
          /\ \/ kind = "loop" /\ At("break")
             \/ kind = "fn" /\ At("return")
    BY <1>9 DEF CheckBreak, CheckReturn
  <2>2. /\ pos \in DOMAIN source
        /\ \/ kind = "loop" /\ source[pos].op = "break"
           \/ kind = "fn" /\ source[pos].op = "return"
    BY <1>1, <2>1, AtFacts
  <2>3. Inside(pos, kind)
    <3>1. source[pos].op # "end"
      BY <2>2
    <3> QED BY <1>4, <2>1, <2>2, <3>1, InParentIs
  <2>4. pos \notin Lost
    BY <2>2, <2>3 DEF Lost, Misplaced, Unknown
  <2>5. /\ decls' = decls /\ found' = found /\ source' = source /\ pc' = pc
        /\ pos' = pos + 1
    BY <1>9 DEF CheckBreak, CheckReturn, Advance
  <2> QED BY <1>1, <1>3, <2>2, <2>4, <2>5, PassedChecking
<1>10. CASE CheckError
  <2>1. \/ At("use") /\ Visible(Name) = {}
        \/ At("break") /\ ~InParentScopes("loop")
        \/ At("return") /\ ~InParentScopes("fn")
    BY <1>10 DEF CheckError
  <2>2. /\ pos \in DOMAIN source
        /\ \/ source[pos].op = "use" /\ Visible(Name) = {}
           \/ source[pos].op = "break" /\ ~InParentScopes("loop")
           \/ source[pos].op = "return" /\ ~InParentScopes("fn")
    BY <1>1, <2>1, AtFacts
  <2>3. pos \in Lost
    <3>1. CASE source[pos].op = "use" /\ Visible(Name) = {}
      <4>1. Unknown(pos)
        BY <1>3, <1>4, <2>2, <3>1, VisibleIs
      <4> QED BY <2>2, <4>1 DEF Lost
    <3>2. CASE source[pos].op = "break" /\ ~InParentScopes("loop")
      <4>1. ~Inside(pos, "loop")
        BY <1>4, <2>2, <3>2, InParentIs
      <4> QED BY <2>2, <3>2, <4>1 DEF Lost, Misplaced
    <3>3. CASE source[pos].op = "return" /\ ~InParentScopes("fn")
      <4>1. ~Inside(pos, "fn")
        BY <1>4, <2>2, <3>3, InParentIs
      <4> QED BY <2>2, <3>3, <4>1 DEF Lost, Misplaced
    <3> QED BY <2>2, <3>1, <3>2, <3>3
  <2>4. pc' = "rejected" /\ source' = source /\ found' = found
    BY <1>4, <1>10, ThrowRejects DEF CheckError, Throws
  <2>5. Wrong' = Wrong /\ Lost' = Lost /\ Answers' = Answers
    BY <2>4, SameBraces
  <2> QED BY <1>3, <2>3, <2>4, <2>5 DEF Names
<1>11. CASE Accept
  <2>1. /\ pos = Len(source) + 1 /\ pc' = "accepted" /\ source' = source
        /\ found' = found
    BY <1>11 DEF Accept
  <2>2. Lost = {}
    <3>1. \A i \in 1..n : i < n + 1
      BY <1>2
    <3>2. Lost \subseteq 1..n
      BY <1>2 DEF Lost
    <3> QED BY <1>2, <1>3, <2>1, <3>1, <3>2
  <2>3. Wrong' = Wrong /\ Lost' = Lost /\ Answers' = Answers
    BY <2>1, SameBraces
  <2> QED BY <1>3, <2>1, <2>2, <2>3 DEF Names
<1> QED BY <1>5, <1>6, <1>7, <1>8, <1>9, <1>10, <1>11

(* A pass begins with what the one before it has left.                     *)
LEMMA BeginNames ==
  ASSUME Base, Names, TestFree, BeginRegister \/ BeginPrecheck \/ BeginCheck
  PROVE  Names'
<1>1. PICK h : Legible(h, source)
  BY DEF Base, Nesting
<1>2. PICK n \in Nat : n = Len(source) /\ DOMAIN source = 1..n
  BY <1>1, LegibleFacts
<1>3. source' = source /\ decls' = decls /\ found' = found
  BY DEF BeginRegister, BeginPrecheck, BeginCheck
<1>4. Wrong' = Wrong /\ Lost' = Lost /\ AllDecls' = AllDecls /\ Answers' = Answers
  BY <1>3, SameBraces
<1>5. Wrong \subseteq 1..n /\ Lost \subseteq 1..n
      /\ \A i \in 1..n : ~(i < 1) /\ i < n + 1
  BY <1>2 DEF Wrong, Lost
<1>6. CASE BeginRegister
  <2>1. pc' = "registering" /\ pos' = 1 /\ decls = {} /\ found = {}
    BY <1>6 DEF BeginRegister, Base, Quiet
  <2>2. {d \in AllDecls : d[3] < 1} = {}
    <3>1. 1 \in Nat
      OBVIOUS
    <3> QED BY <1>1, <3>1, DeclsUpTo
  <2> QED BY <1>3, <1>4, <1>5, <2>1, <2>2 DEF Names
<1>7. CASE BeginPrecheck
  <2>1. /\ pc = "registering" /\ pos = n + 1 /\ pc' = "prechecking" /\ nest' = nest
    BY <1>2, <1>7 DEF BeginPrecheck
  <2>2. /\ decls = {d \in AllDecls : d[3] < pos} /\ \A i \in Wrong : ~(i < pos)
        /\ found \subseteq Answers
    BY <2>1 DEF Names
  <2>3. decls = AllDecls
    <3>1. {d \in AllDecls : d[3] < Len(source) + 1} = AllDecls
      BY <1>1, <1>2, DeclsUpTo
    <3> QED BY <1>2, <2>1, <2>2, <3>1
  <2>4. Wrong = {}
    BY <1>5, <2>1, <2>2
  <2>5. nest = <<>>
    <3>1. PICK g : Legible(g, source) /\ Visited(g, source, pos, nest)
      BY <2>1, NestingElim DEF Base
    <3>2. n + 1 - 1 = n
      BY <1>2
    <3> QED BY <1>2, <2>1, <3>1, <3>2 DEF Visited
  <2> QED BY <1>3, <1>4, <2>1, <2>2, <2>3, <2>4, <2>5 DEF Names
<1>8. CASE BeginCheck
  <2>1. pc = "prechecking" /\ pc' = "checking" /\ pos' = 1
    BY <1>8 DEF BeginCheck
  <2>2. decls = AllDecls /\ Wrong = {} /\ found \subseteq Answers
    BY <2>1 DEF Names
  <2> QED BY <1>3, <1>4, <1>5, <2>1, <2>2 DEF Names
<1> QED BY <1>6, <1>7, <1>8

(* What the passes know of the names is inductive.                         *)
LEMMA NamesStep == Base /\ Stack /\ Exact /\ Names /\ [Next]_vars => Names'
<1> SUFFICES ASSUME Base, Stack, Exact, Names, [Next]_vars, TestFree' PROVE Names'
  BY DEF Names
<1>1. CASE UNCHANGED vars
  <2>1. Wrong' = Wrong /\ Lost' = Lost /\ AllDecls' = AllDecls /\ Answers' = Answers
    BY <1>1, SameBraces DEF vars
  <2> QED BY <1>1, <2>1 DEF vars, Names, TestFree
<1>2. ASSUME NEW item \in Item, Write(item) PROVE Names'
  <2>1. pc' = "writing" /\ found' = {}
    BY <1>2 DEF Write, Base, Quiet
  <2> QED BY <2>1 DEF Names
<1>3. CASE Next /\ pc # "writing"
  <2>1. PICK h : Legible(h, source) /\ Visited(h, source, pos, nest)
    BY <1>3, NestingElim DEF Base
  <2>2. source' = source
    BY <1>3, <2>1, PassMoves DEF Base
  <2>3. TestFree
    BY <2>2 DEF TestFree
  <2>4. CASE BeginPrecheck \/ BeginCheck
    BY <2>3, <2>4, BeginNames
  <2>5. CASE RegisterOpen \/ RegisterBadTest \/ RegisterEnd \/ RegisterVar
               \/ RegisterRedeclared \/ RegisterOther
    <3>1. pc = "registering"
      BY <2>5 DEF RegisterOpen, RegisterBadTest, RegisterEnd, RegisterVar,
         RegisterRedeclared, RegisterOther
    <3> QED BY <2>3, <2>5, <3>1, RegisterNames
  <2>6. CASE PrecheckOpen \/ PrecheckEnd \/ PrecheckPast \/ PrecheckError
    <3>1. pc = "prechecking"
      BY <2>6 DEF PrecheckOpen, PrecheckEnd, PrecheckPast, PrecheckError
    <3> QED BY <2>3, <2>6, <3>1, PrecheckNames
  <2>7. CASE CheckOpen \/ CheckSkipTest \/ CheckEnd \/ CheckTestWithoutError \/ CheckUse
               \/ CheckBreak \/ CheckReturn \/ CheckOther \/ CheckError \/ Accept
    <3>1. pc = "checking"
      BY <2>7 DEF CheckOpen, CheckSkipTest, CheckEnd, CheckTestWithoutError, CheckUse,
         CheckBreak, CheckReturn, CheckOther, CheckError, Accept
    <3> QED BY <2>3, <2>7, <3>1, CheckNames
  <2>8. ~BeginRegister /\ ~(\E item \in Item : Write(item))
    BY <1>3 DEF BeginRegister, Write
  <2> QED BY <1>3, <2>4, <2>5, <2>6, <2>7, <2>8 DEF Next
<1>4. CASE Next /\ pc = "writing"
  <2>1. (\E item \in Item : Write(item)) \/ BeginRegister
    BY <1>4 DEF Next, RegisterOpen, RegisterBadTest, RegisterEnd, RegisterVar,
         RegisterRedeclared, RegisterOther, BeginPrecheck, PrecheckOpen, PrecheckEnd,
         PrecheckPast, PrecheckError, BeginCheck, CheckOpen, CheckSkipTest, CheckEnd,
         CheckTestWithoutError, CheckUse, CheckBreak, CheckReturn, CheckOther, CheckError,
         Accept
  <2>2. CASE BeginRegister
    <3>1. source' = source
      BY <2>2 DEF BeginRegister
    <3>2. TestFree
      BY <3>1 DEF TestFree
    <3> QED BY <2>2, <3>2, BeginNames
  <2> QED BY <1>2, <2>1, <2>2
<1> QED BY <1>1, <1>3, <1>4

(* The invariant of the names, with all it rests on.                       *)
Resolved == Base /\ Stack /\ Exact /\ Names

(* It holds in every state.                                                *)
THEOREM AlwaysResolved == Spec => []Resolved
<1>1. Init => Resolved
  <2>1. Init => Names
    BY DEF Init, Names
  <2>2. Init => Exact
    BY DEF Init, Exact, Visiting
  <2> QED BY <2>1, <2>2, BaseInit, StackInit DEF Resolved
<1>2. Resolved /\ [Next]_vars => Resolved'
  BY BaseStep, StackStep, ExactStep, NamesStep DEF Resolved
<1> QED BY <1>1, <1>2, PTL DEF Spec

(* The passes accept the sources without test blocks whose names, breaks   *)
(* and returns are legal by the braces, and no other.                      *)
THEOREM AcceptanceIsLegality == Spec => []AcceptsIffLegal
<1>1. Resolved => AcceptsIffLegal
  <2>1. Legal <=> Wrong \cup Lost = {}
    BY DEF Legal, Faulty, Wrong, Lost
  <2> QED BY <2>1 DEF Resolved, Names, AcceptsIffLegal
<1> QED BY <1>1, AlwaysResolved, PTL

(* A name is resolved to a declaration of the nearest enclosing construct  *)
(* that has one, a function's locals before its argument.                  *)
THEOREM NamesResolveLexically == Spec => []ResolvesLexically
<1>1. Resolved => ResolvesLexically
  <2> SUFFICES ASSUME Resolved, NEW r \in found, TestFree,
                      NEW x, x = source[r[1]].name,
                      NEW having,
                      having = {j \in Around(r[1]) : LocalsOf(j, x) \cup ArgOf(j, x) # {}}
               PROVE  \E j \in having :
                        /\ \A k \in having : k <= j
                        /\ r[2] \in IF LocalsOf(j, x) # {} THEN LocalsOf(j, x)
                                    ELSE ArgOf(j, x)
    BY DEF ResolvesLexically
  <2>1. LeadsTo(r[1], r[2])
    BY DEF Resolved, Names, Answers
  <2>2. having = Having(r[1], x)
    BY DEF Having
  <2> QED BY <2>1, <2>2 DEF LeadsTo
<1> QED BY <1>1, AlwaysResolved, PTL
-----------------------------------------------------------------------------
(* What is declared and found consists of names and items of the source,   *)
(* test blocks or not.                                                     *)
Typed ==
  /\ debug \in BOOLEAN
  /\ \A d \in decls : d[2] \in Var /\ d[3] \in DOMAIN source
  /\ funcs \subseteq DOMAIN source
  /\ within \in BOOLEAN
  /\ found \subseteq (DOMAIN source) \X (DOMAIN source)

(* A visible name is looked up in one of the declarations.                 *)
LEMMA LookupDeclared ==
  ASSUME Stack, NEW x, Visible(x) # {}
  PROVE  Lookup(x) \in decls
<1>1. PICK a \in Nat : DOMAIN scopes = 1..a
  <2>1. scopes \in Seq(AllScopes)
    BY DEF Stack, Ranked
  <2> QED BY <2>1
<1>2. Visible(x) \in SUBSET (1..a)
  BY <1>1 DEF Visible
<1>3. \E k \in Visible(x) : \A j \in Visible(x) : j <= k
  BY <1>1, <1>2, NatMax
<1>4. PICK q : q = CHOOSE k \in Visible(x) : \A j \in Visible(x) : j <= k
  OBVIOUS
<1>5. q \in Visible(x)
  BY <1>3, <1>4
<1>6. Declared(scopes[q], x) # {} /\ Declared(scopes[q], x) \subseteq decls
  BY <1>5 DEF Visible, Declared
<1>7. Lookup(x) = CHOOSE d \in decls : d \in Declared(scopes[q], x)
  BY <1>4 DEF Lookup
<1> QED BY <1>6, <1>7

(* The types are inductive.                                                *)
LEMMA TypedStep == Base /\ Stack /\ Typed /\ [Next]_vars => Typed'
<1> SUFFICES ASSUME Base, Stack, Typed, [Next]_vars PROVE Typed'
  OBVIOUS
<1>1. CASE UNCHANGED vars
  BY <1>1 DEF vars, Typed
<1>2. ASSUME NEW item \in Item, Write(item) PROVE Typed'
  BY <1>2 DEF Write, Base, Quiet, Typed
<1>3. CASE BeginRegister \/ BeginPrecheck \/ BeginCheck
  BY <1>3 DEF BeginRegister, BeginPrecheck, BeginCheck, Typed
<1>4. CASE Next /\ Visiting /\ ~BeginPrecheck /\ ~BeginCheck
  <2>1. PICK h : Legible(h, source) /\ Visited(h, source, pos, nest)
    BY <1>4, NestingElim DEF Base, Visiting
  <2>2. source' = source
    BY <1>4, <2>1, PassMoves DEF Base, Visiting
  <2>3. ASSUME NEW op, At(op)
        PROVE  /\ pos \in DOMAIN source
               /\ op \in {"var", "use"} => Name \in Var
               /\ Name \in Var \cup {NoVar}
    <3>1. pos \in DOMAIN source /\ source[pos].op = op
      BY <2>1, <2>3, AtFacts
    <3>2. Placed(source, nest, pos)
      BY <2>1, <3>1 DEF Legible, Visited
    <3>3. source[pos] \in Item
      BY <2>1, <3>1, LegibleFacts
    <3> QED BY <3>1, <3>2, <3>3 DEF Placed, Name, Item
  <2>4. ASSUME NEW s, NEW m, Throw(s, m) PROVE within' \in BOOLEAN /\ debug' = debug
    BY <2>4 DEF Throw, Typed
  <2>5. CASE RegisterOpen
    <3>1. pos \in DOMAIN source /\ Name \in Var \cup {NoVar}
      BY <2>3, <2>5 DEF RegisterOpen
    <3>2. /\ debug' = debug /\ decls' = decls \cup Argument /\ found' = found
          /\ funcs' = funcs \/ funcs' = funcs \cup {pos}
          /\ within' = TRUE \/ within' = within
      BY <2>5 DEF RegisterOpen
    <3>3. \A d \in Argument : d[2] \in Var /\ d[3] \in DOMAIN source
      BY <3>1 DEF Argument
    <3> QED BY <2>2, <3>1, <3>2, <3>3 DEF Typed
  <2>6. CASE RegisterEnd
    <3>1. /\ debug' = debug /\ decls' = decls /\ found' = found /\ funcs' = funcs
          /\ within' = FALSE \/ within' = within
      BY <2>6 DEF RegisterEnd
    <3> QED BY <2>2, <3>1 DEF Typed
  <2>7. CASE RegisterVar
    <3>1. pos \in DOMAIN source /\ Name \in Var
      BY <2>3, <2>7 DEF RegisterVar
    <3>2. /\ decls' = decls \cup {<<Innermost, Name, pos>>} /\ found' = found
          /\ debug' = debug /\ funcs' = funcs /\ within' = within
      BY <2>7 DEF RegisterVar, Advance
    <3> QED BY <2>2, <3>1, <3>2 DEF Typed
  <2>8. CASE Throws
    <3>1. within' \in BOOLEAN /\ debug' = debug
      BY <2>1, <2>4, <2>8, ThrowsFacts
    <3>2. decls' = decls /\ found' = found /\ funcs' = funcs
      BY <2>8 DEF Throws, RegisterRedeclared, PrecheckError, CheckError,
         CheckTestWithoutError
    <3> QED BY <2>2, <3>1, <3>2 DEF Typed
  <2>9. CASE CheckUse
    <3>1. pos \in DOMAIN source /\ Visible(Name) # {}
      BY <2>3, <2>9 DEF CheckUse
    <3>2. PICK d \in decls : d = Lookup(Name)
      BY <3>1, LookupDeclared
    <3>3. d[3] \in DOMAIN source
      BY <3>2 DEF Typed
    <3>4. /\ found' = found \cup {<<pos, d[3]>>}
          /\ debug' = debug /\ decls' = decls /\ funcs' = funcs /\ within' = within
      BY <2>9, <3>2 DEF CheckUse, Advance
    <3> QED BY <2>2, <3>1, <3>3, <3>4 DEF Typed
  <2>10. CASE \/ RegisterBadTest \/ RegisterOther
              \/ PrecheckOpen \/ PrecheckEnd \/ PrecheckPast \/ CheckOpen \/ CheckSkipTest
              \/ CheckEnd \/ CheckBreak \/ CheckReturn \/ CheckOther \/ Accept
    <3>1. /\ debug' = debug /\ decls' = decls /\ found' = found /\ funcs' = funcs
          /\ within' = TRUE \/ within' = within
      BY <2>10 DEF RegisterBadTest, RegisterOther, PrecheckOpen, PrecheckEnd, PrecheckPast,
         CheckOpen, CheckSkipTest, CheckEnd, CheckBreak, CheckReturn, CheckOther, Accept,
         Advance
    <3> QED BY <2>2, <3>1 DEF Typed
  <2>11. ~BeginRegister /\ ~(\E item \in Item : Write(item))
    BY <1>4 DEF BeginRegister, Write, Visiting
  <2> QED BY <1>4, <2>5, <2>6, <2>7, <2>8, <2>9, <2>10, <2>11 DEF Next, Throws
<1>5. CASE Next /\ ~Visiting
  <2>1. (\E item \in Item : Write(item)) \/ BeginRegister
    BY <1>5 DEF Visiting, Next, RegisterOpen, RegisterBadTest, RegisterEnd, RegisterVar,
         RegisterRedeclared, RegisterOther, BeginPrecheck, PrecheckOpen, PrecheckEnd,
         PrecheckPast, PrecheckError, BeginCheck, CheckOpen, CheckSkipTest, CheckEnd,
         CheckTestWithoutError, CheckUse, CheckBreak, CheckReturn, CheckOther, CheckError,
         Accept
  <2> QED BY <1>2, <1>3, <2>1
<1> QED BY <1>1, <1>3, <1>4, <1>5

(* What has its types when the pass is where the braces say it is.         *)
LEMMA TypesFollow ==
  ASSUME Base, Stack, Typed
  PROVE  TypeOK
<1>1. PICK h : /\ Legible(h, source)
               /\ pc = "writing" => nest = h[Len(source)]
               /\ pc # "writing" => Visited(h, source, pos, nest)
  BY DEF Base, Nesting
<1>2. source \in Seq(Item)
  BY <1>1, LegibleFacts
<1>3. PICK n \in Nat : n = Len(source) /\ DOMAIN source = 1..n
  BY <1>1, LegibleFacts
<1>4. pos \in 1..(n + 1)
  <2>1. CASE pc = "writing"
    BY <2>1, <1>3 DEF Base, Quiet
  <2>2. CASE pc # "writing"
    BY <1>1, <1>3, <2>2 DEF Visited
  <2> QED BY <2>1, <2>2
<1>5. nest \in Seq(1..n)
  <2>1. PICK m \in 0..n : nest = h[m]
    <3>1. CASE pc = "writing"
      BY <1>1, <1>3, <3>1
    <3>2. CASE pc # "writing"
      <4>1. nest = h[pos - 1] /\ pos - 1 \in 0..n
        BY <1>1, <1>3, <1>4, <3>2 DEF Visited
      <4> QED BY <4>1
    <3> QED BY <3>1, <3>2
  <2>2. Ascending(nest, Opens(source), m)
    BY <1>1, <1>3, <2>1 DEF Legible, IsHistory, Recorded
  <2>3. nest \in Seq(1..m)
    BY <2>2 DEF Ascending
  <2>4. (1..m) \subseteq (1..n) /\ m \in Nat
    BY <1>3
  <2> QED BY <2>3, <2>4, SeqWider
<1>6. \A k \in DOMAIN scopes :
        scopes[k] \in {"package", "fn", "loop", "compound", "intrinsic"} \X (0..n)
  <2> SUFFICES ASSUME NEW k \in DOMAIN scopes
               PROVE  scopes[k] \in {"package", "fn", "loop", "compound", "intrinsic"}
                                      \X (0..n)
    OBVIOUS
  <2>1. PICK z : z = scopes[k]
    OBVIOUS
  <2>2. z \in AllScopes
    <3>1. scopes \in Seq(AllScopes)
      BY DEF Stack, Ranked
    <3> QED BY <2>1, <3>1
  <2>3. z[2] \in Nat /\ z[2] < pos
    BY <2>1, <2>2 DEF Stack, Ranked, AllScopes
  <2>4. z[2] \in 0..n
    BY <1>3, <1>4, <2>3
  <2> QED BY <2>1, <2>2, <2>4 DEF AllScopes
<1>7. caught \subseteq DOMAIN source
  BY DEF Base, CaughtTests
<1> QED BY <1>2, <1>3, <1>4, <1>5, <1>6, <1>7 DEF Base, Phases, Typed, TypeOK

(* All variables keep their types.                                         *)
THEOREM TypeCorrect == Spec => []TypeOK
<1>1. Init => Base /\ Stack /\ Typed
  <2>1. Init => Typed
    BY DEF Init, Typed
  <2> QED BY <2>1, BaseInit, StackInit
<1>2. Base /\ Stack /\ Typed /\ [Next]_vars => (Base /\ Stack /\ Typed)'
  BY BaseStep, StackStep, TypedStep
<1>3. Base /\ Stack /\ Typed => TypeOK
  BY TypesFollow
<1> QED BY <1>1, <1>2, <1>3, PTL DEF Spec
=============================================================================
