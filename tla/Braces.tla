------------------------------- MODULE Braces -------------------------------
(***************************************************************************)
(* Lemmas about the braces of a source: a sequence of items, of which some *)
(* open a construct and some end the innermost one.  They say what the     *)
(* passes of ControlFlow and Scopes know of the constructs around an item, *)
(* which a pass keeps in a sequence as it goes, and the properties define  *)
(* by counting braces.                                                     *)
(*                                                                         *)
(* O is the set of the positions that open a construct and E the set of    *)
(* those that end one.  A history gives the openers around the item behind *)
(* each position.  It stands for an induction over the source: a source    *)
(* that is written item by item has one at every step.                     *)
(***************************************************************************)
EXTENDS Integers, Sequences, FiniteSets, FiniteSetTheorems, SequenceTheorems,
        WellFoundedInduction, TLAPS

(* The openers around the item behind p, if n are those around p.          *)
Behind(n, O, E, p) ==
  IF p \in O THEN Append(n, p)
  ELSE IF p \in E THEN SubSeq(n, 1, Len(n) - 1) ELSE n

(* How many more constructs are opened than ended from i to j.             *)
Balance(O, E, i, j) ==
  Cardinality({k \in i..j : k \in O}) - Cardinality({k \in i..j : k \in E})

(* The openers around an item are positions before it, outer ones first.   *)
Ascending(n, O, p) ==
  /\ n \in Seq(1..p)
  /\ \A k \in DOMAIN n : n[k] \in O
  /\ \A j, k \in DOMAIN n : j < k => n[j] < n[k]

(* Constructs that are not ended in between stay open.                     *)
Stands(h, p) ==
  \A a \in 0..p :
    (\A k \in a..p : Len(h[a]) <= Len(h[k])) =>
      \A m \in 1..Len(h[a]) : h[p][m] = h[a][m]

(* The construct at level k was opened at that level, and has not ended.   *)
Levels(h, p) ==
  \A k \in DOMAIN h[p] :
    /\ Len(h[h[p][k] - 1]) = k - 1
    /\ \A j \in h[p][k]..p : k <= Len(h[j])

(* The level is what the braces count.                                     *)
Counts(h, O, E, p) ==
  \A a \in 0..p : Balance(O, E, a + 1, p) = Len(h[p]) - Len(h[a])

(* The openers around the item at p and behind it.                         *)
Step(h, O, E, p) ==
  /\ O \cap E = {}
  /\ h[p - 1] \in Seq(Nat) /\ h[p] \in Seq(Nat)
  /\ h[p] = Behind(h[p - 1], O, E, p)
  /\ p \in E => h[p - 1] # <<>>

(* What a history says of the position p.                                  *)
Recorded(h, O, E, p) ==
  /\ Ascending(h[p], O, p)
  /\ Stands(h, p)
  /\ Levels(h, p)
  /\ Counts(h, O, E, p)

IsHistory(h, O, E, l) ==
  /\ O \cap E = {}
  /\ h \in [Nat -> Seq(Nat)]
  /\ h[0] = <<>>
  /\ \A p \in 1..l : Step(h, O, E, p)
  /\ \A p \in 0..l : Recorded(h, O, E, p)

-----------------------------------------------------------------------------
(* A sequence over a set is one over a bigger set.                         *)
LEMMA SeqWider ==
  ASSUME NEW S, NEW T, S \subseteq T, NEW n \in Seq(S)
  PROVE  n \in Seq(T) /\ \A k \in DOMAIN n : n[k] \in S
<1>1. n \in [1..Len(n) -> S] /\ Len(n) \in Nat
  OBVIOUS
<1>2. n \in [1..Len(n) -> T]
  BY <1>1
<1> QED BY <1>1, <1>2

(* The members of a sequence over S are in S.                              *)
LEMMA SeqMember ==
  ASSUME NEW S, NEW n \in Seq(S)
  PROVE  \A k \in DOMAIN n : n[k] \in S
OBVIOUS

(* The beginning of a sequence.                                            *)
LEMMA FirstOf ==
  ASSUME NEW S, NEW n \in Seq(S), NEW l \in 0..Len(n)
  PROVE  /\ SubSeq(n, 1, l) \in Seq(S) /\ Len(SubSeq(n, 1, l)) = l
         /\ \A k \in 1..l : SubSeq(n, 1, l)[k] = n[k]
<1>1. Len(n) \in Nat /\ l \in Nat /\ l <= Len(n) /\ l \in Int /\ 1 \in Int
  OBVIOUS
<1>2. \A k \in 1..l : n[k] \in S
  <2>1. \A k \in 1..l : k \in 1..Len(n)
    BY <1>1
  <2>2. \A k \in 1..Len(n) : n[k] \in S
    OBVIOUS
  <2> QED BY <2>1, <2>2
<1> DEFINE m == SubSeq(n, 1, l)
<1>4. /\ m \in Seq(S) /\ Len(m) = IF 1 <= l THEN l - 1 + 1 ELSE 0
      /\ \A k \in 1..(l - 1 + 1) : m[k] = n[1 + k - 1]
  BY <1>1, <1>2, SubSeqProperties
<1>6. \A k \in 1..l : 1 + k - 1 = k
  BY <1>1
<1>7. l - 1 + 1 = l /\ Len(m) = l /\ \A k \in 1..l : m[k] = n[k]
  BY <1>1, <1>4, <1>6
<1> QED BY <1>4, <1>7

(* One item: a level up, a level down, or none.                            *)
LEMMA BehindIsSeq ==
  ASSUME NEW n \in Seq(Nat), NEW O, NEW E, NEW p \in Nat, p \in E => n # <<>>
  PROVE  Behind(n, O, E, p) \in Seq(Nat)
<1>1. CASE p \in O
  BY <1>1 DEF Behind
<1>2. CASE p \notin O /\ p \in E
  <2>1. Len(n) - 1 \in 0..Len(n)
    BY <1>2
  <2> QED BY <1>2, <2>1, FirstOf DEF Behind
<1>3. CASE p \notin O /\ p \notin E
  BY <1>3 DEF Behind
<1> QED BY <1>1, <1>2, <1>3

(* Behind an opener there is one construct more, the opener last.          *)
LEMMA Up ==
  ASSUME NEW n \in Seq(Nat), NEW O, NEW E, NEW p \in Nat, NEW m \in Seq(Nat),
         m = Behind(n, O, E, p), p \in O
  PROVE  /\ Len(m) = Len(n) + 1 /\ m[Len(n) + 1] = p
         /\ \A k \in 1..Len(n) : m[k] = n[k]
<1>1. m = Append(n, p)
  BY DEF Behind
<1> QED BY <1>1

(* Behind an end there is one construct less.                              *)
LEMMA Down ==
  ASSUME NEW n \in Seq(Nat), NEW O, NEW E, NEW p \in Nat, NEW m \in Seq(Nat),
         m = Behind(n, O, E, p), p \in E, n # <<>>, O \cap E = {}
  PROVE  /\ Len(m) = Len(n) - 1 /\ Len(n) > 0
         /\ \A k \in 1..Len(m) : m[k] = n[k]
<1> DEFINE l == Len(n) - 1
<1>1. l \in 0..Len(n) /\ Len(n) > 0
  OBVIOUS
<1>2. m = SubSeq(n, 1, l)
  BY DEF Behind
<1> HIDE DEF l
<1>3. Len(m) = l /\ \A k \in 1..l : m[k] = n[k]
  BY <1>1, <1>2, FirstOf
<1> QED BY <1>1, <1>3 DEF l

(* Behind any other item there are the same.                               *)
LEMMA Level ==
  ASSUME NEW n \in Seq(Nat), NEW O, NEW E, NEW p \in Nat, NEW m \in Seq(Nat),
         m = Behind(n, O, E, p), p \notin O, p \notin E
  PROVE  m = n
BY DEF Behind

(* Whatever the item is, what was open below both levels is the same.      *)
LEMMA BehindFacts ==
  ASSUME NEW n \in Seq(Nat), NEW O, NEW E, NEW p \in Nat, NEW m \in Seq(Nat),
         m = Behind(n, O, E, p), p \in E => n # <<>>, O \cap E = {}
  PROVE  /\ \A k \in 1..Len(n) : k <= Len(m) => m[k] = n[k]
         /\ p \in O => Len(m) = Len(n) + 1
         /\ p \in E => Len(m) = Len(n) - 1
         /\ p \notin O => Len(m) <= Len(n)
         /\ p \notin O /\ p \notin E => Len(m) = Len(n)
<1>0. Len(n) \in Nat /\ Len(m) \in Nat
  OBVIOUS
<1>1. CASE p \in O
  <2>1. p \notin E
    BY <1>1
  <2> QED BY <1>1, <2>1, Up
<1>2. CASE p \in E
  <2>1. p \notin O /\ n # <<>>
    BY <1>2
  <2>2. Len(m) = Len(n) - 1 /\ \A k \in 1..Len(m) : m[k] = n[k]
    BY SMTT(30), <1>2, <2>1, Down
  <2>3. \A k \in 1..Len(n) : k <= Len(m) => k \in 1..Len(m)
    BY <1>0
  <2> QED BY <1>0, <1>2, <2>1, <2>2, <2>3
<1>3. CASE p \notin O /\ p \notin E
  <2>1. m = n
    BY <1>3, Level
  <2> QED BY <1>0, <1>3, <2>1
<1> QED BY <1>1, <1>2, <1>3

-----------------------------------------------------------------------------
(* What one item changes of the openers, and of each part of a history.    *)
Moves(n, m, O, E, p) ==
  /\ Len(n) \in Nat /\ Len(m) \in Nat
  /\ DOMAIN n = 1..Len(n) /\ DOMAIN m = 1..Len(m)
  /\ \A k \in 1..Len(n) : k <= Len(m) => m[k] = n[k]
  /\ p \in O => Len(m) = Len(n) + 1 /\ m[Len(n) + 1] = p
  /\ p \in E => Len(m) = Len(n) - 1
  /\ p \notin O => Len(m) <= Len(n)
  /\ p \notin O /\ p \notin E => Len(m) = Len(n)

(* One step of a history is one of these moves.                            *)
LEMMA StepFacts ==
  ASSUME NEW h, NEW O, NEW E, NEW p \in Nat, Step(h, O, E, p)
  PROVE  \E n, m \in Seq(Nat) : n = h[p - 1] /\ m = h[p] /\ Moves(n, m, O, E, p)
<1>1. PICK n, m \in Seq(Nat) : /\ n = h[p - 1] /\ m = h[p]
                               /\ m = Behind(n, O, E, p) /\ O \cap E = {}
                               /\ p \in E => n # <<>>
  BY DEF Step
<1>2. m = Behind(n, O, E, p) /\ O \cap E = {} /\ (p \in E => n # <<>>)
  BY <1>1
<1>3. /\ \A k \in 1..Len(n) : k <= Len(m) => m[k] = n[k]
      /\ p \in O => Len(m) = Len(n) + 1
      /\ p \in E => Len(m) = Len(n) - 1
      /\ p \notin O => Len(m) <= Len(n)
  BY SMTT(30), <1>2, BehindFacts
<1>4. /\ p \in O => m[Len(n) + 1] = p
      /\ p \notin O /\ p \notin E => m = n
  BY <1>2, Up, Level
<1>5. /\ Len(n) \in Nat /\ Len(m) \in Nat
      /\ DOMAIN n = 1..Len(n) /\ DOMAIN m = 1..Len(m)
  OBVIOUS
<1>6. Moves(n, m, O, E, p)
  BY <1>3, <1>4, <1>5 DEF Moves
<1> QED BY <1>1, <1>6

(* The openers stay in the order they stand in.                            *)
LEMMA AscendingStep ==
  ASSUME NEW O, NEW E, NEW p \in Nat, p > 0, NEW n \in Seq(Nat), NEW m \in Seq(Nat),
         Moves(n, m, O, E, p), Ascending(n, O, p - 1)
  PROVE  Ascending(m, O, p)
<1>1. /\ Len(n) \in Nat /\ Len(m) \in Nat
      /\ DOMAIN n = 1..Len(n) /\ DOMAIN m = 1..Len(m)
  BY DEF Moves
<1>2. ASSUME NEW k \in DOMAIN m
      PROVE  \/ k \in DOMAIN n /\ m[k] = n[k]
             \/ p \in O /\ k = Len(n) + 1 /\ m[k] = p
  <2>1. CASE k \in 1..Len(n)
    <3>1. k <= Len(m)
      BY <1>1
    <3>2. \A i \in 1..Len(n) : i <= Len(m) => m[i] = n[i]
      BY DEF Moves
    <3>3. m[k] = n[k]
      BY <2>1, <3>1, <3>2
    <3> QED BY <1>1, <2>1, <3>3
  <2>2. CASE k \notin 1..Len(n)
    <3>1. p \in O
      <4>1. p \notin O => Len(m) <= Len(n)
        BY DEF Moves
      <4> QED BY <1>1, <2>2, <4>1
    <3>2. Len(m) = Len(n) + 1 /\ m[Len(n) + 1] = p
      BY <3>1 DEF Moves
    <3>3. PICK a, b \in Nat : a = Len(n) /\ b = Len(m)
      BY <1>1
    <3>4. k \in 1..b /\ k \notin 1..a /\ b = a + 1
      BY <1>1, <2>2, <3>2, <3>3
    <3>5. k = a + 1
      BY <3>4
    <3> QED BY <3>1, <3>2, <3>3, <3>5
  <2> QED BY <2>1, <2>2
<1>3. \A k \in DOMAIN n : n[k] \in 1..(p - 1) /\ n[k] \in O
  BY DEF Ascending
<1>4. \A k \in DOMAIN m : m[k] \in 1..p /\ m[k] \in O
  <2>1. p \in 1..p /\ 1..(p - 1) \subseteq 1..p
    OBVIOUS
  <2> QED BY <1>2, <1>3, <2>1
<1>5. m \in Seq(1..p)
  <2>1. PICK b \in Nat : b = Len(m) /\ DOMAIN m = 1..b
    BY <1>1
  <2>2. m \in [1..b -> 1..p]
    BY <1>4, <2>1
  <2> QED BY <2>2
<1>6. \A j, k \in DOMAIN m : j < k => m[j] < m[k]
  <2> SUFFICES ASSUME NEW j \in DOMAIN m, NEW k \in DOMAIN m, j < k
               PROVE  m[j] < m[k]
    OBVIOUS
  <2>1. j \in DOMAIN n /\ m[j] = n[j]
    <3>1. j # Len(n) + 1
      <4>1. p \notin O => Len(m) <= Len(n)
        BY DEF Moves
      <4>2. p \in O => Len(m) = Len(n) + 1
        BY DEF Moves
      <4>3. PICK a, b \in Nat : a = Len(n) /\ b = Len(m)
        BY <1>1
      <4>4. b <= a + 1
        BY <4>1, <4>2, <4>3
      <4>5. j \in 1..b /\ k \in 1..b
        BY <1>1, <4>3
      <4>6. j # a + 1
        BY <4>4, <4>5
      <4> QED BY <4>3, <4>6
    <3> QED BY <1>2, <3>1
  <2>2. CASE k \in DOMAIN n /\ m[k] = n[k]
    BY <2>1, <2>2 DEF Ascending
  <2>3. CASE m[k] = p
    <3>1. n[j] \in 1..(p - 1)
      BY <1>3, <2>1
    <3> QED BY <2>1, <2>3, <3>1
  <2> QED BY <1>2, <2>2, <2>3
<1> QED BY <1>4, <1>5, <1>6 DEF Ascending

(* What is open stays open until its end.                                  *)
LEMMA StandsStep ==
  ASSUME NEW h \in [Nat -> Seq(Nat)], NEW O, NEW E, NEW p \in Nat, p > 0,
         Step(h, O, E, p), Stands(h, p - 1)
  PROVE  Stands(h, p)
<1>1. PICK n, m \in Seq(Nat) : n = h[p - 1] /\ m = h[p] /\ Moves(n, m, O, E, p)
  BY StepFacts
<1>2. PICK c, d \in Nat : c = Len(n) /\ d = Len(m)
  BY <1>1 DEF Moves
<1>3. \A k \in 1..c : k <= d => m[k] = n[k]
  BY <1>1, <1>2 DEF Moves
<1>0. \A a \in 0..p : Len(h[a]) \in Nat
  OBVIOUS
<1>4. SUFFICES ASSUME NEW a \in 0..p, \A k \in a..p : Len(h[a]) <= Len(h[k]),
                      NEW k \in 1..Len(h[a])
               PROVE  h[p][k] = h[a][k]
  BY DEF Stands
<1>5. CASE a = p
  BY <1>5
<1>6. CASE a # p
  <2>1. a \in 0..(p - 1) /\ p - 1 \in a..p /\ p \in a..p /\ a..(p - 1) \subseteq a..p
    BY <1>6
  <2>2. h[p - 1][k] = h[a][k]
    BY <1>4, <2>1 DEF Stands
  <2>3. PICK l \in Nat : l = Len(h[a])
    BY <1>0
  <2>4. Len(h[a]) <= Len(h[p - 1]) /\ Len(h[a]) <= Len(h[p])
    BY <1>4, <2>1
  <2>5. l <= c /\ l <= d
    BY <1>1, <1>2, <2>3, <2>4
  <2>6. k \in 1..l
    BY <2>3
  <2>7. k \in 1..c /\ k <= d
    BY <2>3, <2>5, <2>6
  <2>8. m[k] = n[k]
    BY <1>3, <2>7
  <2> QED BY <1>1, <2>2, <2>8
<1> QED BY <1>5, <1>6

(* How deep an opener stands stays what it was.                            *)
LEMMA LevelsStep ==
  ASSUME NEW h, NEW O, NEW E, NEW p \in Nat, p > 0, Step(h, O, E, p),
         Levels(h, p - 1)
  PROVE  Levels(h, p)
<1>1. PICK n, m \in Seq(Nat) : n = h[p - 1] /\ m = h[p] /\ Moves(n, m, O, E, p)
  BY StepFacts
<1>2. PICK a, b \in Nat : a = Len(n) /\ b = Len(m) /\ DOMAIN n = 1..a /\ DOMAIN m = 1..b
  BY <1>1 DEF Moves
<1>3. \A k \in 1..a : k <= b => m[k] = n[k]
  BY <1>1, <1>2 DEF Moves
<1>4. SUFFICES ASSUME NEW k \in 1..b
               PROVE  /\ Len(h[m[k] - 1]) = k - 1
                      /\ \A j \in m[k]..p : k <= Len(h[j])
  BY <1>1, <1>2 DEF Levels
<1>5. CASE k \in 1..a
  <2>1. m[k] = n[k] /\ n[k] \in Nat
    BY <1>2, <1>3, <1>5
  <2>2. Len(h[n[k] - 1]) = k - 1 /\ \A j \in n[k]..(p - 1) : k <= Len(h[j])
    BY <1>1, <1>2, <1>5 DEF Levels
  <2>3. \A j \in n[k]..p : j \in n[k]..(p - 1) \/ j = p
    BY <2>1
  <2>4. k <= Len(h[p])
    <3>1. k <= b
      OBVIOUS
    <3> QED BY <1>1, <1>2, <3>1
  <2>5. \A j \in n[k]..p : k <= Len(h[j])
    BY <2>2, <2>3, <2>4
  <2>6. m[k] = n[k]
    BY <2>1
  <2> QED BY <2>2, <2>5, <2>6
<1>6. CASE k \notin 1..a
  <2>1. p \in O
    <3>1. p \notin O => b <= a
      BY <1>1, <1>2 DEF Moves
    <3> QED BY <1>6, <3>1
  <2>2. b = a + 1 /\ m[a + 1] = p
    BY <1>1, <1>2, <2>1 DEF Moves
  <2>3. k = a + 1
    BY <1>6, <2>2
  <2>4. m[k] = p /\ k = b /\ a = k - 1
    BY <2>2, <2>3
  <2>5. Len(h[p - 1]) = k - 1 /\ Len(h[p]) = k
    BY <1>1, <1>2, <2>4
  <2>6. \A j \in p..p : j = p
    OBVIOUS
  <2>7. k <= Len(h[p])
    BY <2>5
  <2>8. \A j \in p..p : k <= Len(h[j])
    BY <2>6, <2>7
  <2>9. m[k] = p
    BY <2>4
  <2> QED BY <2>5, <2>8, <2>9
<1> QED BY <1>5, <1>6

(* The balance of nothing, and of one more item.                           *)
LEMMA BalanceBase ==
  ASSUME NEW O, NEW E, NEW i \in Nat
  PROVE  Balance(O, E, i, i - 1) = 0
<1>1. i..(i - 1) = {}
  OBVIOUS
<1>2. {k \in i..(i - 1) : k \in O} = {} /\ {k \in i..(i - 1) : k \in E} = {}
  BY <1>1
<1> QED BY <1>2, FS_EmptySet DEF Balance

(* The balance moves with the braces.                                      *)
LEMMA BalanceStep ==
  ASSUME NEW O, NEW E, O \cap E = {}, NEW i \in Nat, NEW p \in Nat, i <= p
  PROVE  /\ Balance(O, E, i, p) \in Int
         /\ Balance(O, E, i, p - 1) \in Int
         /\ p \in O => Balance(O, E, i, p) = Balance(O, E, i, p - 1) + 1
         /\ p \in E => Balance(O, E, i, p) = Balance(O, E, i, p - 1) - 1
         /\ p \notin O \cup E => Balance(O, E, i, p) = Balance(O, E, i, p - 1)
<1> DEFINE In(S, q) == {k \in i..q : k \in S}
<1>1. \A q \in Int : IsFiniteSet(i..q)
  BY FS_Interval
<1>2. ASSUME NEW S, NEW q \in Int
      PROVE  IsFiniteSet(In(S, q))
  <2>1. In(S, q) \subseteq i..q
    OBVIOUS
  <2> QED BY <1>1, <2>1, FS_Subset
<1>3. ASSUME NEW S, NEW q \in Int
      PROVE  Cardinality(In(S, q)) \in Nat
  BY <1>2, FS_CardinalityType
<1>4. i..p = (i..(p - 1)) \cup {p} /\ p \notin i..(p - 1) /\ p - 1 \in Int /\ p \in Int
  OBVIOUS
<1>5. ASSUME NEW S, p \in S
      PROVE  Cardinality(In(S, p)) = Cardinality(In(S, p - 1)) + 1
  <2>1. In(S, p) = In(S, p - 1) \cup {p}
    BY <1>4, <1>5
  <2>2. p \notin In(S, p - 1)
    BY <1>4
  <2>3. IsFiniteSet(In(S, p - 1))
    BY <1>2, <1>4
  <2> HIDE DEF In
  <2> QED BY <2>1, <2>2, <2>3, FS_AddElement
<1>6. ASSUME NEW S, p \notin S
      PROVE  In(S, p) = In(S, p - 1)
  BY <1>4, <1>6
<1>7. \A q : Balance(O, E, i, q) = Cardinality(In(O, q)) - Cardinality(In(E, q))
  BY DEF Balance
<1> HIDE DEF In
<1>8. CASE p \in O
  BY <1>3, <1>4, <1>5, <1>6, <1>7, <1>8
<1>9. CASE p \in E
  BY <1>3, <1>4, <1>5, <1>6, <1>7, <1>9
<1>10. CASE p \notin O \cup E
  BY <1>3, <1>4, <1>6, <1>7, <1>10
<1> QED BY <1>8, <1>9, <1>10

(* It is how much deeper the braces have gone.                             *)
LEMMA CountsStep ==
  ASSUME NEW h \in [Nat -> Seq(Nat)], NEW O, NEW E, NEW p \in Nat, p > 0,
         Step(h, O, E, p), Counts(h, O, E, p - 1)
  PROVE  Counts(h, O, E, p)
<1>1. PICK n, m \in Seq(Nat) : n = h[p - 1] /\ m = h[p] /\ Moves(n, m, O, E, p)
  BY StepFacts
<1>2. /\ Len(n) \in Nat /\ Len(m) \in Nat
      /\ p \in O => Len(m) = Len(n) + 1
      /\ p \in E => Len(m) = Len(n) - 1
      /\ p \notin O /\ p \notin E => Len(m) = Len(n)
  BY <1>1 DEF Moves
<1>3. O \cap E = {}
  BY DEF Step
<1>4. SUFFICES ASSUME NEW a \in 0..p
               PROVE  Balance(O, E, a + 1, p) = Len(m) - Len(h[a])
  BY <1>1 DEF Counts
<1>5. CASE a = p
  <2>1. p + 1 \in Nat /\ p + 1 - 1 = p
    OBVIOUS
  <2>2. Balance(O, E, p + 1, p) = 0
    <3>1. PICK q \in Nat : q = p + 1 /\ q - 1 = p
      BY <2>1
    <3>2. Balance(O, E, q, q - 1) = 0
      BY BalanceBase
    <3> QED BY <3>1, <3>2
  <2>3. Len(m) - Len(m) = 0
    BY <1>2
  <2>4. Len(h[a]) = Len(m)
    BY <1>1, <1>5
  <2> QED BY <1>5, <2>2, <2>3, <2>4
<1>6. CASE a # p
  <2>1. a + 1 \in Nat /\ a + 1 <= p /\ a \in 0..(p - 1)
    BY <1>6
  <2>2. /\ Balance(O, E, a + 1, p) \in Int /\ Balance(O, E, a + 1, p - 1) \in Int
        /\ Len(h[a]) \in Nat
    <3>1. Balance(O, E, a + 1, p) \in Int /\ Balance(O, E, a + 1, p - 1) \in Int
      BY <1>3, <2>1, BalanceStep
    <3>2. Len(h[a]) \in Nat
      OBVIOUS
    <3> QED BY <3>1, <3>2
  <2>3. PICK b, c \in Int, l \in Nat :
          /\ b = Balance(O, E, a + 1, p) /\ c = Balance(O, E, a + 1, p - 1)
          /\ l = Len(h[a])
    BY <2>2
  <2>4. c = Len(n) - l
    BY <1>1, <2>1, <2>3 DEF Counts
  <2>5. CASE p \in O
    <3>1. b = c + 1
      BY <1>3, <2>1, <2>3, <2>5, BalanceStep
    <3>2. b = Len(m) - l
      BY <1>2, <2>4, <2>5, <3>1
    <3> QED BY <2>3, <3>2
  <2>6. CASE p \in E
    <3>1. b = c - 1
      BY <1>3, <2>1, <2>3, <2>6, BalanceStep
    <3>2. b = Len(m) - l
      BY <1>2, <2>4, <2>6, <3>1
    <3> QED BY <2>3, <3>2
  <2>7. CASE p \notin O /\ p \notin E
    <3>1. b = c
      BY <1>3, <2>1, <2>3, <2>7, BalanceStep
    <3>2. b = Len(m) - l
      BY <1>2, <2>4, <2>7, <3>1
    <3> QED BY <2>3, <3>2
  <2> QED BY <2>5, <2>6, <2>7
<1> QED BY <1>5, <1>6

-----------------------------------------------------------------------------
(* The history of an empty source.                                         *)
LEMMA HistoryOfNothing ==
  ASSUME NEW O, NEW E, O \cap E = {}
  PROVE  \E h : IsHistory(h, O, E, 0)
<1> DEFINE h == [p \in Nat |-> <<>>]
<1>1. h \in [Nat -> Seq(Nat)] /\ h[0] = <<>>
  OBVIOUS
<1>2. Ascending(<<>>, O, 0)
  BY DEF Ascending
<1>3. Stands(h, 0) /\ Levels(h, 0)
  BY DEF Stands, Levels
<1>4. Counts(h, O, E, 0)
  <2>1. Balance(O, E, 1, 0) = 0
    <3>1. PICK q \in Nat : q = 1 /\ q - 1 = 0
      OBVIOUS
    <3>2. Balance(O, E, q, q - 1) = 0
      BY BalanceBase
    <3> QED BY <3>1, <3>2
  <2>2. \A a \in 0..0 : a = 0 /\ a + 1 = 1
    OBVIOUS
  <2>3. Len(h[0]) - Len(h[0]) = 0
    BY <1>1
  <2> HIDE DEF h
  <2> QED BY <2>1, <2>2, <2>3 DEF Counts
<1> HIDE DEF h
<1>5. /\ \A p \in 1..0 : Step(h, O, E, p)
      /\ \A p \in 0..0 : p = 0
  OBVIOUS
<1>6. Recorded(h, O, E, 0)
  BY <1>1, <1>2, <1>3, <1>4 DEF Recorded
<1> QED BY <1>1, <1>5, <1>6 DEF IsHistory

(* Two sets of positions that agree up to l, and two histories that do.    *)
Agree(S, T, l) == \A k \in 1..l : k \in S <=> k \in T
Extends(g, h, l) == \A a \in 0..l : g[a] = h[a]

(* An item that ends a construct is in one.                                *)
InOne(h, E, p) == p \in E => h[p - 1] # <<>>

(* What is recorded of a position stays when the source grows behind it.   *)
LEMMA RecordedStays ==
  ASSUME NEW O, NEW E, NEW P, NEW F, NEW p \in Nat,
         NEW h \in [Nat -> Seq(Nat)], NEW g \in [Nat -> Seq(Nat)],
         Agree(O, P, p), Agree(E, F, p), Extends(g, h, p), Recorded(h, O, E, p)
  PROVE  Recorded(g, P, F, p)
<1>1. g[p] = h[p] /\ p \in 0..p
  BY DEF Extends
<1>2. Ascending(g[p], P, p)
  <2>1. PICK n : n = h[p]
    OBVIOUS
  <2>2. Ascending(n, O, p)
    BY <2>1 DEF Recorded
  <2>3. n \in Seq(1..p)
    BY <2>2 DEF Ascending
  <2>4. \A k \in DOMAIN n : n[k] \in 1..p
    BY <2>3, SeqMember
  <2>5. \A k \in DOMAIN n : n[k] \in P
    BY <2>2, <2>4 DEF Ascending, Agree
  <2>6. Ascending(n, P, p)
    BY <2>2, <2>3, <2>5 DEF Ascending
  <2> QED BY <1>1, <2>1, <2>6
<1>3. Stands(g, p)
  <2>1. \A a \in 0..p : \A k \in a..p : k \in 0..p
    OBVIOUS
  <2>2. Stands(h, p)
    BY DEF Recorded
  <2> QED BY <1>1, <2>1, <2>2 DEF Stands, Extends
<1>4. Levels(g, p)
  <2>1. PICK n : n = h[p]
    OBVIOUS
  <2>2. \A k \in DOMAIN n : n[k] \in 1..p
    <3>1. n \in Seq(1..p)
      BY <2>1 DEF Recorded, Ascending
    <3> QED BY <3>1, SeqMember
  <2>3. \A k \in DOMAIN n : n[k] - 1 \in 0..p /\ \A j \in n[k]..p : j \in 0..p
    <3>1. \A i \in 1..p : i - 1 \in 0..p /\ \A j \in i..p : j \in 0..p
      OBVIOUS
    <3> QED BY <2>2, <3>1
  <2>4. \A k \in DOMAIN n : Len(h[n[k] - 1]) = k - 1 /\ \A j \in n[k]..p : k <= Len(h[j])
    BY <2>1 DEF Recorded, Levels
  <2>5. \A k \in DOMAIN n : Len(g[n[k] - 1]) = k - 1 /\ \A j \in n[k]..p : k <= Len(g[j])
    BY <2>3, <2>4 DEF Extends
  <2>6. g[p] = n
    BY <1>1, <2>1
  <2> QED BY <2>5, <2>6 DEF Levels
<1>5. Counts(g, P, F, p)
  <2> SUFFICES ASSUME NEW a \in 0..p
               PROVE  Balance(P, F, a + 1, p) = Len(g[p]) - Len(g[a])
    BY DEF Counts
  <2>1. \A k \in (a + 1)..p : k \in 1..p
    OBVIOUS
  <2>2. /\ {k \in (a + 1)..p : k \in P} = {k \in (a + 1)..p : k \in O}
        /\ {k \in (a + 1)..p : k \in F} = {k \in (a + 1)..p : k \in E}
    BY <2>1 DEF Agree
  <2>3. Balance(P, F, a + 1, p) = Balance(O, E, a + 1, p)
    BY <2>2 DEF Balance
  <2>4. Balance(O, E, a + 1, p) = Len(h[p]) - Len(h[a])
    BY DEF Recorded, Counts
  <2>5. g[p] = h[p] /\ g[a] = h[a]
    BY <1>1 DEF Extends
  <2> QED BY <2>3, <2>4, <2>5
<1> QED BY <1>2, <1>3, <1>4, <1>5 DEF Recorded

(* A source that grows by an item has a history that grows.                *)
LEMMA HistoryGrows ==
  ASSUME NEW O, NEW E, NEW P, NEW F, NEW l \in Nat, NEW h,
         IsHistory(h, O, E, l), P \cap F = {},
         Agree(O, P, l), Agree(E, F, l), InOne(h, F, l + 1)
  PROVE  \E g : /\ IsHistory(g, P, F, l + 1)
                /\ g[l + 1] = Behind(h[l], P, F, l + 1)
                /\ Extends(g, h, l)
<1>0. h \in [Nat -> Seq(Nat)] /\ h[l] \in Seq(Nat) /\ h[0] = <<>> /\ l + 1 \in Nat
  BY DEF IsHistory
<1>a. l + 1 \in F => h[l] # <<>>
  <2>1. l + 1 - 1 = l
    BY <1>0
  <2> QED BY <2>1 DEF InOne
<1>1. PICK m \in Seq(Nat) : m = Behind(h[l], P, F, l + 1)
  BY <1>0, <1>a, BehindIsSeq
<1>2. PICK g \in [Nat -> Seq(Nat)] : g[l + 1] = m /\ Extends(g, h, l)
  <2> DEFINE g == [h EXCEPT ![l + 1] = m]
  <2>1. g \in [Nat -> Seq(Nat)] /\ g[l + 1] = m
    BY <1>0
  <2>2. \A p \in 0..l : p \in Nat /\ p # l + 1
    OBVIOUS
  <2>3. \A p \in 0..l : g[p] = h[p]
    BY <1>0, <2>2
  <2> QED BY <2>1, <2>3 DEF Extends
<1>3. ASSUME NEW p \in 1..l
      PROVE  Step(g, P, F, p)
  <2>1. Step(h, O, E, p)
    BY DEF IsHistory
  <2>2. p \in 0..l /\ p - 1 \in 0..l
    OBVIOUS
  <2>3. g[p] = h[p] /\ g[p - 1] = h[p - 1]
    BY <1>2, <2>2 DEF Extends
  <2>4. (p \in O <=> p \in P) /\ (p \in E <=> p \in F)
    BY DEF Agree
  <2>5. Behind(h[p - 1], P, F, p) = Behind(h[p - 1], O, E, p)
    BY <2>4 DEF Behind
  <2> QED BY <2>1, <2>3, <2>4, <2>5 DEF Step
<1>4. Step(g, P, F, l + 1)
  <2>1. g[l + 1] \in Seq(Nat) /\ g[l] \in Seq(Nat) /\ l + 1 - 1 = l /\ l \in 0..l
    BY <1>0
  <2>2. g[l] = h[l] /\ g[l + 1] = Behind(h[l], P, F, l + 1)
    BY <1>1, <1>2, <2>1 DEF Extends
  <2> QED BY SMTT(30), <1>a, <2>1, <2>2 DEF Step
<1>5. ASSUME NEW p \in 0..l
      PROVE  Recorded(g, P, F, p)
  <2>1. Recorded(h, O, E, p)
    BY DEF IsHistory
  <2>2. 1..p \subseteq 1..l /\ 0..p \subseteq 0..l /\ p \in Nat
    BY SMTT(30)
  <2>3. Agree(O, P, p) /\ Agree(E, F, p) /\ Extends(g, h, p)
    BY <1>2, <2>2 DEF Agree, Extends
  <2> QED BY <1>0, <2>1, <2>2, <2>3, RecordedStays
<1>6. Recorded(g, P, F, l + 1)
  <2>1. PICK q \in Nat : q = l + 1 /\ q > 0 /\ q - 1 = l
    BY <1>0
  <2>2. Recorded(g, P, F, q - 1) /\ Step(g, P, F, q)
    BY <1>4, <1>5, <2>1
  <2>3. Ascending(g[q], P, q)
    <3>1. PICK n, k \in Seq(Nat) : n = g[q - 1] /\ k = g[q] /\ Moves(n, k, P, F, q)
      BY <2>2, StepFacts
    <3>2. Ascending(n, P, q - 1)
      BY <2>2, <3>1 DEF Recorded
    <3> QED BY <2>1, <3>1, <3>2, AscendingStep
  <2>4. Stands(g, q)
    BY <2>1, <2>2, StandsStep DEF Recorded
  <2>5. Levels(g, q)
    BY <2>1, <2>2, LevelsStep DEF Recorded
  <2>6. Counts(g, P, F, q)
    BY <2>1, <2>2, CountsStep DEF Recorded
  <2> QED BY <2>1, <2>3, <2>4, <2>5, <2>6 DEF Recorded
<1>7. /\ \A p \in 1..(l + 1) : p \in 1..l \/ p = l + 1
      /\ \A p \in 0..(l + 1) : p \in 0..l \/ p = l + 1
      /\ 0 \in 0..l
  BY SMTT(30)
<1>8. g[0] = <<>>
  BY <1>0, <1>2, <1>7 DEF Extends
<1>9. IsHistory(g, P, F, l + 1)
  BY <1>3, <1>4, <1>5, <1>6, <1>7, <1>8 DEF IsHistory
<1> QED BY <1>1, <1>2, <1>9
-----------------------------------------------------------------------------
(* The end of the construct that is opened at i, by the count of braces.   *)
IsEnd(O, E, i, l, e) ==
  /\ e \in i..l /\ Balance(O, E, i, e) = 0
  /\ \A k \in i..(e - 1) : Balance(O, E, i, k) > 0

(* The same by the history: e is the first position with the level of i.   *)
Returns(h, i, e) ==
  /\ Len(h[e]) = Len(h[i - 1])
  /\ \A k \in i..(e - 1) : Len(h[k]) > Len(h[i - 1])

(* A set of natural numbers that is not empty has a least one.             *)
LEMMA NatMin ==
  ASSUME NEW S \in SUBSET Nat, S # {}
  PROVE  \E n \in S : \A m \in S : n <= m
<1>1. PICK x \in S : \A y \in S : ~(<<y, x>> \in OpToRel(<, Nat))
  BY NatLessThanWellFounded, WFMin
<1>2. \A y \in S : ~(y < x)
  BY <1>1 DEF OpToRel
<1> QED BY <1>2

(* A set of positions that is not empty has a last one.                    *)
LEMMA NatMax ==
  ASSUME NEW l \in Nat, NEW S \in SUBSET (1..l), S # {}
  PROVE  \E n \in S : \A m \in S : m <= n
<1> DEFINE T == {l - j : j \in S}
<1>1. \A j \in S : j \in Int /\ 1 <= j /\ j <= l
  OBVIOUS
<1>a. T \in SUBSET Nat
  BY <1>1
<1>b. T # {}
  OBVIOUS
<1>2. T \in SUBSET Nat /\ T # {}
  BY <1>a, <1>b
<1>3. PICK t \in T : \A j \in T : t <= j
  BY <1>2, NatMin
<1>4. PICK i \in S : t = l - i
  BY <1>3
<1>5. \A j \in S : l - i <= l - j
  BY <1>3, <1>4
<1>6. \A j \in S : j <= i
  BY <1>1, <1>4, <1>5
<1> QED BY <1>6

(* The count of the braces is the difference of the levels.                *)
LEMMA EndReturns ==
  ASSUME NEW O, NEW E, NEW l \in Nat, NEW h, IsHistory(h, O, E, l),
         NEW i \in 1..l, NEW e \in i..l
  PROVE  IsEnd(O, E, i, l, e) <=> Returns(h, i, e)
<1>1. \A k \in i..l : Balance(O, E, i, k) = Len(h[k]) - Len(h[i - 1])
  <2> SUFFICES ASSUME NEW k \in i..l
               PROVE  Balance(O, E, i, k) = Len(h[k]) - Len(h[i - 1])
    OBVIOUS
  <2>1. k \in 0..l /\ i - 1 \in 0..k /\ i - 1 + 1 = i
    OBVIOUS
  <2>2. Counts(h, O, E, k)
    BY <2>1 DEF IsHistory, Recorded
  <2> QED BY <2>1, <2>2 DEF Counts
<1>2. \A k \in i..l : Len(h[k]) \in Nat /\ Len(h[i - 1]) \in Nat
  <2>1. h \in [Nat -> Seq(Nat)]
    BY DEF IsHistory
  <2>2. i - 1 \in Nat /\ \A k \in i..l : k \in Nat
    OBVIOUS
  <2>3. \A k \in Nat : Len(h[k]) \in Nat
    BY <2>1
  <2> QED BY <2>2, <2>3
<1>3. e \in i..l /\ \A k \in i..(e - 1) : k \in i..l
  OBVIOUS
<1>4. ASSUME NEW k \in i..l
      PROVE  /\ Balance(O, E, i, k) = 0 <=> Len(h[k]) = Len(h[i - 1])
             /\ Balance(O, E, i, k) > 0 <=> Len(h[k]) > Len(h[i - 1])
  <2>1. PICK b, c \in Nat : b = Len(h[k]) /\ c = Len(h[i - 1])
    BY <1>2
  <2>a. PICK d : d = Balance(O, E, i, k)
    OBVIOUS
  <2>b. d = Len(h[k]) - Len(h[i - 1])
    BY <1>1, <2>a
  <2>c. d = b - c
    BY <2>1, <2>b
  <2>2. d = Balance(O, E, i, k) /\ d = b - c
    BY <2>a, <2>c
  <2>3. (d = 0 <=> b = c) /\ (d > 0 <=> b > c)
    BY <2>2
  <2> QED BY <2>1, <2>2, <2>3
<1> QED BY <1>3, <1>4 DEF IsEnd, Returns

(* What is open inside the construct at i, and behind its end.             *)
Encloses(h, E, l, i, e) ==
  /\ e \in (i + 1)..l /\ e \in E /\ h[e] = h[i - 1]
  /\ Len(h[i]) \in Nat /\ Len(h[i]) = Len(h[i - 1]) + 1
  /\ \A k \in i..(e - 1) : Len(h[i]) <= Len(h[k]) /\ h[k][Len(h[i])] = i

(* It is what a history says of a construct and of its end.                *)
LEMMA ReturnFacts ==
  ASSUME NEW O, NEW E, NEW l \in Nat, NEW h, IsHistory(h, O, E, l),
         NEW i \in 1..l, i \in O, NEW e \in i..l, Returns(h, i, e)
  PROVE  Encloses(h, E, l, i, e)
<1>1. h \in [Nat -> Seq(Nat)] /\ i - 1 \in Nat /\ e \in Nat /\ e \in 1..l
  BY DEF IsHistory
<1>2. \A k \in Nat : Len(h[k]) \in Nat
  BY <1>1
<1>3. Len(h[i]) = Len(h[i - 1]) + 1 /\ h[i][Len(h[i])] = i
  <2>1. Step(h, O, E, i)
    BY DEF IsHistory
  <2>2. PICK n, m \in Seq(Nat) : n = h[i - 1] /\ m = h[i] /\ Moves(n, m, O, E, i)
    BY <2>1, StepFacts
  <2>3. Len(m) = Len(n) + 1 /\ m[Len(n) + 1] = i
    BY <2>2 DEF Moves
  <2> QED BY <2>2, <2>3
<1>4. PICK a \in Nat : a = Len(h[i - 1])
  BY <1>1, <1>2
<1>5. Len(h[i]) = a + 1 /\ Len(h[e]) = a /\ \A k \in i..(e - 1) : Len(h[k]) > a
  BY <1>3, <1>4 DEF Returns
<1>6. e # i /\ e \in (i + 1)..l /\ e - 1 \in i..(e - 1) /\ e - 1 \in Nat
  BY <1>5
<1>7. e \in E
  <2>1. Step(h, O, E, e)
    BY <1>1 DEF IsHistory
  <2>2. PICK n, m \in Seq(Nat) : n = h[e - 1] /\ m = h[e] /\ Moves(n, m, O, E, e)
    BY <1>1, <2>1, StepFacts
  <2>3. PICK b, c \in Nat : b = Len(n) /\ c = Len(m)
    OBVIOUS
  <2>4. b > a /\ c = a
    BY <1>5, <1>6, <2>2, <2>3
  <2>5. e \in O => c = b + 1
    BY <2>2, <2>3 DEF Moves
  <2>6. e \notin O /\ e \notin E => c = b
    BY <2>2, <2>3 DEF Moves
  <2> QED BY <2>4, <2>5, <2>6
<1>8. h[e] = h[i - 1]
  <2>1. Stands(h, e) /\ i - 1 \in 0..e
    <3>1. e \in 0..l /\ i - 1 \in 0..e
      OBVIOUS
    <3> QED BY <3>1 DEF IsHistory, Recorded
  <2>2. \A k \in (i - 1)..e : k = i - 1 \/ k \in i..(e - 1) \/ k = e
    OBVIOUS
  <2>3. \A k \in (i - 1)..e : a <= Len(h[k])
    <3> SUFFICES ASSUME NEW k \in (i - 1)..e PROVE a <= Len(h[k])
      OBVIOUS
    <3>1. k \in Nat /\ a <= a
      BY <1>1
    <3>2. PICK b \in Nat : b = Len(h[k])
      BY <1>2, <3>1
    <3>3. b = a \/ b > a
      BY <1>4, <1>5, <2>2, <3>2
    <3> QED BY <3>2, <3>3
  <2>4. \A m \in 1..a : h[e][m] = h[i - 1][m]
    BY <1>4, <2>1, <2>3 DEF Stands
  <2>5. PICK n, m \in Seq(Nat) : n = h[i - 1] /\ m = h[e]
    BY <1>1
  <2>6. Len(n) = a /\ Len(m) = a /\ \A k \in 1..a : m[k] = n[k]
    BY <1>4, <1>5, <2>4, <2>5
  <2>7. m = n
    <3>1. m \in [1..a -> Nat] /\ n \in [1..a -> Nat]
      BY <2>6
    <3> QED BY <2>6, <3>1
  <2> QED BY <2>5, <2>7
<1>9. ASSUME NEW k \in i..(e - 1)
      PROVE  Len(h[i]) <= Len(h[k]) /\ h[k][Len(h[i])] = i
  <2>1. k \in 0..l /\ i \in 0..k /\ \A j \in i..k : j \in i..(e - 1) /\ j \in Nat
    BY <1>6
  <2>2. \A j \in i..k : Len(h[i]) <= Len(h[j])
    <3> SUFFICES ASSUME NEW j \in i..k PROVE Len(h[i]) <= Len(h[j])
      OBVIOUS
    <3>1. PICK b \in Nat : b = Len(h[j])
      BY <1>2, <2>1
    <3>2. b > a
      BY <1>5, <2>1, <3>1
    <3>3. a + 1 <= b
      BY <3>2
    <3> QED BY <1>5, <3>1, <3>3
  <2>3. Stands(h, k)
    BY <2>1 DEF IsHistory, Recorded
  <2>4. Len(h[i]) \in 1..Len(h[i])
    <3>1. PICK b \in Nat : b = Len(h[i]) /\ b = a + 1
      BY <1>2, <1>5
    <3>2. b \in 1..b
      BY <3>1
    <3> QED BY <3>1, <3>2
  <2>5. h[k][Len(h[i])] = h[i][Len(h[i])]
    BY <2>1, <2>2, <2>3, <2>4 DEF Stands
  <2>6. k \in i..k
    OBVIOUS
  <2> QED BY <1>3, <2>2, <2>5, <2>6
<1>10. Len(h[i]) \in Nat /\ Len(h[i]) = Len(h[i - 1]) + 1
  BY <1>2, <1>3
<1> QED BY <1>6, <1>7, <1>8, <1>9, <1>10 DEF Encloses

(* A source whose braces match has an end for every opener.                *)
LEMMA EndExists ==
  ASSUME NEW O, NEW E, NEW l \in Nat, NEW h, IsHistory(h, O, E, l), h[l] = <<>>,
         NEW i \in 1..l, i \in O
  PROVE  \E e \in i..l : IsEnd(O, E, i, l, e)
<1>1. h \in [Nat -> Seq(Nat)] /\ i - 1 \in Nat
  BY DEF IsHistory
<1>2. \A k \in Nat : Len(h[k]) \in Nat
  BY <1>1
<1>3. PICK a \in Nat : a = Len(h[i - 1])
  BY <1>1, <1>2
<1> DEFINE S == {j \in i..l : Len(h[j]) <= a}
<1>4. l \in S
  <2>1. Len(<<>>) = 0 /\ 0 <= a /\ l \in i..l
    OBVIOUS
  <2>2. Len(h[l]) = 0
    BY <2>1
  <2> QED BY <2>1, <2>2
<1>5. PICK e \in S : \A m \in S : e <= m
  <2>1. S \in SUBSET Nat /\ S # {}
    BY <1>4
  <2> HIDE DEF S
  <2> QED BY <2>1, NatMin
<1>6. e \in i..l /\ e \in Nat /\ e \in 1..l /\ Len(h[e]) <= a
  OBVIOUS
<1>7. \A k \in i..(e - 1) : Len(h[k]) > a
  <2> SUFFICES ASSUME NEW k \in i..(e - 1) PROVE Len(h[k]) > a
    OBVIOUS
  <2>1. k \in i..l /\ ~(e <= k) /\ k \in Nat
    BY <1>6
  <2>2. ~(Len(h[k]) <= a)
    BY <1>5, <2>1
  <2>3. PICK b \in Nat : b = Len(h[k])
    BY <1>2, <2>1
  <2>4. b > a
    BY <2>2, <2>3
  <2> QED BY <2>3, <2>4
<1> HIDE DEF S
<1>8. Len(h[e]) = a
  <2>1. Step(h, O, E, e)
    BY <1>6 DEF IsHistory
  <2>2. PICK n, m \in Seq(Nat) : n = h[e - 1] /\ m = h[e] /\ Moves(n, m, O, E, e)
    BY <1>6, <2>1, StepFacts
  <2>3. PICK b, c \in Nat : b = Len(n) /\ c = Len(m)
    OBVIOUS
  <2>4. c <= a
    BY <1>6, <2>2, <2>3
  <2>5. e \in O => c = b + 1
    BY <2>2, <2>3 DEF Moves
  <2>6. e \notin O => c = b \/ c = b - 1
    BY <2>2, <2>3 DEF Moves
  <2>7. b >= a
    <3>1. CASE e = i
      BY <1>3, <2>2, <2>3, <3>1
    <3>2. CASE e # i
      <4>1. e - 1 \in i..(e - 1)
        BY <1>6, <3>2
      <4>2. b > a
        BY <1>7, <2>2, <2>3, <4>1
      <4> QED BY <4>2
    <3> QED BY <3>1, <3>2
  <2>8. CASE e = i
    <3>1. b = a
      BY <1>3, <2>2, <2>3, <2>8
    <3> QED BY <2>2, <2>3, <2>4, <2>5, <2>8, <3>1
  <2>9. CASE e # i
    <3>1. e - 1 \in i..(e - 1)
      BY <1>6, <2>9
    <3>2. b > a
      BY <1>7, <2>2, <2>3, <3>1
    <3> QED BY <2>2, <2>3, <2>4, <2>5, <2>6, <3>2
  <2> QED BY <2>8, <2>9
<1>9. Returns(h, i, e)
  BY <1>3, <1>7, <1>8 DEF Returns
<1> QED BY <1>6, <1>9, EndReturns

(* The construct opened at i is around the item at p.                      *)
IsAround(h, i, p) == \E k \in DOMAIN h[p - 1] : h[p - 1][k] = i

(* The openers around an item are those that stand when it is visited: they *)
(* are opened before it and end behind it.                                 *)
LEMMA AroundIs ==
  ASSUME NEW O, NEW E, NEW l \in Nat, NEW h, IsHistory(h, O, E, l),
         NEW p \in 1..l, p \notin E, NEW j \in 1..(p - 1), j \in O,
         NEW e \in j..l, IsEnd(O, E, j, l, e)
  PROVE  e > p <=> IsAround(h, j, p)
<1>1. h \in [Nat -> Seq(Nat)] /\ p - 1 \in 0..l /\ j \in 1..l /\ j - 1 \in Nat
  BY DEF IsHistory
<1>2. Returns(h, j, e)
  BY <1>1, EndReturns
<1>3. /\ e \in (j + 1)..l /\ e \in E /\ Len(h[j]) \in Nat
      /\ Len(h[j]) = Len(h[j - 1]) + 1
      /\ \A k \in j..(e - 1) : Len(h[j]) <= Len(h[k]) /\ h[k][Len(h[j])] = j
  <2>1. j \in 1..l /\ e \in j..l /\ l \in Nat
    BY <1>1
  <2>2. Encloses(h, E, l, j, e)
    BY <1>2, <2>1, ReturnFacts
  <2> QED BY <2>2 DEF Encloses
<1>4. ASSUME e > p
      PROVE  IsAround(h, j, p)
  <2>1. p - 1 \in j..(e - 1)
    BY <1>3, <1>4
  <2>2. PICK n \in Seq(Nat) : n = h[p - 1]
    BY <1>1
  <2>3. PICK b, c \in Nat : b = Len(h[j]) /\ c = Len(h[j - 1])
    BY <1>1, <1>3
  <2>4. b = c + 1 /\ b <= Len(n) /\ n[b] = j
    BY <1>3, <2>1, <2>2, <2>3
  <2>5. b \in DOMAIN n
    BY <2>4
  <2> QED BY <2>2, <2>4, <2>5 DEF IsAround
<1>5. ASSUME IsAround(h, j, p)
      PROVE  e > p
  <2>0. PICK k \in DOMAIN h[p - 1] : h[p - 1][k] = j
    BY <1>5 DEF IsAround
  <2>1. Levels(h, p - 1)
    BY <1>1 DEF IsHistory, Recorded
  <2>2. Len(h[j - 1]) = k - 1 /\ \A i \in j..(p - 1) : k <= Len(h[i])
    BY <2>0, <2>1 DEF Levels
  <2>3. PICK n \in Seq(Nat) : n = h[p - 1]
    BY <1>1
  <2>4. k \in Nat
    BY <2>3
  <2>5. Len(h[e]) = k - 1
    BY <1>2, <2>2 DEF Returns
  <2>6. e \notin j..(p - 1)
    BY <2>2, <2>4, <2>5
  <2>7. e # p
    BY <1>3
  <2> QED BY <1>3, <2>6, <2>7
<1> QED BY <1>4, <1>5

(* An item inside a construct has its opener around it.                    *)
LEMMA InsideOne ==
  ASSUME NEW O, NEW E, NEW l \in Nat, NEW h, IsHistory(h, O, E, l),
         NEW i \in 1..l, i \in O, NEW e \in i..l, IsEnd(O, E, i, l, e),
         NEW j \in (i + 1)..e
  PROVE  IsAround(h, i, j)
<1>1. Encloses(h, E, l, i, e)
  BY EndReturns, ReturnFacts
<1>2. j - 1 \in i..(e - 1) /\ j - 1 \in Nat
  BY <1>1 DEF Encloses
<1>3. PICK n \in Seq(Nat) : n = h[j - 1]
  BY <1>2 DEF IsHistory
<1>4. PICK b \in Nat : b = Len(h[i])
  BY <1>1 DEF Encloses
<1>5. b <= Len(n) /\ n[b] = i
  BY <1>1, <1>2, <1>3, <1>4 DEF Encloses
<1>6. b > 0
  <2>1. Len(h[i - 1]) \in Nat
    <3>1. h \in [Nat -> Seq(Nat)] /\ i - 1 \in Nat
      BY DEF IsHistory
    <3> QED BY <3>1
  <2> QED BY <1>1, <1>4, <2>1 DEF Encloses
<1>7. b \in DOMAIN n
  BY <1>5, <1>6
<1> QED BY <1>3, <1>5, <1>7 DEF IsAround

(* The construct opened at i ends behind p.                                *)
EndsAfter(O, E, l, i, p) == \A e \in i..l : IsEnd(O, E, i, l, e) => e > p

(* n[k] is open behind p, n being all that is.                             *)
IsOpenAt(h, O, E, l, p, n, k) ==
  /\ n[k] \in 1..p /\ n[k] \in O
  /\ h[n[k] - 1] = SubSeq(n, 1, k - 1)
  /\ EndsAfter(O, E, l, n[k], p)

(* The openers around an item are what was open before each of them, and   *)
(* they end behind it.                                                     *)
LEMMA OuterPart ==
  ASSUME NEW O, NEW E, NEW l \in Nat, NEW h, IsHistory(h, O, E, l),
         NEW p \in 0..l, NEW n \in Seq(Nat), n = h[p], NEW k \in DOMAIN n
  PROVE  IsOpenAt(h, O, E, l, p, n, k)
<1>0. h \in [Nat -> Seq(Nat)] /\ p \in Nat /\ Recorded(h, O, E, p)
  BY DEF IsHistory
<1>1. Ascending(n, O, p)
  BY <1>0 DEF Recorded
<1>2. PICK i : i = n[k] /\ i \in 1..p /\ i \in O
  <2>1. n \in Seq(1..p)
    BY <1>1 DEF Ascending
  <2>2. n[k] \in 1..p
    BY <2>1, SeqMember
  <2> QED BY <1>1, <2>2 DEF Ascending
<1>3. /\ i \in Nat /\ i - 1 \in Nat /\ i - 1 \in 0..p /\ i \in 1..l
      /\ p \in i..p /\ k \in Nat /\ k \in 1..Len(n) /\ k - 1 \in 0..Len(n)
  BY SMTT(30), <1>2
<1>4. Len(h[i - 1]) = k - 1 /\ \A j \in i..p : k <= Len(h[j])
  BY <1>0, <1>2 DEF Recorded, Levels
<1>5. PICK m \in Seq(Nat) : m = h[i - 1]
  BY <1>0, <1>3
<1>6. \A q \in 1..(k - 1) : n[q] = m[q]
  <2>1. \A j \in (i - 1)..p : j = i - 1 \/ j \in i..p
    BY <1>3
  <2>2. \A j \in (i - 1)..p : k - 1 <= Len(h[j])
    <3> SUFFICES ASSUME NEW j \in (i - 1)..p PROVE k - 1 <= Len(h[j])
      OBVIOUS
    <3>1. j \in Nat
      BY <1>3
    <3>2. PICK c \in Nat : c = Len(h[j])
      BY <1>0, <3>1
    <3>3. c = k - 1 \/ k <= c
      BY <1>4, <2>1, <3>2
    <3>4. k - 1 <= c
      BY <1>3, <3>3
    <3> QED BY <3>2, <3>4
  <2>3. Stands(h, p)
    BY <1>0 DEF Recorded
  <2>4. \A q \in 1..Len(h[i - 1]) : h[p][q] = h[i - 1][q]
    BY <1>3, <1>4, <2>2, <2>3 DEF Stands
  <2> QED BY <1>4, <1>5, <2>4
<1>7. m = SubSeq(n, 1, k - 1)
  <2>1. PICK c \in Nat : c = k - 1 /\ c \in 0..Len(n)
    BY <1>3
  <2>a. c \in 0..Len(n)
    BY <2>1
  <2>b. /\ SubSeq(n, 1, c) \in Seq(Nat) /\ Len(SubSeq(n, 1, c)) = c
        /\ \A q \in 1..c : SubSeq(n, 1, c)[q] = n[q]
    BY <2>a, FirstOf
  <2>2. PICK f \in Seq(Nat) : /\ f = SubSeq(n, 1, c) /\ Len(f) = c
                              /\ \A q \in 1..c : f[q] = n[q]
    BY <2>b
  <2>3. Len(m) = c
    BY <1>4, <1>5, <2>1
  <2>4. \A q \in 1..c : f[q] = m[q]
    BY <1>6, <2>1, <2>2
  <2>5. m \in [1..c -> Nat] /\ f \in [1..c -> Nat]
    <3>1. m \in [1..Len(m) -> Nat]
      OBVIOUS
    <3>2. f \in [1..Len(f) -> Nat]
      OBVIOUS
    <3>3. Len(f) = c
      BY <2>2
    <3> QED BY <2>3, <3>1, <3>2, <3>3
  <2>6. m = f
    BY <2>4, <2>5
  <2> QED BY <2>1, <2>2, <2>6
<1>8. ASSUME NEW e \in i..l, IsEnd(O, E, i, l, e)
      PROVE  e > p
  <2>1. Returns(h, i, e)
    BY <1>3, <1>8, EndReturns
  <2>2. Len(h[e]) = k - 1
    BY <1>4, <2>1 DEF Returns
  <2>3. e \notin i..p
    BY <1>3, <1>4, <2>2
  <2> QED BY <1>3, <2>3
<1> QED BY <1>2, <1>5, <1>7, <1>8 DEF IsOpenAt, EndsAfter
=============================================================================
