---------------------------- MODULE StructuredRun ----------------------------
(***************************************************************************)
(* What running a function body means, said of its source: which statement *)
(* or condition is evaluated after which.  Values are left out, so a       *)
(* condition may go either way.                                            *)
(*                                                                         *)
(* A body is a sequence of items in source order; "elif" and "else" close  *)
(* one branch and open the next, "end" closes an if or a loop.  What is    *)
(* evaluated is named by a part and the position of its item.              *)
(***************************************************************************)
EXTENDS Integers, Sequences, FiniteSets

CONSTANTS Op    \* the kinds of items

VARIABLES
  program,   \* the items
  phase,     \* "writing", "running", "returned", "malformed"
  last,      \* what was evaluated last
  turn       \* flips with every evaluation

absVars == <<program, phase, last, turn>>

Start == <<"start", 0>>
Returned == <<"returned", 0>>

IfHeads == {"if", "elif", "else"}
LoopHeads == {"while", "for"}
Openers == {"if"} \cup LoopHeads

(* The end of the construct opened at i, and the heads of its branches.    *)
Count(i, j, ops) == Cardinality({k \in i..j : program[k] \in ops})
EndOf(i) ==
  CHOOSE j \in i..Len(program) :
    /\ Count(i, j, Openers) = Count(i, j, {"end"})
    /\ \A k \in i..(j - 1) : Count(i, k, Openers) > Count(i, k, {"end"})
OpenerOf(j) == CHOOSE i \in 1..j : program[i] \in Openers /\ EndOf(i) = j
Encloses(i, p) == program[i] \in Openers /\ i < p /\ p < EndOf(i)
InnermostOf(p, ops) ==
  CHOOSE i \in {i \in 1..p : program[i] \in ops /\ Encloses(i, p)} :
    \A k \in 1..p : program[k] \in ops /\ Encloses(k, p) => k <= i
IsOf(i, b) == b = i \/ (program[b] \in {"elif", "else"} /\ InnermostOf(b, Openers) = i)
ChainOf(b) == IF program[b] = "if" THEN b ELSE InnermostOf(b, Openers)

(* What is evaluated first when control comes to the item at p.            *)
Leads(first, p) ==
  IF p = Len(program) + 1 THEN Returned
  ELSE LET op == program[p] IN
    CASE op \in {"stmt", "return"} -> <<op, p>>
      [] op \in {"if", "while"} -> <<"cond", p>>
      [] op = "for" -> <<"init", p>>
      [] op = "break" -> first[EndOf(InnermostOf(p, LoopHeads)) + 1]
      [] op = "continue" -> <<"cond", InnermostOf(p, LoopHeads)>>
      [] op \in {"elif", "else"} -> first[EndOf(InnermostOf(p, Openers)) + 1]
      [] op = "end" ->
           LET i == OpenerOf(p) IN
           CASE program[i] = "if" -> first[p + 1]
             [] program[i] = "while" -> <<"cond", i>>
             [] program[i] = "for" -> <<"iter", i>>
First[p \in 1..(Len(program) + 1)] == Leads(First, p)

(* Where a false condition leads: to the next branch, to the end.          *)
Otherwise(b) ==
  IF program[b] \in LoopHeads THEN First[EndOf(b) + 1]
  ELSE LET later == {p \in (b + 1)..Len(program) : IsOf(ChainOf(b), p)} IN
       IF later = {} THEN First[EndOf(ChainOf(b)) + 1]
       ELSE LET n == CHOOSE p \in later : \A k \in later : p <= k IN
            IF program[n] = "elif" THEN <<"cond", n>> ELSE First[n + 1]

After(what) ==
  LET part == what[1]
      p == what[2]
  IN  CASE part = "start" -> {First[1]}
        [] part = "stmt" -> {First[p + 1]}
        [] part \in {"init", "iter"} -> {<<"cond", p>>}
        [] part = "cond" -> {First[p + 1], Otherwise(p)}
        [] part = "return" -> {Returned}

AbsInit ==
  /\ program = <<>>
  /\ phase = "writing"
  /\ last = Start
  /\ turn = FALSE

AbsWrite ==
  /\ phase = "writing"
  /\ \E op \in Op : program' = Append(program, op)
  /\ UNCHANGED <<phase, last, turn>>

AbsBegin ==
  /\ phase = "writing"
  /\ phase' \in {"running", "malformed"}
  /\ UNCHANGED <<program, last, turn>>

Evaluate ==
  /\ phase = "running"
  /\ last' \in After(last) \ {Returned}
  /\ turn' = ~turn
  /\ UNCHANGED <<program, phase>>

Finish ==
  /\ phase = "running"
  /\ Returned \in After(last)
  /\ phase' = "returned"
  /\ UNCHANGED <<program, last, turn>>

AbsNext == AbsWrite \/ AbsBegin \/ Evaluate \/ Finish

AbsSafety == AbsInit /\ [][AbsNext]_absVars

(* A body that runs is not stuck between two evaluations.                  *)
AbsSpec == AbsSafety /\ WF_absVars(Evaluate \/ Finish)

=============================================================================
