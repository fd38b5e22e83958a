----------------------------- MODULE ControlFlow -----------------------------
(***************************************************************************)
(* Control flow in the code generator (codegen/code_generator.cpp): how    *)
(* the visitors of FunctionDecl, CompoundStmt, If, Loop, BreakContinue and *)
(* Return lay out the basic blocks of a function, and what the function    *)
(* does when its blocks are run.                                           *)
(*                                                                         *)
(* A body is written first, as in StructuredRun; the visitors are then one *)
(* step per item, and the insertion point of the builder is a block.  A    *)
(* block is named by its role and the item it was created for.  A          *)
(* statement or condition is the one instruction "run" whatever it         *)
(* computes.  LLVM itself is modelled by how its blocks are run: a block   *)
(* without exactly one terminator, at its end, has no meaning.             *)
(***************************************************************************)
EXTENDS Integers, Sequences, FiniteSets, SequencesExt

CONSTANTS
  Op,        \* the kinds of items a body may hold
  MaxItems   \* bound of the model: the length of a body

AllOps == {"stmt", "return", "break", "continue", "if", "elif", "else",
           "while", "for", "end"}

ASSUME OpAssumption == Op \subseteq AllOps
ASSUME MaxItemsAssumption == MaxItems \in Nat

VARIABLES
  source,   \* the items of the body
  pc,       \* "writing", "emitting", "running", "returned", "malformed"
  pos,      \* the item visited next
  nest,     \* the positions of the openers around it
  branch,   \* the branch of each of them that is being visited
  blocks,   \* the basic blocks created so far
  insert,   \* the insertion block of the builder
  at,       \* the block that runs and the instruction it is at
  last,     \* what was evaluated last
  turn      \* flips with every evaluation

emission == <<pos, nest, branch, blocks, insert>>
run == <<at, last, turn>>
vars == <<source, pc, emission, run>>

LoopHeads == {"while", "for"}
Openers == {"if"} \cup LoopHeads

Roles == {"func_entry", "cond", "branch", "endif",
          "init", "predicate", "loop_body", "iter", "loop_end"}
Block == Roles \X (0..MaxItems)
Entry == <<"func_entry", 0>>

(* Instructions: evaluate something, and the terminators. *)
Run(part, p) == [do |-> "run", what |-> <<part, p>>, to |-> <<>>]
Br(b) == [do |-> "br", what |-> <<"none", 0>>, to |-> <<b>>]
CondBr(b, c) == [do |-> "condbr", what |-> <<"none", 0>>, to |-> <<b, c>>]
Ret == [do |-> "ret", what |-> <<"none", 0>>, to |-> <<>>]

IsTerminator(instruction) == instruction.do # "run"

(* back().isTerminator() of the insertion block.  back() of an empty block *)
(* is not an instruction, and what is read from there is anything.         *)
Terminated(b) ==
  IF blocks[b] = <<>> THEN BOOLEAN ELSE {IsTerminator(Last(blocks[b]))}

Shorter(s) == SubSeq(s, 1, Len(s) - 1)

(* BasicBlock::Create for each block of new. *)
Created(new) ==
  [b \in DOMAIN blocks \cup new |->
     IF b \in DOMAIN blocks THEN blocks[b] ELSE <<>>]

(* Appends the instructions to the block. *)
Emit(bs, b, instructions) == [bs EXCEPT ![b] = @ \o instructions]
EmitUnless(terminated, bs, b, instructions) ==
  IF terminated THEN bs ELSE Emit(bs, b, instructions)

Init ==
  /\ source = <<>>
  /\ pc = "writing"
  /\ pos = 1
  /\ nest = <<>>
  /\ branch = <<>>
  /\ blocks = [b \in {Entry} |-> <<>>]
  /\ insert = Entry
  /\ at = <<Entry, 1>>
  /\ last = <<"start", 0>>
  /\ turn = FALSE

-----------------------------------------------------------------------------
(* The bodies the parser and the type checker let through: a break or a    *)
(* continue is in a loop.  An else need not be the last branch.            *)
InLoop == \E k \in DOMAIN nest : source[nest[k]] \in LoopHeads

MayWrite(op) ==
  /\ op \in {"break", "continue"} => InLoop
  /\ op = "end" => nest # <<>>
  /\ op \in {"elif", "else"} => nest # <<>> /\ source[Last(nest)] = "if"

Write(op) ==
  /\ pc = "writing"
  /\ Len(source) < MaxItems
  /\ MayWrite(op)
  /\ source' = Append(source, op)
  /\ nest' = IF op \in Openers THEN Append(nest, Len(source) + 1)
             ELSE IF op = "end" THEN Shorter(nest) ELSE nest
  /\ UNCHANGED <<pc, pos, branch, blocks, insert, run>>

BeginEmit ==
  /\ pc = "writing"
  /\ nest = <<>>
  /\ pc' = "emitting"
  /\ UNCHANGED <<source, emission, run>>

-----------------------------------------------------------------------------
(* The visitors. *)
At(op) == pc = "emitting" /\ pos <= Len(source) /\ source[pos] = op

Advance == pos' = pos + 1 /\ UNCHANGED <<source, pc, run>>

(* The loop a break or continue belongs to. *)
ParentLoop ==
  LET loops == {k \in DOMAIN nest : source[nest[k]] \in LoopHeads}
  IN  nest[CHOOSE k \in loops : \A j \in loops : j <= k]

(* The branches of the if opened at i: the if and its elifs and elses.     *)
Depth(i, j) ==
  Cardinality({k \in i..j : source[k] \in Openers})
  - Cardinality({k \in i..j : source[k] = "end"})
EndOf(i) == CHOOSE j \in i..Len(source) :
              Depth(i, j) = 0 /\ \A k \in i..(j - 1) : Depth(i, k) > 0
Branches(i) ==
  {i} \cup {b \in (i + 1)..(EndOf(i) - 1) :
              source[b] \in {"elif", "else"} /\ Depth(i, b) = 1}

EmitStmt ==
  /\ At("stmt")
  /\ blocks' = Emit(blocks, insert, <<Run("stmt", pos)>>)
  /\ Advance
  /\ UNCHANGED <<nest, branch, insert>>

EmitReturn ==
  /\ At("return")
  /\ blocks' = Emit(blocks, insert, <<Run("return", pos), Ret>>)
  /\ Advance
  /\ UNCHANGED <<nest, branch, insert>>

EmitBreak ==
  /\ At("break")
  /\ blocks' = Emit(blocks, insert, <<Br(<<"loop_end", ParentLoop>>)>>)
  /\ Advance
  /\ UNCHANGED <<nest, branch, insert>>

EmitContinue ==
  /\ At("continue")
  /\ blocks' = Emit(blocks, insert, <<Br(<<"predicate", ParentLoop>>)>>)
  /\ Advance
  /\ UNCHANGED <<nest, branch, insert>>

(* The condition of the branch b of the if opened at i, in its block: an   *)
(* else goes straight to its then block; the false edge goes to the next   *)
(* branch or to the merge block.                                           *)
Condition(i, b) ==
  LET later == {c \in Branches(i) : c > b}
      next == IF later = {} THEN <<"endif", i>>
              ELSE <<"cond", CHOOSE c \in later : \A d \in later : c <= d>>
  IN  IF source[b] = "else" THEN <<Br(<<"branch", b>>)>>
      ELSE <<Run("cond", b), CondBr(<<"branch", b>>, next)>>

EmitIf ==
  /\ At("if")
  /\ LET new == ({"cond", "branch"} \X Branches(pos)) \cup {<<"endif", pos>>}
         jump == Emit(Created(new), insert, <<Br(<<"cond", pos>>)>>)
     IN  blocks' = Emit(jump, <<"cond", pos>>, Condition(pos, pos))
  /\ insert' = <<"branch", pos>>
  /\ nest' = Append(nest, pos)
  /\ branch' = Append(branch, pos)
  /\ Advance

(* Slip: the jump to the merge block is emitted without a look at what     *)
(* ends the branch.                                                        *)
EmitBranchAlways ==
  /\ \E op \in {"elif", "else"} : At(op)
  /\ LET i == Last(nest)
         merge == Emit(blocks, insert, <<Br(<<"endif", i>>)>>)
     IN  blocks' = Emit(merge, <<"cond", pos>>, Condition(i, pos))
  /\ insert' = <<"branch", pos>>
  /\ branch' = [branch EXCEPT ![Len(branch)] = pos]
  /\ Advance
  /\ UNCHANGED nest

(* The branch before ends: a jump to the merge block unless it ends in a   *)
(* terminator.                                                             *)
EmitBranch ==
  /\ \E op \in {"elif", "else"} : At(op)
  /\ \E terminated \in Terminated(insert) :
       LET i == Last(nest)
           merge == EmitUnless(terminated, blocks, insert, <<Br(<<"endif", i>>)>>)
       IN  blocks' = Emit(merge, <<"cond", pos>>, Condition(i, pos))
  /\ insert' = <<"branch", pos>>
  /\ branch' = [branch EXCEPT ![Len(branch)] = pos]
  /\ Advance
  /\ UNCHANGED nest

EmitEndIf ==
  /\ At("end")
  /\ LET i == Last(nest) IN
       /\ source[i] = "if"
       /\ \E terminated \in Terminated(insert) :
            blocks' = EmitUnless(terminated, blocks, insert, <<Br(<<"endif", i>>)>>)
       /\ insert' = <<"endif", i>>
  /\ nest' = Shorter(nest)
  /\ branch' = Shorter(branch)
  /\ Advance

EmitLoop ==
  /\ \E op \in LoopHeads : At(op)
  /\ \E terminated \in Terminated(insert) :
       LET new == {"init", "predicate", "loop_body", "iter", "loop_end"} \X {pos}
           jump == EmitUnless(terminated, Created(new), insert, <<Br(<<"init", pos>>)>>)
           init == IF At("for") THEN <<Run("init", pos)>> ELSE <<>>
           loop == Emit(jump, <<"init", pos>>, init \o <<Br(<<"predicate", pos>>)>>)
       IN  blocks' = Emit(loop, <<"predicate", pos>>,
                          <<Run("cond", pos),
                            CondBr(<<"loop_body", pos>>, <<"loop_end", pos>>)>>)
  /\ insert' = <<"loop_body", pos>>
  /\ nest' = Append(nest, pos)
  /\ branch' = Append(branch, pos)
  /\ Advance

(* Slip: the end of the body does not go through the iteration block.      *)
EmitEndLoopPastIter ==
  /\ At("end")
  /\ LET i == Last(nest) IN
       /\ source[i] \in LoopHeads
       /\ \E terminated \in Terminated(insert) :
            LET body == EmitUnless(terminated, blocks, insert, <<Br(<<"predicate", i>>)>>)
                iter == IF source[i] = "for" THEN <<Run("iter", i)>> ELSE <<>>
            IN  blocks' = Emit(body, <<"iter", i>>, iter \o <<Br(<<"predicate", i>>)>>)
       /\ insert' = <<"loop_end", i>>
  /\ nest' = Shorter(nest)
  /\ branch' = Shorter(branch)
  /\ Advance

(* Slip: the builder stays in the iteration block.                         *)
EmitEndLoopAtIter ==
  /\ At("end")
  /\ LET i == Last(nest) IN
       /\ source[i] \in LoopHeads
       /\ \E terminated \in Terminated(insert) :
            LET body == EmitUnless(terminated, blocks, insert, <<Br(<<"iter", i>>)>>)
                iter == IF source[i] = "for" THEN <<Run("iter", i)>> ELSE <<>>
            IN  blocks' = Emit(body, <<"iter", i>>, iter \o <<Br(<<"predicate", i>>)>>)
       /\ insert' = <<"iter", i>>
  /\ nest' = Shorter(nest)
  /\ branch' = Shorter(branch)
  /\ Advance

EmitEndLoop ==
  /\ At("end")
  /\ LET i == Last(nest) IN
       /\ source[i] \in LoopHeads
       /\ \E terminated \in Terminated(insert) :
            LET body == EmitUnless(terminated, blocks, insert, <<Br(<<"iter", i>>)>>)
                iter == IF source[i] = "for" THEN <<Run("iter", i)>> ELSE <<>>
            IN  blocks' = Emit(body, <<"iter", i>>, iter \o <<Br(<<"predicate", i>>)>>)
       /\ insert' = <<"loop_end", i>>
  /\ nest' = Shorter(nest)
  /\ branch' = Shorter(branch)
  /\ Advance

(* Every block has one terminator, at its end. *)
WellFormed(bs) ==
  \A b \in DOMAIN bs :
    /\ bs[b] # <<>>
    /\ \A k \in DOMAIN bs[b] : IsTerminator(bs[b][k]) <=> k = Len(bs[b])

(* The end of the function: the default value is returned if the trailing  *)
(* block has no terminator.                                                *)
EmitEndFunction ==
  /\ pc = "emitting"
  /\ pos = Len(source) + 1
  /\ blocks' =
       IF blocks[insert] = <<>> \/ ~IsTerminator(Last(blocks[insert]))
       THEN Emit(blocks, insert, <<Ret>>) ELSE blocks
  /\ pc' = IF WellFormed(blocks') THEN "running" ELSE "malformed"
  /\ UNCHANGED <<source, pos, nest, branch, insert, run>>

-----------------------------------------------------------------------------
(* Running the blocks. *)
Instruction == blocks[at[1]][at[2]]
Running(do) == pc = "running" /\ Instruction.do = do

RunEvaluate ==
  /\ Running("run")
  /\ last' = Instruction.what
  /\ turn' = ~turn
  /\ at' = <<at[1], at[2] + 1>>
  /\ UNCHANGED <<source, pc, emission>>

RunBranch ==
  /\ Running("br") \/ Running("condbr")
  /\ \E k \in DOMAIN Instruction.to : at' = <<Instruction.to[k], 1>>
  /\ UNCHANGED <<source, pc, emission, last, turn>>

RunReturn ==
  /\ Running("ret")
  /\ pc' = "returned"
  /\ UNCHANGED <<source, emission, run>>

RunStep == RunEvaluate \/ RunBranch \/ RunReturn

Next ==
  \/ \E op \in Op : Write(op)
  \/ BeginEmit
  \/ EmitStmt
  \/ EmitReturn
  \/ EmitBreak
  \/ EmitContinue
  \/ EmitIf
  \/ EmitBranch
  \/ EmitEndIf
  \/ EmitLoop
  \/ EmitEndLoop
  \/ EmitEndFunction
  \/ RunStep

(* The program that was compiled runs. *)
Spec == Init /\ [][Next]_vars /\ WF_vars(RunStep)

-----------------------------------------------------------------------------
TypeOK ==
  /\ source \in Seq(Op)
  /\ pc \in {"writing", "emitting", "running", "returned", "malformed"}
  /\ pos \in 1..(Len(source) + 1)
  /\ nest \in Seq(DOMAIN source)
  /\ branch \in Seq(DOMAIN source)
  /\ DOMAIN blocks \subseteq Block
  /\ insert \in DOMAIN blocks
  /\ \A b \in DOMAIN blocks : \A k \in DOMAIN blocks[b] :
       Range(blocks[b][k].to) \subseteq DOMAIN blocks
  /\ at[1] \in DOMAIN blocks /\ at[2] \in Nat

(* The two ways a body can be laid out badly: an item follows a jump in    *)
(* its list of statements, unless it is a loop, whose visitor looks before *)
(* it jumps; or a branch, a body or what stands before a loop is an empty  *)
(* block, where back() is asked for.                                       *)
Jumps == {"return", "break", "continue"}
FollowsJump(p) ==
  /\ p > 1 /\ source[p - 1] \in Jumps
  /\ source[p] \in {"stmt", "if"} \cup Jumps
AsksEmpty(p) ==
  /\ source[p] \in {"elif", "else", "end"} \cup LoopHeads
  /\ p = 1 \/ source[p - 1] \in Openers \cup {"elif", "else", "end"}

(* A function is malformed only for one of these reasons, and if a         *)
(* statement follows a jump it always is.                                  *)
MalformedIsExplained ==
  /\ pc = "malformed" =>
       \E p \in DOMAIN source : FollowsJump(p) \/ AsksEmpty(p)
  /\ pc \in {"running", "returned"} => \A p \in DOMAIN source : ~FollowsJump(p)

(* Visitors leave the builder where the next item belongs: in the block    *)
(* the statement list being visited started in, or in the last block of a  *)
(* construct of that list that has ended.                                  *)
Home ==
  IF nest = <<>> THEN Entry
  ELSE IF source[Last(nest)] = "if" THEN <<"branch", Last(branch)>>
       ELSE <<"loop_body", Last(nest)>>
InsertAtHome ==
  pc = "emitting" =>
    \/ insert = Home
    \/ /\ insert[1] \in {"endif", "loop_end"}
       /\ EndOf(insert[2]) < pos
       /\ \A i \in Range(nest) : i < insert[2]

(* Running the blocks is running the source: the same statements and       *)
(* conditions are evaluated in the same order, a condition leads where its *)
(* branch says, breaks leave the innermost loop, a loop comes back to its  *)
(* condition through its iteration, and a body that runs never gets stuck. *)
SR == INSTANCE StructuredRun WITH
        program <- source,
        phase <- IF pc = "emitting" THEN "writing" ELSE pc,
        last <- last,
        turn <- turn

ImplementsStructuredRun == SR!AbsSpec

=============================================================================
