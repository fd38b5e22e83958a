------------------------------- MODULE Parser -------------------------------
(***************************************************************************)
(* The parser (src/src/parser/parser.cpp): precedence climbing over the    *)
(* tokens of one file, with one parsing function for each kind of node,    *)
(* and a test block that catches what is thrown while its body is parsed.  *)
(*                                                                         *)
(* The parser calls itself.  Its calls are the frames of stack, and a      *)
(* frame says where its function goes on and which node it is building.    *)
(* A function that returns leaves its node in ret; NoNode is the null      *)
(* pointer.  The tokens are chosen while they are read (Read), so that a   *)
(* source that is rejected is not extended any further.  A token is        *)
(* written as the word it stands for: a is an identifier, 1 a literal, s a *)
(* string, t the name of a primitive type, c a comment, - and * and < the  *)
(* operators of their precedence.                                          *)
(***************************************************************************)
EXTENDS Naturals, Sequences, FiniteSets, SequencesExt, TLC

CONSTANTS
  Slices, \* the sources: [start, words, max], at most max tokens, the first
          \* ones start and the others in words; words = {} is start itself
  Debug   \* whether the assertions are compiled in

ASSUME SlicesAssumption ==
  /\ \A s \in Slices : s.max \in Nat /\ Len(s.start) <= s.max
  /\ Debug \in BOOLEAN

VARIABLES
  slice,    \* the slice that the source is in
  src,      \* the tokens known so far (_src)
  complete, \* whether they are all there are
  curr,     \* _curr, counted from 1
  stack,    \* the calls of parsing functions that have not returned
  ret,      \* what the last one returned
  flags,    \* which of _pub and _extern are set
  caught,   \* whether a test block has caught an error (history)
  status    \* how parsing went

vars == <<slice, src, complete, curr, stack, ret, flags, caught, status>>

Identifiers == {"a", "noop", "line", "test"}
Qualifiers == {"pub", "extern"}
TypeWords == {"t", "*"} \cup Identifiers

NoNode == [kind |-> "null", start |-> 0, end |-> 0, kids |-> <<>>, tags |-> {}]
Node(kind, at, tags) ==
  [kind |-> kind, start |-> at, end |-> at, kids |-> <<>>, tags |-> tags]
Adding(n, kid) == [n EXCEPT !.kids = Append(@, kid)]
Ending(n, at) == [n EXCEPT !.end = at]

Statements == {"compound", "if", "loop", "return", "break", "import", "package"}
IsExpr(n) == n.kind \notin Statements

Token(i) == IF i \in DOMAIN src THEN src[i] ELSE "eof"

-----------------------------------------------------------------------------
(* Looking at the next token (peek).                                       *)

NextWord(c) ==
  IF Token(c) # "c" THEN c
  ELSE CHOOSE i \in c .. Len(src) + 1 : Token(i) # "c" /\ \A j \in c .. i - 1 : src[j] = "c"

(* The kind of node that a token begins, whatever is around it: "null" for *)
(* a terminal token, "error" for one that peek throws at.                  *)
KindOf ==
  [w \in {"eof", ";", "}", ")", ":", ",", "]"} |-> "null"] @@
  [w \in {"t", "else"} |-> "error"] @@
  [w \in {"while", "for"} |-> "loop"] @@
  [w \in {"-", "*"} |-> "bop or uop"] @@
  [w \in {"var", "fn", "struct", "if", "return", "import", "package", "break"} |-> w] @@
  ("as" :> "cast") @@ ("<" :> "bop") @@ ("." :> "access") @@ ("=" :> "assign") @@
  ("!" :> "uop") @@ ("(" :> "paren") @@ ("{" :> "compound") @@ ("@" :> "intrinsic") @@
  ("1" :> "literal") @@ ("s" :> "string")

(* An identifier before a parenthesis is a call, a bracket behind          *)
(* something that can be accessed is an access.                            *)
KindAt(i) ==
  LET w == Token(i) IN
  CASE w \in Identifiers -> IF i = Len(src) THEN "error"
                            ELSE IF Token(i + 1) = "(" THEN "call" ELSE "id"
    [] w = "[" -> IF i = 1 THEN "error"
                  ELSE IF Token(i - 1) \in Identifiers \cup {"]", ")"} THEN "access"
                  ELSE "array"
    [] OTHER -> KindOf[w]

(* A qualifier w and what peek finds behind it.  Slip: the flags of a      *)
(* function are left set.                                                  *)
QualifiedButSet(w, r) ==
  CASE r.kind \in {"error", "fn"} -> r
    [] r.kind \in {"null", "crash"} -> [r EXCEPT !.kind = "crash"]
    [] r.kind = "struct" /\ w = "pub" -> [r EXCEPT !.flags = {}]
    [] OTHER -> [r EXCEPT !.kind = "error"]

Qualified(w, r) ==
  CASE r.kind = "error" -> r
    [] r.kind \in {"null", "crash"} -> [r EXCEPT !.kind = "crash"]
    [] r.kind = "fn" \/ (r.kind = "struct" /\ w = "pub") -> [r EXCEPT !.flags = {}]
    [] OTHER -> [r EXCEPT !.kind = "error"]

(* What peek makes of the tokens from c on: the kind of the node, where it *)
(* starts, the qualifiers it is created with, and the flags afterwards.    *)
Peek(c) ==
  LET found(kind, at, f) == [kind |-> kind, start |-> at, tags |-> f, flags |-> f]
      look[i \in c .. Len(src) + 1, f \in SUBSET Qualifiers] ==
        LET w == NextWord(i) IN
        IF Token(w) \notin Qualifiers THEN found(KindAt(w), w, f)
        ELSE IF Token(w) \in f THEN found("error", w, f)
        ELSE Qualified(Token(w), look[w + 1, f \cup {Token(w)}])
      first == NextWord(c)
  IN  IF Token(first) \in Qualifiers THEN look[first, flags]
      ELSE found(KindAt(first), first, flags)

(* The tokens that a step may look at are known: some call peek at the     *)
(* token behind the current one.                                           *)
Ready ==
  LET from == IF Last(stack).at \in {"access", "type size", "struct", "import", "package", "intrinsic"}
              THEN curr + 1 ELSE curr
  IN  complete \/ \E i \in from .. Len(src) - 1 : Token(i) \notin {"c"} \cup Qualifiers

(* Binding powers.                                                         *)
OpPower == [w \in {"<", "-", "*", "."} |->
              CASE w = "<" -> 130 [] w = "-" -> 140 [] w = "*" -> 150 [] w = "." -> 500]
UnaryPower == [w \in {"!", "-", "*"} |-> IF w = "*" THEN 500 ELSE 170]

BindingPower(kind, word) ==
  CASE kind \in {"bop", "bop or uop"} -> OpPower[word]
    [] kind = "access" -> OpPower["."]
    [] kind = "uop" -> UnaryPower[word]
    [] kind = "paren" -> 200
    [] kind = "cast" -> 155
    [] kind = "assign" -> 90
    [] OTHER -> 0

-----------------------------------------------------------------------------
(* Calls, returns and exceptions.                                          *)

Me == Last(stack)
To(label) == [Me EXCEPT !.at = label]
With(label, n) == [Me EXCEPT !.at = label, !.node = n]
Frame(n) == [at |-> n.kind, node |-> n, rbp |-> 0]

On(label) == Me.at = label
At(label) == On(label) /\ UNCHANGED flags

Step(c, calls, n) ==
  /\ curr' = c
  /\ stack' = calls
  /\ ret' = n
  /\ UNCHANGED <<status, caught>>
Goto(c, f) == Step(c, Append(Front(stack), f), NoNode)
Call(c, f, g) == Step(c, Front(stack) \o <<f, g>>, NoNode)
Done(c, n) == Step(c, Front(stack), n)

Finish(how, n) ==
  /\ status' = how
  /\ ret' = n
  /\ stack' = <<>>
  /\ UNCHANGED <<curr, caught>>

(* An exception thrown with _curr at c: the innermost test block whose     *)
(* body is being parsed catches it.                                        *)
Throw(c) ==
  LET trying == {i \in DOMAIN stack : stack[i].at = "test body"} IN
  IF trying = {} THEN Finish("rejected", NoNode)
  ELSE LET t == CHOOSE i \in trying : \A j \in trying : j <= i IN
       /\ curr' = c
       /\ stack' = Append(SubSeq(stack, 1, t - 1), [stack[t] EXCEPT !.at = "recover"])
       /\ ret' = NoNode
       /\ caught' = TRUE
       /\ UNCHANGED status

(* A null pointer is read.                                                 *)
Crash == Finish("crashed", NoNode)

(* What asserts that it is given a node, and in a release build reads it.  *)
Missing == IF Debug THEN Throw(curr) ELSE Finish("null operand", NoNode)

(* expect_expression: A goes on with what the last call returned.          *)
Expecting(A) ==
  IF ret = NoNode THEN Missing
  ELSE IF ~IsExpr(ret) THEN Throw(curr)
  ELSE A

(* expect_token: A goes on with the token w at i.                          *)
ExpectToken(i, w, A) == IF Token(i) # w THEN Throw(i) ELSE A

(* peek at c: A goes on with the node it returned.                         *)
Peeking(p, OnNull, A) ==
  /\ flags' = p.flags
  /\ CASE p.kind = "error" -> Throw(p.start)
       [] p.kind = "crash" -> Crash
       [] p.kind = "null" -> OnNull
       [] OTHER -> A

(* parse_node(p): the parsing function of the kind that peek found.        *)
NudKinds == {"compound", "paren", "import", "intrinsic", "if", "loop", "uop",
             "return", "call", "array", "struct", "var", "fn", "break", "id",
             "literal", "string", "package", "bop or uop"}
Enter(p, f) ==
  IF p.kind \notin NudKinds THEN Throw(p.start)
  ELSE LET kind == IF p.kind = "bop or uop" THEN "uop" ELSE p.kind
           tags == IF kind \in {"fn", "struct"} THEN p.tags ELSE {}
       IN  Call(p.start, f, Frame(Node(kind, p.start, tags)))

Subexpression(c, f, rbp) == Call(c, f, [at |-> "nud", node |-> NoNode, rbp |-> rbp])
Type(c, f) == Call(c, f, [at |-> "type", node |-> NoNode, rbp |-> 0])

-----------------------------------------------------------------------------
(* next_expression and the choice of the parsing function.                 *)

NextExpression ==
  /\ On("nud")
  /\ LET p == Peek(curr) IN Peeking(p, Done(p.start, NoNode), Enter(p, To("led")))

(* The loop of next_expression: the node that is complete is the left one  *)
(* of the next as long as that one binds more tightly than the caller      *)
(* (slip: as tightly).                                                     *)
ParseLed(p, left) ==
  LET kind == IF p.kind = "bop or uop" THEN "bop" ELSE p.kind
      n == [Node(kind, p.start, {Token(p.start)}) EXCEPT !.kids = <<left>>]
  IN  IF \/ kind \notin {"bop", "access", "assign", "cast"}
         \/ Debug /\ kind # "assign" /\ ~IsExpr(left)
      THEN Throw(p.start)
      ELSE Call(p.start, Me, Frame(n))

BindsLoosely(rbp, bp) == rbp <= bp
BindsTighter(rbp, bp) == rbp < bp

NextOperator ==
  /\ On("led")
  /\ LET p == Peek(curr) IN
     Peeking(p, Done(p.start, ret),
             IF BindsTighter(Me.rbp, BindingPower(p.kind, Token(p.start))) THEN ParseLed(p, ret)
             ELSE Done(p.start, ret))

-----------------------------------------------------------------------------
(* Expressions.                                                            *)

ParseGenericToken ==
  /\ \E k \in {"id", "literal", "string", "break"} : At(k)
  /\ Done(curr + 1, Me.node)

(* A null operand is read whether or not the assertion before stops it.    *)
ParseUop ==
  \/ At("uop") /\ Subexpression(curr + 1, To("uop operand"), UnaryPower[Token(curr)])
  \/ /\ At("uop operand")
     /\ IF ret = NoNode THEN IF Debug THEN Throw(curr) ELSE Crash
        ELSE IF Debug /\ ~IsExpr(ret) THEN Throw(curr)
        ELSE Done(curr, Ending(Adding(Me.node, ret), curr - 1))

ParseBop ==
  \/ At("bop") /\ Subexpression(curr + 1, To("bop right"), OpPower[Token(curr)])
  \/ /\ At("bop right")
     /\ Expecting(Done(curr, [Ending(Adding(Me.node, ret), curr - 1)
                                EXCEPT !.start = Me.node.kids[1].start]))

(* Whatever token follows the index is taken for the bracket.              *)
ParseMemberAccess ==
  \/ /\ On("access")
     /\ LET p == Peek(curr + 1) IN
        Peeking(p, Missing, IF p.kind \in Statements THEN Throw(p.start)
                            ELSE Enter(p, To("access right")))
  \/ /\ At("access right")
     /\ LET c == IF "[" \in Me.node.tags THEN curr + 1 ELSE curr IN
        Done(c, Ending(Adding(Me.node, ret), c - 1))

ParseAssignment ==
  \/ At("assign") /\ Subexpression(curr + 1, To("assign value"), 0)
  \/ At("assign value") /\ Expecting(Done(curr, Ending(Adding(Me.node, ret), curr - 1)))

ParseCast ==
  \/ At("cast") /\ Type(curr + 1, To("cast type"))
  \/ At("cast type") /\ Done(curr, Ending(Adding(Me.node, ret), curr - 1))

(* A second expression takes the place of the first.                       *)
ParseParenthesis ==
  \/ At("paren") /\ Goto(curr + 1, To("paren more"))
  \/ /\ At("paren more")
     /\ IF Token(curr) = ")" THEN Done(curr + 1, Ending(Me.node, curr))
        ELSE IF Token(curr) = "eof" THEN Throw(curr)
        ELSE Subexpression(curr, To("paren sub"), 0)
  \/ /\ At("paren sub")
     /\ Expecting(Goto(curr, With("paren more", [Me.node EXCEPT !.kids = <<ret>>])))

(* Slip: only the last argument is kept.                                   *)
LastArgument(n, e) == [n EXCEPT !.kids = <<e>>]
AddArgument(n, e) == Adding(n, e)

ParseFuncCall ==
  \/ At("call") /\ Goto(curr + 2, To("call more"))
  \/ /\ At("call more")
     /\ IF Token(curr) = ")" THEN Done(curr + 1, Ending(Me.node, curr))
        ELSE IF Token(curr) = "eof" THEN Throw(curr)
        ELSE Subexpression(curr, To("call argument"), 0)
  \/ /\ At("call argument")
     /\ LET n == AddArgument(Me.node, ret) IN
        Expecting(IF Token(curr) = "," THEN Goto(curr + 1, With("call more", n))
                  ELSE ExpectToken(curr, ")", Done(curr + 1, Ending(n, curr))))

(* Commas are skipped wherever they are, and are not needed.  Slip: the    *)
(* comma is not passed.                                                    *)
KeepComma == Goto(curr, Me)
SkipComma == Goto(curr + 1, Me)

ParseArrayLiteral ==
  \/ /\ At("array")
     /\ IF Token(curr + 1) \in {"]", "eof"} THEN Throw(curr + 1)
        ELSE Goto(curr + 1, To("array more"))
  \/ /\ On("array more")
     /\ Token(curr) \in {",", "]", "eof"}
     /\ UNCHANGED flags
     /\ CASE Token(curr) = "," -> SkipComma
          [] Token(curr) = "]" -> Done(curr + 1, Ending(Me.node, curr))
          [] OTHER -> Done(curr, Ending(Me.node, curr - 1))
  \/ /\ On("array more")
     /\ Token(curr) \notin {",", "]", "eof"}
     /\ LET p == Peek(curr) IN
        Peeking(p, Missing,
                IF p.kind \in {"literal", "string", "array"} THEN Enter(p, To("array element"))
                ELSE Throw(p.start))
  \/ At("array element") /\ Goto(curr, With("array more", Adding(Me.node, ret)))

-----------------------------------------------------------------------------
(* Types (peek_type, parse_ty, parse_ty_array).                            *)

Letters == {"t", "var", "fn", "struct", "if", "else", "while", "for", "break",
            "return", "as", "import", "package"} \cup Identifiers \cup Qualifiers

(* A primitive type takes the place of what was read before, a name after  *)
(* the first one is skipped.                                               *)
ParseType ==
  \/ /\ At("type")
     /\ IF Token(curr) \in Letters THEN Goto(curr, With("type more", Node("type", curr, {})))
        ELSE Throw(curr)
  \/ /\ At("type more")
     /\ LET w == Token(curr) IN
        CASE w = "t" -> Goto(curr + 1, With("type more", Node("type", curr, {})))
          [] w = "*" -> Goto(curr + 1, With("type more", Adding(Node("pointer", curr, {}), Me.node)))
          [] w \in Identifiers -> Goto(curr + 1, Me)
          [] w = "[" -> Goto(curr, To("type size"))
          [] w = "eof" -> Throw(curr)
          [] OTHER -> Done(curr, Me.node)
  \/ /\ On("type size")
     /\ LET p == Peek(curr + 1) IN
        Peeking(p, Crash,
                IF p.kind # "literal" THEN Throw(p.start)
                ELSE Goto(p.start + 1, With("type close", Adding(Node("array of", curr, {}), Me.node))))
  \/ At("type close") /\ ExpectToken(curr, "]", Goto(curr + 1, To("type closed")))
  \/ /\ At("type closed")
     /\ CASE Token(curr) = "[" -> Goto(curr, To("type size"))
          [] Token(curr) = "eof" -> Throw(curr)
          [] OTHER -> Done(curr, Me.node)

-----------------------------------------------------------------------------
(* Declarations.                                                           *)

(* parse_var_decl and parse_arg_decl: any token will do for the name.      *)
ParseVarDecl ==
  \/ /\ At("var")
     /\ IF Token(curr + 1) = "eof" THEN Throw(curr + 1) ELSE Goto(curr + 2, To("var named"))
  \/ /\ At("var named")
     /\ CASE Token(curr) = ":" -> Type(curr + 1, To("typed"))
          [] Token(curr) = "eof" -> Throw(curr)
          [] OTHER -> Done(curr, Ending(Me.node, curr - 1))
ParseArgDecl ==
  \/ /\ At("arg")
     /\ IF Token(curr) = "eof" THEN Throw(curr)
        ELSE ExpectToken(curr + 1, ":", Type(curr + 2, To("typed")))
  \/ At("typed") /\ Done(curr, Ending(Adding(Me.node, ret), curr - 1))

Argument(c, f) == Call(c, f, Frame(Node("arg", c, {})))

ParseFuncDecl ==
  \/ /\ At("fn")
     /\ IF Token(curr + 1) = "eof" THEN Throw(curr + 1) ELSE Goto(curr + 2, To("fn named"))
  \/ /\ At("fn named")
     /\ ExpectToken(curr, "(",
          CASE Token(curr + 1) = ")" -> Goto(curr + 1, To("fn result"))
            [] Token(curr + 1) = "eof" -> Throw(curr + 1)
            [] OTHER -> Argument(curr + 1, To("fn more")))
  \/ /\ At("fn more")
     /\ LET n == Adding(Me.node, ret) IN
        IF Token(curr) = "," THEN Argument(curr + 1, With("fn more", n))
        ELSE Goto(curr, With("fn result", n))
  \/ /\ At("fn result")
     /\ ExpectToken(curr, ")",
          ExpectToken(curr + 1, ":", Type(curr + 2, To("fn body"))))
  \/ /\ At("fn body")
     /\ LET n == Ending(Adding(Me.node, ret), curr - 1) IN
        IF "extern" \in n.tags THEN Done(curr, n)
        ELSE ExpectToken(curr, "{", Call(curr, With("fn end", n), Frame(Node("compound", curr, {}))))
  \/ At("fn end") /\ Done(curr, Adding(Me.node, ret))

ParseStructDecl ==
  \/ /\ On("struct")
     /\ LET p == Peek(curr + 1) IN
        Peeking(p, Crash, IF p.kind # "id" THEN Throw(p.start)
                          ELSE Goto(p.start + 1, With("struct body", Ending(Me.node, p.start))))
  \/ /\ At("struct body")
     /\ ExpectToken(curr, "{", Subexpression(curr, To("struct members"), 0))
  \/ /\ At("struct members")
     /\ IF \E i \in DOMAIN ret.kids : ret.kids[i].kind \notin {"var", "assign", "fn"}
        THEN Throw(curr)
        ELSE Done(curr, [Me.node EXCEPT !.kids = ret.kids])

ParseImport ==
  /\ \E k \in {"import", "package"} : On(k)
  /\ LET p == Peek(curr + 1) IN
     Peeking(p, Crash, IF p.kind # "string" THEN Throw(p.start)
                       ELSE Done(p.start + 1, Ending(Me.node, p.start)))

-----------------------------------------------------------------------------
(* Statements.                                                             *)

Terminal(n) ==
  IF \/ n.kind \in {"compound", "if", "loop", "struct"}
     \/ n.kind = "fn" /\ "extern" \notin n.tags
     \/ n.kind = "intrinsic" /\ "test" \in n.tags
  THEN "}" ELSE ";"

ParseCompoundStmt ==
  \/ At("compound") /\ Subexpression(curr + 1, To("statement"), 0)
  \/ /\ At("statement")
     /\ IF ret = NoNode THEN ExpectToken(curr, "}", Done(curr, Ending(Me.node, curr)))
        ELSE ExpectToken(curr, Terminal(ret),
               Subexpression(curr + 1, With("statement", Adding(Me.node, ret)), 0))

Parse ==
  \/ /\ At("program")
     /\ IF Token(curr) = "eof" THEN Finish("accepted", Me.node)
        ELSE Subexpression(curr, To("top level"), 0)
  \/ /\ At("top level")
     /\ IF ret = NoNode THEN Throw(curr)
        ELSE ExpectToken(curr, Terminal(ret),
               Goto(curr + 1, With("program", Adding(Me.node, ret))))

ThenBranch(f) ==
  ExpectToken(curr + 1, "(", Call(curr + 1, f, Frame(Node("paren", curr + 1, {}))))
Branch(n) == Call(curr, With("if branch", n), Frame(Node("compound", curr, {})))

(* The statement ends at the brace of its last branch.  Slip: behind it.   *)
EndIfBehind == Done(curr, Me.node)
EndIf == Done(curr - 1, Me.node)

(* An else branch may be followed by any number of other branches.         *)
ParseIf ==
  \/ At("if") /\ ThenBranch(To("if predicate"))
  \/ At("if predicate") /\ ExpectToken(curr, "{", Branch(Adding(Me.node, ret)))
  \/ At("if branch") /\ Goto(curr + 1, With("if more", Adding(Me.node, ret)))
  \/ /\ At("if more")
     /\ CASE Token(curr) = "else" -> Goto(curr + 1, To("if else"))
          [] Token(curr) = "eof" -> Throw(curr)
          [] OTHER -> EndIf
  \/ /\ At("if else")
     /\ CASE Token(curr) = "if" -> ThenBranch(To("if predicate"))
          [] Token(curr) = "{" -> Branch(Me.node)
          [] OTHER -> Throw(curr)

ForPart(w, label) ==
  Expecting(ExpectToken(curr, w, Subexpression(curr + 1, With(label, Adding(Me.node, ret)), 0)))

(* The header of a for loop ends in a parenthesis.  Slip: in anything.     *)
EndForAnyhow == Goto(curr + 1, With("loop body", Adding(Me.node, ret)))
EndFor == ExpectToken(curr, ")", Goto(curr + 1, With("loop body", Adding(Me.node, ret))))

ParseLoop ==
  \/ /\ At("loop")
     /\ ExpectToken(curr + 1, "(",
          IF Token(curr) = "while" THEN Subexpression(curr + 1, To("loop header"), 0)
          ELSE Subexpression(curr + 2, To("loop start"), 0))
  \/ At("loop start") /\ ForPart(";", "loop test")
  \/ At("loop test") /\ ForPart(";", "loop step")
  \/ At("loop step") /\ Expecting(EndFor)
  \/ /\ At("loop header")
     /\ Expecting(Goto(curr, With("loop body", Adding(Me.node, ret))))
  \/ /\ At("loop body")
     /\ ExpectToken(curr, "{", Subexpression(curr, To("loop end"), 0))
  \/ At("loop end") /\ Done(curr, Adding(Me.node, ret))

ParseReturn ==
  \/ At("return") /\ Subexpression(curr + 1, To("return value"), 0)
  \/ /\ At("return value")
     /\ IF ret = NoNode THEN Done(curr, Ending(Me.node, curr - 1))
        ELSE Expecting(Done(curr, Ending(Adding(Me.node, ret), curr - 1)))

-----------------------------------------------------------------------------
(* Intrinsics and test blocks.                                             *)

(* The name behind the @ is read without a look at the end of the file.    *)
ParseIntrinsic ==
  \/ /\ On("intrinsic")
     /\ CASE Token(curr + 1) = "eof" ->
               UNCHANGED flags /\ IF Debug THEN Throw(curr + 1) ELSE Crash
          [] Token(curr + 1) = "test" -> UNCHANGED flags /\ Goto(curr + 2, To("test name"))
          [] OTHER -> LET p == Peek(curr + 1) IN
                      Peeking(p, Crash, Enter(p, To("intrinsic name")))
  \/ /\ At("intrinsic name")
     /\ IF \/ ret.kind = "id" /\ Token(ret.start) = "line"
           \/ ret.kind = "call" /\ Token(ret.start) = "noop"
        THEN Done(curr, Ending(Adding(Me.node, ret), curr - 1))
        ELSE Throw(curr)

Recover ==
  CASE Token(curr) = "}" -> Done(curr, [Me.node EXCEPT !.tags = @ \cup {"caught"}])
    [] Token(curr) = "eof" -> Throw(curr)
    [] OTHER -> Goto(curr + 1, Me)

(* The block whose body throws ends at the next closing brace, whichever   *)
(* block that brace belongs to.                                            *)
ParseTestCompError ==
  \/ /\ On("test name")
     /\ LET p == Peek(curr) IN
        Peeking(p, Crash, IF p.kind = "paren" THEN Enter(p, To("test named")) ELSE Throw(p.start))
  \/ /\ On("test named")
     /\ LET p == Peek(curr)
            n == [Ending(Me.node, curr - 1) EXCEPT !.tags = {"test"}] IN
        IF ret.kids = <<>> THEN UNCHANGED flags /\ Crash
        ELSE IF ret.kids[1].kind # "id" THEN UNCHANGED flags /\ Throw(curr)
        ELSE Peeking(p, Crash, IF p.kind = "compound" THEN Enter(p, With("test body", n))
                               ELSE Throw(p.start))
  \/ At("test body") /\ Done(curr, [Me.node EXCEPT !.kids = ret.kids])
  \/ At("recover") /\ Recover

-----------------------------------------------------------------------------
Init ==
  /\ slice \in Slices
  /\ src = slice.start
  /\ complete = (slice.words = {})
  /\ curr = 1
  /\ stack = <<Frame(Node("program", 1, {}))>>
  /\ ret = NoNode
  /\ flags = {}
  /\ caught = FALSE
  /\ status = "parsing"

(* One more token of the source, or its end.                               *)
Read ==
  /\ status = "parsing" /\ ~Ready
  /\ \/ complete' = TRUE /\ src' = src
     \/ /\ Len(src) < slice.max
        /\ \E w \in slice.words : src' = Append(src, w)
        /\ UNCHANGED complete
  /\ UNCHANGED <<slice, curr, stack, ret, flags, caught, status>>

ParseExpression ==
  \/ NextExpression \/ NextOperator \/ ParseGenericToken \/ ParseUop \/ ParseBop
  \/ ParseMemberAccess \/ ParseAssignment \/ ParseCast \/ ParseParenthesis
  \/ ParseFuncCall \/ ParseArrayLiteral
ParseStatement ==
  \/ Parse \/ ParseCompoundStmt \/ ParseIf \/ ParseLoop \/ ParseReturn
  \/ ParseIntrinsic \/ ParseTestCompError
ParseDeclaration ==
  \/ ParseType \/ ParseVarDecl \/ ParseArgDecl \/ ParseFuncDecl \/ ParseStructDecl
  \/ ParseImport

Next ==
  \/ Read
  \/ /\ status = "parsing" /\ Ready
     /\ ParseExpression \/ ParseStatement \/ ParseDeclaration
     /\ UNCHANGED <<slice, src, complete>>

Spec == Init /\ [][Next]_vars
FairSpec == Spec /\ WF_vars(Next)

TypeOK ==
  /\ Len(src) \in 0 .. slice.max
  /\ curr \in 1 .. Len(src) + 3
  /\ flags \subseteq Qualifiers
  /\ caught \in BOOLEAN /\ complete \in BOOLEAN
  /\ status \in {"parsing", "accepted", "rejected", "crashed", "null operand"}
  /\ status = "parsing" <=> stack # <<>>
  /\ \A i \in DOMAIN stack : stack[i].node.start <= stack[i].node.end + 1

=============================================================================
