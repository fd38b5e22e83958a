----------------------------- MODULE MC_Parser -----------------------------
(* Sources for TLC, and what the trees of the parser should look like.     *)
EXTENDS Parser

-----------------------------------------------------------------------------
(* Sources that are built word by word from a small vocabulary.            *)

LOCAL Free(start, words, max) == [start |-> start, words |-> words, max |-> max]

FreeSlices == {
  Free(<<>>, {"a", "-", "*", "<", "=", "!", ";"}, 6),
  Free(<<>>, {"a", "-", "(", ")", ",", ".", ";"}, 6),
  Free(<<>>, {"a", "1", "[", "]", ",", "-", ";"}, 6),
  Free(<<>>, {"a", "as", "t", "*", ";"}, 6),
  Free(<<"var", "a">>, {":", "a", "t", "*", "[", "1", "]", ";"}, 7),
  Free(<<>>, {"var", "a", ":", "=", "c", ";"}, 6),
  Free(<<>>, {"import", "package", "s", "c", "return", "break", ";"}, 5),
  Free(<<"if", "(", "a", ")">>, {"if", "else", "(", "a", ")", "{", "}"}, 10),
  Free(<<"while">>, {"(", "a", ")", "{", "}", ";"}, 8),
  Free(<<"for", "(", "a">>, {"a", ";", ")", "{", "}"}, 11),
  Free(<<>>, {"pub", "extern", "fn", "struct", "a", "{", "}"}, 6),
  Free(<<"fn", "a", "(">>, {"a", ":", "t", ",", ")", "{", "}"}, 9),
  Free(<<"@">>, {"line", "noop", "(", ")", "a", ";"}, 6),
  Free(<<"@", "test">>, {"(", "a", ")", "{", "}", "="}, 9),
  Free(<<"@", "test", "(", "a", ")", "{", "pub">>, {"pub", "var", "a", "fn", "{", "}", ";"}, 11),
  Free(<<"@", "test", "(", "a", ")", "{", "pub", "a", "}", "fn", "a", "(", ")", ":", "t", "{">>,
       {"@", "}"}, 18)}

-----------------------------------------------------------------------------
(* Legal programs, as the tests of the compiler write them.                *)

LOCAL Atoms == {<<"a">>, <<"1">>}
LOCAL Infix(L, ops, R) == {l \o <<o>> \o r : l \in L, o \in ops, r \in R}
LOCAL Prefixed(E) == {<<o>> \o e : o \in {"-", "*", "!"}, e \in E}
LOCAL Wrapped(E) ==
  UNION {{<<"(">> \o e \o <<")">>, <<"a", "(">> \o e \o <<")">>,
          <<"a", "(", "1", ",">> \o e \o <<")">>, <<"[">> \o e \o <<",", "1", "]">>} : e \in E}
LOCAL Simple ==
  Atoms \cup Infix(Atoms, {"-", "*", "<", "="}, Atoms) \cup Prefixed(Atoms)
  \cup {<<"a", "(", ")">>, <<"a", ".", "a">>, <<"a", "[", "1", "]">>,
        <<"a", ".", "a", "(", "1", ")">>, <<"a", "[", "a", "]", "[", "1", "]">>,
        <<"(", "a", "as", "t", "*", ")">>}
LOCAL Expressions ==
  Simple \cup Prefixed(Simple) \cup Infix(Simple, {"-", "*", "<", "="}, Simple)
  \cup {<<"a", "as", "t">>, <<"a", "-", "a", "as", "t", "*", "*">>,
        <<"a", "=", "[", "1", ",", "1", "]">>, <<"a", "=", "[", "[", "1", "]", ",", "[", "1", "]", "]">>}
  \cup {<<"(">> \o e \o <<")">> : e \in Simple}
  \cup {<<"a", "(", "1", ",">> \o e \o <<")">> : e \in Simple}

LOCAL SimpleStatements ==
  {<<"a", ";">>, <<"a", "=", "1", ";">>, <<"var", "a", ";">>, <<"break", ";">>, <<"c">>,
   <<"var", "a", ":", "a", "*", ";">>, <<"var", "a", ":", "t", "[", "1", "]", "[", "1", "]", ";">>,
   <<"var", "a", ":", "t", "=", "a", ";">>, <<"return", ";">>, <<"return", "a", "-", "1", ";">>,
   <<"@", "line", ";">>, <<"@", "noop", "(", ")", ";">>, <<"{", "}">>}
LOCAL Block(s) == <<"{">> \o s \o <<"}">>
LOCAL Nesting(S) ==
  UNION {{Block(s), <<"if", "(", "a", ")">> \o Block(s),
          <<"if", "(", "a", ")">> \o Block(s) \o <<"else">> \o Block(s),
          <<"if", "(", "a", ")", "{", "}", "else", "if", "(", "a", ")">> \o Block(s) \o <<"else", "{", "}">>,
          <<"while", "(", "a", ")">> \o Block(s),
          <<"for", "(", "a", "=", "1", ";", "a", ";", "a", "=", "a", ")">> \o Block(s),
          <<"@", "test", "(", "a", ")">> \o Block(s)} : s \in S}
LOCAL Statements2 ==
  {s \o r : s \in SimpleStatements, r \in SimpleStatements} \cup Nesting(SimpleStatements)
  \cup Nesting(Nesting({<<"a", ";">>, <<>>}))

LOCAL Function(s) == <<"fn", "a", "(", "a", ":", "t", ",", "a", ":", "a", "*", ")", ":", "t", "{">> \o s \o <<"}">>
LOCAL Programs ==
  {e \o <<";">> : e \in Expressions} \cup {Function(s) : s \in Statements2}
  \cup {<<"pub">> \o Function(<<>>) \o Function(<<>>),
        <<"pub", "extern", "fn", "a", "(", ")", ":", "t", "*", ";">> \o Function(<<>>),
        <<"package", "s", ";", "import", "s", ";", "c", "extern", "fn", "a", "(", "a", ":", "t", ")", ":", "a", ";">>,
        <<"pub", "struct", "a", "{", "var", "a", ":", "t", ";", "c", "var", "a", ":", "t", "=", "1", ";", "fn", "a", "(", ")", ":", "t", "{", "}", "}">>}

LegalSlices == {[start |-> s, words |-> {}, max |-> Len(s)] : s \in Programs}
AllSlices == FreeSlices \cup LegalSlices

(* Statements whose operand is left out. *)
NoOperand == {Free(<<"a">>, {"=", "-", "(", ")", ";"}, 4)}

-----------------------------------------------------------------------------
(* Every program of the language that the tests use is accepted.           *)
AcceptsLegal == slice.words = {} => status \in {"parsing", "accepted"}

(* Parsing comes to an end on every source.                                *)
ParsingEnds == <>(status # "parsing")

(* Nothing asks for an operand and goes on without one, which is what      *)
(* expect_expression asserts.                                              *)
OperandsPresent == status # "null operand"

(* Unless an error was caught before, a function or struct is public or    *)
(* external exactly if it is written so: the flags of one declaration      *)
(* never reach another one.                                                *)
QualifiersExact ==
  ret.kind \in {"fn", "struct"} /\ ~caught =>
    ret.tags = {src[i] : i \in {i \in 1 .. ret.start - 1 :
                                  /\ src[i] \in Qualifiers
                                  /\ \A j \in i .. ret.start - 1 : src[j] \in Qualifiers \cup {"c"}}}

(* The operators that end where the node ends, or begin where it begins.   *)
RECURSIVE RightEdge(_)
RightEdge(n) ==
  CASE n.kind \in {"bop", "assign", "uop"} -> {n} \cup RightEdge(Last(n.kids))
    [] n.kind = "access" -> {n} \cup (IF "[" \in n.tags THEN {} ELSE RightEdge(n.kids[2]))
    [] n.kind = "cast" -> {n}
    [] OTHER -> {}
RECURSIVE LeftEdge(_)
LeftEdge(n) ==
  IF n.kind \in {"bop", "assign", "access", "cast"} THEN {n} \cup LeftEdge(n.kids[1]) ELSE {}

LOCAL Power(n) ==
  BindingPower(n.kind, IF n.kind = "uop" THEN src[n.start]
                       ELSE CHOOSE w \in n.tags : TRUE)

(* Operators group by their precedence, those of one precedence to the     *)
(* left and assignments to the right, whatever is nested in what: no       *)
(* operand could be taken over by the operator on its other side.          *)
FollowsPrecedence ==
  /\ ret.kind \in {"bop", "access", "cast"} =>
       \A m \in RightEdge(ret.kids[1]) : Power(m) >= Power(ret)
  /\ ret.kind = "assign" => \A m \in RightEdge(ret.kids[1]) : Power(m) > Power(ret)
  /\ ret.kind \in {"bop", "uop"} => \A m \in LeftEdge(Last(ret.kids)) : Power(m) > Power(ret)
  /\ ret.kind = "access" => LeftEdge(ret.kids[2]) = {}

-----------------------------------------------------------------------------
(* The operands and names of a source that a tree holds, at their places.  *)
LOCAL Operands == Identifiers \cup {"1", "s", "t"}
LOCAL Own(n) ==
  CASE n.kind \in {"id", "literal", "string", "call", "arg", "type"} -> {n.start}
    [] n.kind \in {"var", "fn", "struct", "array of"} -> {n.start + 1}
    [] n.kind \in {"import", "package"} -> {n.end}
    [] n.kind = "intrinsic" /\ "test" \in n.tags -> n.start + 1 .. n.end
    [] OTHER -> {}
LOCAL Together(s) == UNION {s[i] : i \in DOMAIN s}
RECURSIVE Kept(_)
Kept(n) == Own(n) \cup Together([i \in DOMAIN n.kids |-> Kept(n.kids[i])])

(* What is known to be dropped: all but the last expression of a           *)
(* parenthesis, all but one name of a type, the token that is taken for    *)
(* the bracket of an access.                                               *)
LOCAL TypeRun(i) ==
  {j \in DOMAIN src : \A k \in (i .. j) \cup (j .. i) : src[k] \in TypeWords}
RECURSIVE Dropped(_)
Dropped(n) ==
  (CASE n.kind = "paren" /\ n.kids # <<>> ->
          {i \in n.start .. n.end : \A j \in Kept(n.kids[1]) : i < j}
     [] n.kind = "type" -> TypeRun(n.start)
     [] n.kind = "access" -> {n.end}
     [] OTHER -> {})
  \cup Together([i \in DOMAIN n.kids |-> Dropped(n.kids[i])])

(* If a source is accepted and no error was caught, the tree holds all of  *)
(* its operands and names but those that are known to be dropped.          *)
NothingLost ==
  status = "accepted" /\ ~caught =>
    \A i \in DOMAIN src : src[i] \in Operands => i \in Kept(ret) \cup Dropped(ret)

LOCAL Closes == ("(" :> ")" @@ "{" :> "}" @@ "[" :> "]")
RECURSIVE Nests(_, _)
Nests(s, open) ==
  CASE s = <<>> -> open = <<>>
    [] Head(s) \in DOMAIN Closes -> Nests(Tail(s), <<Closes[Head(s)]>> \o open)
    [] Head(s) \in {")", "}", "]"} ->
         open # <<>> /\ Head(s) = Head(open) /\ Nests(Tail(s), Tail(open))
    [] OTHER -> Nests(Tail(s), open)

(* The names are names, and the bracket of an access is one.               *)
RECURSIVE Proper(_)
Proper(n) ==
  /\ n.kind \in {"var", "fn", "arg"} => \A i \in Own(n) : src[i] \in Identifiers
  /\ n.kind = "access" /\ "[" \in n.tags => src[n.end] = "]"
  /\ \A i \in DOMAIN n.kids : Proper(n.kids[i])

(* The brackets of an accepted source nest, if no error was caught: every  *)
(* parsing function stops at the bracket that closes what it opened, but   *)
(* for the names and indices that nothing checks.                          *)
AcceptedNests ==
  status = "accepted" /\ ~caught /\ Proper(ret) => Nests(src, <<>>)

=============================================================================
