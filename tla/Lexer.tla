------------------------------- MODULE Lexer -------------------------------
(***************************************************************************)
(* Source files and their tokens: the lines and cursors of SourceFile      *)
(* (source_file/source_file.cpp) and the loop of tokenize                  *)
(* (lexer/lexer.cpp), one token per step.                                  *)
(*                                                                         *)
(* A text is a sequence of characters.  Lines do not hold the character    *)
(* that ends them, and a cursor, a line and a column counted from 0, goes  *)
(* from the last character of a line to the first of the next one.         *)
(***************************************************************************)
EXTENDS Naturals, Sequences, FiniteSets, FiniteSetsExt, SequencesExt

CONSTANTS
  Texts,   \* the texts of the files
  Debug    \* whether the assertions are compiled in

ASSUME DebugAssumption == Debug \in BOOLEAN

VARIABLES
  lines,   \* _lines of the source file
  start,   \* the cursor of tokenize
  tokens,  \* the tokens so far
  pc       \* "lexing", "done", "rejected" by a message, "crashed"

vars == <<lines, start, tokens, pc>>

(* Characters, some of each kind that the code tells apart.  Nul is what   *)
(* is read behind the end of a line.                                       *)
Nul == "nul"
Space == {" "}
Letter == {"a", "s", "i", "f", "n", "u", "x"}
Digit == {"0", "1"}
Hexadecimal == {"a", "f", "x"}
WordChar == Letter \cup Digit \cup {"_"}
OP == {"~", "!", "%", "^", "&", "*", "-", "=", "+", "|", "<", ">", "/", "."}
Quote == {"'", "\""}
PUNCTUATIONS ==
  OP \cup Quote \cup {"#", "(", ")", "[", "]", "{", "}", "\\", ";", ":", ",", "?", "@"}
Char == WordChar \cup PUNCTUATIONS \cup Space \cup {"$", Nul}

KEYWORDS == {<<"a", "s">>, <<"f", "n">>, <<"i", "f">>}

(* The operators of more than one character, those that compare, and all   *)
(* that the code looks up while it decides on the length.                  *)
Assigning == {<<c, "=">> : c \in {"%", "^", "&", "+", "-", "*", "/", "|"}}
RELOP == {<<c, "=">> : c \in {"=", "!", ">", "<"}}
           \cup {<<">">>, <<"<">>, <<"&", "&">>, <<"|", "|">>}
UOP == {<<"~">>, <<"!">>}
OP_ALL ==
  RELOP \cup Assigning \cup {<<"<", "<">>, <<">", ">">>}
    \cup {<<"<", "<", "=">>, <<">", ">", "=">>}
    \cup {<<c>> : c \in OP \ {"!", "="}}

OperatorType(value) ==
  IF value \in RELOP THEN "relop" ELSE IF value \in UOP THEN "uop" ELSE "bop"

-----------------------------------------------------------------------------
(* SourceFile.                                                             *)

LineEnds(t) == {i \in DOMAIN t : t[i] = "\n" \/ i = Len(t)}
LineStart(t, i) == Max({0} \cup {j \in LineEnds(t) : j < i}) + 1

(* A line without its indentation; a line of blanks keeps them.            *)
Unindented(line) ==
  LET code == {i \in DOMAIN line : line[i] \notin Space}
  IN  IF code = {} THEN line ELSE SubSeq(line, Min(code), Len(line))

FromString(t) ==
  LET ends == SetToSortSeq(LineEnds(t), <)
      last(i) == IF t[i] = "\n" THEN i - 1 ELSE i
  IN  [k \in DOMAIN ends |->
         Unindented(SubSeq(t, LineStart(t, ends[k]), last(ends[k])))]

Size == Len(lines)
Line(l) == lines[l + 1]
Before(p, q) == p[1] < q[1] \/ (p[1] = q[1] /\ p[2] < q[2])

End == IF lines = <<>> THEN <<0, 1>> ELSE <<Size - 1, Len(Last(lines))>>

At(p) ==
  IF p[1] < Size /\ p[2] < Len(Line(p[1])) THEN Line(p[1])[p[2] + 1] ELSE Nul

Forward(p) ==
  IF p[1] >= Size THEN p
  ELSE IF p[2] + 1 >= Len(Line(p[1])) THEN <<p[1] + 1, 0>>
  ELSE <<p[1], p[2] + 1>>

(* The text from p, inclusive, to q, exclusive; up to the end of the file  *)
(* if there is no q.                                                       *)
RestOfLine(p) == SubSeq(Line(p[1]), p[2] + 1, Len(Line(p[1])))
Substr(p, q) ==
  LET to == IF q[1] >= Size THEN End
            ELSE IF q[2] > Len(Line(q[1])) THEN End ELSE q
      between == [k \in 1..(to[1] - p[1] - 1) |-> Line(p[1] + k) \o <<"\n">>]
  IN  IF p[1] = to[1] THEN SubSeq(Line(p[1]), p[2] + 1, to[2])
      ELSE RestOfLine(p) \o <<"\n">> \o FlattenSeq(between)
             \o SubSeq(Line(to[1]), 1, to[2])

-----------------------------------------------------------------------------
(* The loop of tokenize.                                                   *)

More == Size > 0 /\ Before(start, End)
Lexing == pc = "lexing" /\ More

(* The first cursor from p on that is not at one of the characters. *)
Scan(p, characters) ==
  LET scan[q \in Nat \X Nat] ==
        IF Before(q, End) /\ At(q) \in characters THEN scan[Forward(q)] ELSE q
  IN  scan[p]

(* The characters from p to q. *)
Read(p, q) ==
  LET read[r \in Nat \X Nat] ==
        IF r = q THEN <<>> ELSE <<At(r)>> \o read[Forward(r)]
  IN  read[p]

Found(type, at, value, next) ==
  /\ tokens' = Append(tokens, [type |-> type, at |-> at, value |-> value])
  /\ start' = Scan(next, Space \cup {Nul})
  /\ UNCHANGED <<lines, pc>>

Stop(outcome) == pc' = outcome /\ UNCHANGED <<lines, start, tokens>>

(* An assertion, which a release build does not have. *)
AssertionFails == Stop(IF Debug THEN "rejected" ELSE "crashed")

(* The message quotes the line of the cursor. *)
ReportError(p) == IF p[1] < Size THEN Stop("rejected") ELSE AssertionFails

(* The loop of tokenize_id ends without a token at the end of the file.    *)
TokenizeWord ==
  /\ Lexing
  /\ At(start) \in Letter \cup {"_"}
  /\ LET next == Scan(start, WordChar)
         value == Substr(start, next)
     IN  IF next = End THEN ReportError(next)
         ELSE Found(IF value \in KEYWORDS THEN "keyword" ELSE "id", start, value, next)

(* What may stand in a number: letters only behind a leading 0, an u only  *)
(* in front of the point.                                                  *)
InNumber(s, i) ==
  \/ s[i] \in Digit \cup {"."}
  \/ s[1] = "0" /\ s[i] \in Hexadecimal
  \/ s[i] = "u" /\ \A j \in 1..i : s[j] # "."

(* IS_DELIMITER, without the point, which a number may hold. *)
Delimiter == (PUNCTUATIONS \ {"~", "."}) \cup Space \cup {"$"}

TokenizeNumber ==
  /\ Lexing
  /\ At(start) \in Digit
  /\ LET next == Scan(start, Char \ Delimiter)
         read == Read(start, next)
     IN  IF \E i \in DOMAIN read : ~InNumber(read, i) THEN Stop("rejected")
         ELSE Found(IF "." \in ToSet(read) THEN "float" ELSE "int", start,
                    Substr(start, next), next)

-----------------------------------------------------------------------------
(* Comments.  The cursor of a line comment goes to the end of its line.    *)
AtComment(second) == At(start) = "/" /\ At(Forward(start)) = second

TokenizeLineComment ==
  /\ Lexing
  /\ AtComment("/")
  /\ LET from == Forward(Forward(start))
     IN  IF from[1] >= Size THEN AssertionFails
         ELSE Found("comments", start, RestOfLine(from), <<start[1] + 1, 0>>)

(* The columns of line l at which a comment may end.                       *)
Closings(l) ==
  {c \in 0..(Len(Line(l)) - 2) : Line(l)[c + 1] = "*" /\ Line(l)[c + 2] = "/"}

(* Every line is searched from its beginning, the one of the comment too:  *)
(* a closing in front of the comment is found first.                       *)
TokenizeBlockComment ==
  /\ Lexing
  /\ AtComment("*")
  /\ LET from == Forward(Forward(start))
         closed == {l \in from[1]..(Size - 1) : Closings(l) # {}}
         close == <<Min(closed), Min(Closings(Min(closed)))>>
         next == <<close[1], close[2] + 2>>
     IN  IF closed = {} THEN ReportError(from)
         ELSE IF ~Before(close, from) THEN Found("comments", from, Substr(from, close), next)
         ELSE IF Debug THEN Stop("rejected")
         ELSE Found("comments", from, RestOfLine(from), next)

-----------------------------------------------------------------------------
(* Literals in quotes.                                                     *)

Closing(quote) ==
  LET scan[q \in Nat \X Nat] ==
        IF ~Before(q, End) \/ At(q) = quote THEN q
        ELSE scan[Forward(IF At(q) = "\\" THEN Forward(q) ELSE q)]
  IN  scan[Forward(start)]

(* The message points at the last column of the last line, which is column *)
(* 2^32 - 1 if that line is empty: a message as long may be too long.      *)
Incomplete ==
  \/ Stop("rejected")
  \/ Last(lines) = <<>> /\ Stop("crashed")

EscapeChar(c) ==
  CASE c \in Quote \cup {"\\", "?"} -> c
    [] c = "a" -> "alert" [] c = "f" -> "\f" [] c = "n" -> "\n"
    [] OTHER -> "invalid"

TokenizeChar ==
  /\ Lexing
  /\ At(start) = "'"
  /\ LET close == Closing("'")
         value == Substr(Forward(start), close)
     IN  IF ~Before(close, End) THEN Incomplete
         ELSE IF Len(value) = 1 /\ value # <<"\\">>
         THEN Found("char", start, value, Forward(close))
         ELSE IF Len(value) = 2 /\ value[1] = "\\"
         THEN Found("char", start, <<EscapeChar(value[2])>>, Forward(close))
         ELSE Stop("rejected")

(* A string with its escapes replaced; the last part of it, behind a       *)
(* backslash at its end, does not exist.                                   *)
Unescaped(s) ==
  LET rest[i \in 1..(Len(s) + 2)] ==
        IF i > Len(s) THEN <<>>
        ELSE IF s[i] # "\\" THEN <<s[i]>> \o rest[i + 1]
        ELSE <<EscapeChar(IF i = Len(s) THEN Nul ELSE s[i + 1])>> \o rest[i + 2]
  IN  rest[1]
EndsInEscape(s) ==
  LET ends[i \in 1..(Len(s) + 2)] ==
        IF i > Len(s) THEN i = Len(s) + 2
        ELSE ends[IF s[i] = "\\" THEN i + 2 ELSE i + 1]
  IN  ends[1]

TokenizeString ==
  /\ Lexing
  /\ At(start) = "\""
  /\ LET close == Closing("\"")
         value == Substr(Forward(start), close)
     IN  IF ~Before(close, End) THEN Incomplete
         ELSE IF EndsInEscape(value) THEN Stop("crashed")
         ELSE Found("string", start, Unescaped(value), Forward(close))

-----------------------------------------------------------------------------
(* Operators and punctuation.  Slip: two characters are tried first.       *)
Operator(value, next) == Found(OperatorType(value), start, value, next)

AtOperator ==
  At(start) \in OP /\ ~AtComment("/") /\ ~AtComment("*")

TokenizeOperatorTwoFirst ==
  /\ Lexing
  /\ AtOperator
  /\ LET next == Forward(start)
         two == Substr(start, Forward(next))
     IN  IF Before(next, End) /\ two \in OP_ALL THEN Operator(two, Forward(next))
         ELSE Operator(<<At(start)>>, next)

TokenizeOperator ==
  /\ Lexing
  /\ AtOperator
  /\ LET next == Forward(start)
         nnext == Forward(next)
         two == Substr(start, nnext)
         three == Substr(start, Forward(nnext))
     IN  IF Before(nnext, End) /\ three \in OP_ALL THEN Operator(three, Forward(nnext))
         ELSE IF Before(next, End) /\ two \in OP_ALL THEN Operator(two, nnext)
         ELSE Operator(<<At(start)>>, next)

TokenizePunctuation ==
  /\ Lexing
  /\ At(start) \in PUNCTUATIONS \ (OP \cup Quote)
  /\ Found("punctuation", start, <<At(start)>>, Forward(start))

(* Slip: the symbol is passed over, but not the cursor. *)
InvalidSymbolAgain ==
  /\ Lexing
  /\ At(start) \notin WordChar \cup PUNCTUATIONS
  /\ UNCHANGED vars

InvalidSymbol ==
  /\ Lexing
  /\ At(start) \notin WordChar \cup PUNCTUATIONS
  /\ ReportError(start)

Finish ==
  /\ pc = "lexing"
  /\ ~More
  /\ Stop("done")

-----------------------------------------------------------------------------
Init ==
  /\ lines \in {FromString(t) : t \in Texts}
  /\ start = <<0, 0>>
  /\ tokens = <<>>
  /\ pc = "lexing"

Next ==
  \/ TokenizeWord
  \/ TokenizeNumber
  \/ TokenizeLineComment
  \/ TokenizeBlockComment
  \/ TokenizeChar
  \/ TokenizeString
  \/ TokenizeOperator
  \/ TokenizePunctuation
  \/ InvalidSymbol
  \/ Finish

Spec == Init /\ [][Next]_vars

(* The lexer is one loop that does not pause. *)
FairSpec == Spec /\ WF_vars(Next)

-----------------------------------------------------------------------------
(* Cursors stay on the lines or behind the last one, and the locations of  *)
(* the tokens follow each other.                                           *)
TypeOK ==
  /\ pc \in {"lexing", "done", "rejected", "crashed"}
  /\ start[1] \in 0..Size
  /\ start[2] \in 0..(IF start[1] = Size THEN 0 ELSE Len(Line(start[1])))
  /\ \A i \in 2..Len(tokens) : Before(tokens[i - 1].at, tokens[i].at)

-----------------------------------------------------------------------------
(* What the tokens of a text are, said of the text and not of the lexer:   *)
(* from the first character that is not blank, the longest span that is a  *)
(* token of some kind, and so on.                                          *)
Flat ==
  FlattenSeq([k \in DOMAIN lines |->
                IF k < Size THEN lines[k] \o <<"\n">> ELSE lines[k]])
Cursor(i) ==
  LET breaks == {j \in 1..(i - 1) : Flat[j] = "\n"}
  IN  <<Cardinality(breaks), i - 1 - Max({0} \cup breaks)>>

Inner(s, n) == SubSeq(s, n + 1, Len(s) - n)
Starts(s, c, d) == Len(s) > 1 /\ s[1] = c /\ s[2] = d

(* A character behind an odd number of backslashes is escaped.             *)
Escaped(s, i) ==
  LET run == {j \in 1..(i - 1) : \A k \in j..(i - 1) : s[k] = "\\"}
  IN  Cardinality(run) % 2 = 1

IsWord(s) == s[1] \notin Digit /\ ToSet(s) \subseteq WordChar
IsNumber(s) == s[1] \in Digit /\ \A i \in DOMAIN s : InNumber(s, i)
IsLineComment(s) == Starts(s, "/", "/") /\ "\n" \notin ToSet(s)
IsBlockComment(s) ==
  /\ Len(s) >= 4 /\ Starts(s, "/", "*")
  /\ {i \in 3..(Len(s) - 1) : s[i] = "*" /\ s[i + 1] = "/"} = {Len(s) - 1}
IsString(s) ==
  /\ Len(s) > 1 /\ s[1] = "\""
  /\ {i \in 2..Len(s) : s[i] = "\"" /\ ~Escaped(s, i)} = {Len(s)}
IsChar(s) ==
  /\ Len(s) \in {3, 4} /\ s[1] = "'" /\ Last(s) = "'"
  /\ IF Len(s) = 3 THEN s[2] \notin {"'", "\\"} ELSE s[2] = "\\"

KindOf(s) ==
  CASE IsWord(s) -> IF s \in KEYWORDS THEN "keyword" ELSE "id"
    [] IsNumber(s) -> IF "." \in ToSet(s) THEN "float" ELSE "int"
    [] IsLineComment(s) \/ IsBlockComment(s) -> "comments"
    [] IsString(s) -> "string"
    [] IsChar(s) -> "char"
    [] s \in OP_ALL \cup {<<"!">>, <<"=">>} -> OperatorType(s)
    [] Len(s) = 1 /\ s[1] \in PUNCTUATIONS \ (OP \cup Quote) -> "punctuation"
    [] OTHER -> "none"

ValueOf(s) ==
  CASE IsLineComment(s) -> SubSeq(s, 3, Len(s))
    [] IsBlockComment(s) -> Inner(s, 2)
    [] IsString(s) \/ IsChar(s) -> Unescaped(Inner(s, 1))
    [] OTHER -> s

(* Where no token can begin: at an open comment, in front of a number that *)
(* goes on with something else.                                            *)
Errors(i, j) ==
  LET s == SubSeq(Flat, i, j)
  IN  \/ KindOf(s) = "none"
      \/ s = <<"/">> /\ j < Len(Flat) /\ Flat[j + 1] = "*"
      \/ IsNumber(s) /\ j < Len(Flat) /\ Flat[j + 1] \notin Delimiter \cup {"\n"}

(* The tokens of the text, up to the first error.                          *)
Error == [type |-> "error"]
Expected ==
  LET from[k \in Nat] ==
        LET code == {i \in k..Len(Flat) : Flat[i] \notin Space \cup {"\n"}}
            i == Min(code)
            j == Max({i} \cup {e \in i..Len(Flat) : KindOf(SubSeq(Flat, i, e)) # "none"})
            s == SubSeq(Flat, i, j)
        IN  IF code = {} THEN <<>>
            ELSE IF Errors(i, j) THEN <<Error>>
            ELSE <<[type |-> KindOf(s), value |-> ValueOf(s),
                    at |-> Cursor(IF IsBlockComment(s) THEN i + 2 ELSE i)]>>
                 \o from[j + 1]
  IN  from[1]

(* What the lexer is known to read in its own way: a blank first line; a   *)
(* line that ends in a word, an operator or a quote, as the next character *)
(* is then that of the next line; an empty comment at the end; and a       *)
(* comment that opens behind the end of another on its line.               *)
Tidy ==
  /\ lines # <<>> => At(<<0, 0>>) \notin Space \cup {Nul}
  /\ \A k \in 1..(Size - 1) :
       lines[k] = <<>> \/ Last(lines[k]) \notin WordChar \cup OP \cup Quote \cup {"\\"}
  /\ lines # <<>> => ~IsSuffix(<<"/", "/">>, Last(lines))
  /\ \A l \in 0..(Size - 1) : \A c \in 0..(Len(Line(l)) - 2) :
       Line(l)[c + 1] = "/" /\ Line(l)[c + 2] = "*" =>
         \A d \in Closings(l) : d > c + 1

(* In a tidy text the tokens are those that the text says, each with its   *)
(* place and its value, and what has no tokens is an error.                *)
ReadsTokens ==
  pc # "lexing" /\ Tidy =>
    /\ pc = "done" => tokens = Expected
    /\ pc # "done" => Expected = Append(tokens, Error)

(* Every text comes to an end. *)
LexingEnds == <>(pc # "lexing")

=============================================================================
