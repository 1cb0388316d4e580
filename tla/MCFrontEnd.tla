------------------------------ MODULE MCFrontEnd ------------------------------
(***************************************************************************)
(* Programs to read: trees written out in several layouts (intended), and  *)
(* short texts over the characters and words that structure a program.     *)
(***************************************************************************)
EXTENDS SourceWriter

VARIABLES intended,    \* the statements the text was written out from, if any
          layout,      \* how
          taken        \* the steps it took so far

mcVars == <<frontVars, intended, layout, taken>>

(***************************************************************************)
(* Trees.                                                                  *)
(***************************************************************************)
N(kind, name, kids) == Node(kind, name, kids, {}, 0)
NF(kind, name, kids, flags) == Node(kind, name, kids, flags, 0)
X    == N("Identifier", <<"x">>, <<>>)
Y    == N("Identifier", <<"y">>, <<>>)
One1 == N("Number", <<"1">>, <<>>)
Self1   == N("Self", <<"self">>, <<>>)
Super1  == N("Super", <<"a">>, <<X>>)
Hidden  == NF("Member", <<"a">>, <<>>, {"implicit"})
Hidden2 == NF("Method", <<"end">>, <<One1>>, {"implicit"})

Literal1 == {N("String", <<"x", "\"", "'", "\\", "{">>, <<>>), NF("Pattern", <<"x", "\"", "\\", "x">>, <<>>, {"i", "m"}),
             N("Number", <<"1", ".", "2">>, <<>>), N("Bool", <<"true">>, <<>>), N("Empty", <<"empty">>, <<>>),
             N("Identifier", <<"not">>, <<>>)}
Ops      == {<<"or">>, <<"and">>, <<"is">>, <<"is", "not">>, <<">=">>, <<"-">>, <<"*">>, <<"**">>}

Layout1(eol, indent, noise) ==
    [eol |-> eol, indent |-> indent, noise |-> noise, tight |-> FALSE, oneLine |-> FALSE, breaks |-> FALSE, trailing |-> FALSE,
     quote |-> "\""]
PlainLayout == Layout1(<<"\n">>, <<" ">>, <<>>)

\* Every operator and bracket around e, with x where there is another part.
Over(e) == {N("Binary", op, <<e, X>>) : op \in Ops} \cup {N("Binary", op, <<X, e>>) : op \in Ops}
           \cup {N("Unary", <<"!">>, <<e>>), N("Unary", <<"-">>, <<e>>), N("Isa", <<"isa">>, <<e, N("Name", <<"a">>, <<>>)>>),
                 N("List", <<>>, <<e, X>>), N("Map", <<>>, <<X, e, Y, X>>), N("Index", <<>>, <<e, X>>),
                 N("Slice", <<>>, <<X, e, Y>>), N("Member", <<"from">>, <<e>>), N("Call", <<"y">>, <<e, X>>),
                 N("Method", <<"a">>, <<e, X>>), N("Await", <<>>, <<N("Method", <<"a">>, <<e>>)>>),
                 N("FString", <<>>, <<N("Text", <<"x", "{", "\"", "\\">>, <<>>), e, N("Text", <<"}">>, <<>>), Y>>)}

Chains == {N("Binary", <<"-">>, <<N("Binary", <<"-">>, <<X, Y>>), N("Binary", <<"-">>, <<X, Y>>)>>),
           N("Binary", <<"**">>, <<N("Unary", <<"-">>, <<X>>), N("Binary", <<"**">>, <<X, N("Unary", <<"-">>, <<Y>>)>>)>>),
           N("List", <<>>, <<>>), N("Map", <<>>, <<>>), N("Call", <<"x">>, <<>>), N("FString", <<>>, <<>>)}

\* Maps and f-strings are not written inside an f-string: their braces and quotes would be taken for its own.  Nor is
\* the name `not` after `is`, which would be the operator `is not`.
RECURSIVE Embeddable(_)
Embeddable(e) == /\ e.k = "FString" =>
                      \A i \in DOMAIN e.kids : \A m \in Nodes(e.kids[i]) :
                          m.k # "Map" /\ (m.k = "String" => m.n = <<>>) /\ (m.k = "FString" => m = e.kids[i] /\ m.kids = <<>>)
                 /\ e.n = <<"is">> => Form(e.kids[2], PlainLayout)[1].text # <<"not">>
                 /\ \A i \in DOMAIN e.kids : Embeddable(e.kids[i])

Inner == Over(X) \cup Literal1 \cup Chains
Exprs == {e \in Inner \cup UNION {Over(e) : e \in Inner} : Embeddable(e)}

S(e)     == N("Statement", <<>>, <<e>>)
B(stmts) == N("Body", <<>>, stmts)
Nm(ch)   == N("Name", <<ch>>, <<>>)
Ty(ch)   == N("Type", <<ch>>, <<>>)
Here(on) == N("Place", <<>>, <<Nm("x")>> \o on)

Small == {S(X), N("Return", <<>>, <<>>), N("Jump", <<"stop">>, <<>>),
          N("Change", <<>>, <<N("Place", <<>>, <<N("self", <<"self">>, <<>>), Nm("y")>>), Self1>>),
          S(Hidden2), S(Super1), N("Return", <<>>, <<N("FString", <<>>, <<Self1, Hidden>>)>>),
          N("Class", <<>>, <<Nm("a")>>)}

Flat == {NF("Set", <<>>, <<Ty("number"), Nm("to"), One1>>, {"constant"}), N("Set", <<>>, <<Ty("a"), Nm("x"), X>>),
         N("Change", <<>>, <<Here(<<N("Index", <<>>, <<X>>), Nm("end")>>), Y>>), N("Global", <<>>, <<Nm("x"), Nm("add")>>),
         N("Fail", <<>>, <<X>>), N("Add", <<>>, <<X, Here(<<>>)>>), N("Remove", <<>>, <<One1, Here(<<Nm("a")>>)>>),
         S(N("Await", <<>>, <<N("Call", <<"x">>, <<>>)>>)),
         N("UseLibraries", <<>>, <<N("Library", <<"a">>, <<>>), N("Library", <<"list">>, <<>>)>>)}

Func(name, params, stmts, flags) == NF("Function", <<name>>, params \o <<B(stmts)>>, flags)
P(name)  == N("Param", <<name>>, <<>>)
PD(name, value) == NF("Param", <<name>>, <<Ty("str"), value>>, {"typed", "default"})

Around(b) == {N("If", <<>>, <<N("Branch", <<>>, <<X, B(b)>>)>>),
              N("If", <<>>, <<N("Branch", <<>>, <<X, B(<<>>)>>), N("Branch", <<>>, <<Y, B(b)>>), N("Branch", <<>>, <<B(<<S(Y)>>)>>)>>),
              N("With", <<>>, <<X, B(b)>>), N("Loop", <<"while">>, <<X, B(b)>>),
              N("Loop", <<"repeat">>, <<Nm("x"), One1, X, B(b)>>), N("Loop", <<"each">>, <<Nm("x"), Y, B(b)>>),
              NF("OrElse", <<>>, <<S(X), Nm("x"), B(b)>>, {"as"}), N("OrElse", <<>>, <<N("If", <<>>, <<N("Branch", <<>>, <<X, B(b)>>)>>), B(<<>>)>>),
              Func("a", <<P("x")>>, b, {"pure", "async"})}
Classes(b) == {NF("Class", <<>>, <<Nm("a"), Nm("x")>> \o <<Func("init", <<P("x"), PD("y", One1)>>, b, {"method", "private"}),
                                  NF("Field", <<>>, <<Ty("number"), Nm("x"), One1>>, {"private", "constant"})>>, {"extends"}),
               N("Class", <<>>, <<Nm("a"), Func("a", <<>>, b, {"method"})>>),
               N("Class", <<>>, <<Nm("a"), N("Field", <<>>, <<Ty("a"), Nm("y"), Self1>>)>>),
               N("Class", <<>>, <<Nm("a"), Func("a", <<PD("x", Self1)>>, b, {"method", "async"})>>)}

Blocks   == UNION {Around(<<s>>) \cup Classes(<<s>>) : s \in Small} \cup UNION {Around(<<s, S(Y)>>) : s \in Small}
Deep     == UNION {Around(<<s, S(X)>>) \cup Classes(<<s>>) : s \in Around(<<S(Hidden2)>>) \cup Around(<<S(Super1)>>)}
Programs == {<<s>> : s \in Flat \cup Blocks \cup Deep} \cup {<<S(X), N("Class", <<>>, <<Nm("a")>>), S(Y)>>}

(***************************************************************************)
(* Layouts.                                                                *)
(***************************************************************************)
Tight       == [PlainLayout EXCEPT !.tight = TRUE, !.oneLine = TRUE, !.quote = "'"]
Crlf        == [Layout1(<<"\r", "\n">>, <<"\t">>, <<>>) EXCEPT !.breaks = TRUE, !.trailing = TRUE]
Noisy       == [Layout1(<<" ", "note", ":", "x", "\n">>, <<" ", " ">>,
                        <<"\t", "\n", "note", ":", "\n", "x", "endnote", " ", "x", "\n">>) EXCEPT !.breaks = TRUE]

Writings == ({<<S(e)>> : e \in Exprs} \X {PlainLayout, Tight}) \cup ({<<S(e)>> : e \in Inner} \X {Crlf, Noisy})
            \cup (Programs \X {PlainLayout, Tight, Crlf, Noisy})

(***************************************************************************)
(* Texts.                                                                  *)
(***************************************************************************)
Texts(alphabet, n) == UNION {[1 .. m -> alphabet] : m \in 0 .. n}
Spread(words) == FlattenSeq([i \in DOMAIN words |-> <<words[i], " ">>])

LineTexts  == Texts({"x", " ", "\n", ":"}, 6)
                \cup {<<" ", "x", "\n", "\r", "\n", " ", "x">>, <<"BOM", "x", "\r", "\n">>, <<"x", " ", "BOM">>,
                      <<" ", "x", "\n", "\t", "x", "\n", " ", "x", "\n", "\t", "\n", "x">>}
CharTexts  == Texts({"\"", "\\", "f", "p", "{", "}", "x", "n"}, 4) \cup Texts({"note", ":", "endnote", "x", "\n"}, 5)
                \cup {<<"f", "\"", "\\", "n", "{", "x", "}", "\r", "\n", "{", "y", "}", "\"">>,
                      <<"f", "\"", "\\", "n", "{", "x", "}", "\\", "x", "{", "y", "}", "\"">>,
                      <<"f", "\"", "{", "f", "\\", "\"", "{", "x", "}", "\\", "\"", "}", "\"">>,
                      <<"p", "\"", "x", "\"", "i", "i">>, <<"1", ".", "x">>, <<">", "=", "=">>, <<"x", "|">>}
WordTexts  == {Spread(w) : w \in Texts({"x", "1", "(", ")", "[", "]", "-", "is", "not", ".", ","}, 4)
                              \cup Texts({"set", "change", "x", "to", "global", "do", ":", "end", "else", "if", "return",
                                          "await", "func", "class", "self", "\n"}, 3)}

Headers == {<<"set", "constant", "number", "x">>, <<"change", "self", "to", "x">>, <<"change", "x", "[", "x", "~">>,
            <<"change", "x", "(", "x", ")", "to", "x">>, <<"change", "x", "to", "global">>, <<"set", "x", "to", "1">>,
            <<"async", "async", "func", "x">>, <<"func", "x", "(", "x", ",", "x", ")">>,
            <<"func", "x", "(", "x", "to", "1", ",", "y", ")">>, <<"func", "x", "(", "empty", "x", ")">>,
            <<"class", "x", "do", ":", "async", "func", "init", "(", ")", "do", ":", "end", "end">>,
            <<"class", "x", "do", ":", "x", "end">>, <<"use", "x", "from", ".", "/", "x", "-", "1">>, <<"use", "x", "from", "\n">>,
            <<"use", "DLC", ":", "x", ",", "y">>, <<"use", "DLC", ":", "x", "DLC", ":", "y">>, <<"loop", "x">>,
            <<"if", "x", "do", ":", "end">>, <<"if", "x", "do", ":", "\n", "end">>, <<"x", "IS", "x">>, <<"find", "x">>,
            <<"private", "set">>, <<"f", "\"", "{", "x">>, <<"set", "returnable", "func">>, <<"remove", "x", "from", "1">>}

\* More levels than there may be: of brackets, of calls (which open no scope), of unary operators.
Towers == {Spread([i \in 1 .. 2 * n + 1 |-> IF i <= n THEN open ELSE IF i = n + 1 THEN "x" ELSE close]) :
              n \in {MaxParseDepth - 2, MaxParseDepth - 1},
              <<open, close>> \in {<<"(", ")">>, <<"[", "]">>}}
          \cup {FlattenSeq([i \in 1 .. n |-> <<"x", "(">>]) \o <<"x">> \o [i \in 1 .. n |-> ")"] : n \in {MaxParseDepth, MaxParseDepth + 1, StackLevels + 2}}
          \cup {FlattenSeq([i \in 1 .. StackLevels + 2 |-> <<"x", "[">>]) \o <<"x">> \o [i \in 1 .. StackLevels + 2 |-> "]"]}
          \cup {Spread([i \in 1 .. MaxParseDepth + 1 |-> IF i <= MaxParseDepth THEN op ELSE "x"]) : op \in {"!", "-", "await"}}

SomeTexts == LineTexts \cup CharTexts \cup WordTexts \cup Towers \cup {Spread(h) : h \in Headers}
             \cup {[i \in 1 .. MaxSource + 1 |-> "x"]}

Init == /\ taken = 0
        /\ \/ \E w \in Writings : intended = w[1] /\ layout = w[2] /\ Begin(Source(w[1], w[2]))
           \/ \E t \in SomeTexts : intended = <<>> /\ layout = PlainLayout /\ Begin(t)

Next == FrontNext /\ taken' = taken + 1 /\ UNCHANGED <<intended, layout>>
Spec == Init /\ [][Next]_mcVars

(***************************************************************************)
(* Properties.                                                             *)
(***************************************************************************)
Done   == stage \in {"parsed", "refused"}
Parsed == stage = "parsed"
Placed(stmts) == \A i \in DOMAIN stmts : WellPlaced(stmts[i], Nowhere)

\* A program written out from a tree, with the fewest parentheses its operators need and whatever its line ends,
\* line breaks, comments and quotes, is read as that tree; unless a word stands where it may not, then it is refused.
ReadsAsWritten ==
    Done /\ intended # <<>> =>
        IF Placed(intended) THEN Parsed /\ PlainAll(program) = PlainAll(intended) ELSE ~Parsed

\* What `self`, `super`, `.name` and `class` need around them is there in every program that is accepted, also inside
\* defaults, handlers and f-strings, and a name is marked as standing in a with block exactly when it does.
RECURSIVE MarksRight(_, _)
MarksRight(node, with) ==
    /\ node.k \in {"Identifier", "Call"} => ("inWith" \in node.flags <=> with)
    /\ \A i \in DOMAIN node.kids :
          MarksRight(node.kids[i], CASE node.k \in {"Function", "Field"} -> FALSE
                                     [] node.k = "With" /\ i = 2 -> TRUE
                                     [] OTHER -> with)
ScopesRespected == Placed(program) /\ \A i \in DOMAIN program : MarksRight(program[i], FALSE)

\* Every name of the tree is where the source has it, also in the braces of an f-string, whose value is not its text;
\* a name that cannot be located is placed at the f-string it is in.
NamesWhereWritten ==
    \A i \in DOMAIN program : \A node \in Nodes(program[i]) :
        node.k \in {"Identifier", "Call"} =>
            \/ SubSeq(scan.src, node.at, node.at + Len(node.n) - 1) = node.n
            \/ scan.src[node.at] = "f" /\ scan.src[node.at + 1] \in {"\"", "\\"}
               /\ \E k \in node.at .. Len(scan.src) : scan.src[k] \in {"\r", "\\"}

\* "Blank lines are allowed and ignored" (Tokenizer.h): the tokens are those of the text without them.
SameWithout(blanks) ==
    LET other == ScanAll(Scanner(WithoutBlankLines(scan.src, blanks)))
    IN  stage = "scanning" /\ scan.state = "done" /\ "\"" \notin ToSet(scan.src) /\ "note" \notin ToSet(scan.src) =>
            other.state = "done" /\ Seen(other.tokens) = Seen(scan.tokens)
BlankLinesIgnored    == "\r" \notin ToSet(scan.src) => SameWithout({" ", "\t"})
\* The same with the line ends of Windows: "Lines end with LF or CRLF", "Blank lines are ignored" (language.md).
CrlfBlankLinesIgnored == SameWithout({" ", "\t", "\r"})

\* No program is accepted that nests deeper than the stack lets the parser go, through calls and indexes either.
NestingBounded == Parsed => \A i \in DOMAIN program : Nesting(program[i]) <= StackLevels
\* Every text is read to its end or refused in a number of steps proportional to its length; no character makes the
\* tokenizer, and no token the parser, turn in place.
WorkBounded == taken <= 4 * Len(scan.src) + 6
=============================================================================
