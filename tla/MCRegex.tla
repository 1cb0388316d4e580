------------------------------- MODULE MCRegex -------------------------------
(***************************************************************************)
(* Two questions about patterns, one per kind of initial state: what the   *)
(* parser makes of the pattern alone (part "reading"), and what the text   *)
(* functions answer with it (part "matching").                             *)
(***************************************************************************)
EXTENDS RegexEngine, RegexSemantics

VARIABLES part,
          intended     \* the tree the pattern was written out from, if any

mcVars == <<vars, part, intended>>

(***************************************************************************)
(* Patterns to read: all short strings over the characters that structure  *)
(* a pattern, and all small trees, written out.                            *)
(***************************************************************************)
Alphabet == {"(", ")", "<", ":", ">", "[", "]", "!", "a", "2", "~", "?", "+", "\\"}
Strings(n) == UNION {[1 .. m -> Alphabet] : m \in 0 .. n}

\* Brackets, counts and nesting that need more characters than that.
LongStrings ==
    {<<"[", "a", "-", "c", "]">>, <<"[", "c", "-", "a", "]">>, <<"[", "!", "a", "-", "]">>,
     <<"[", "one", ":", "a", "|", "b", "c", "]">>, <<"[", "one", " ", ":", "a", "]">>,
     <<"[", "one", ":", "]">>, <<"[", "one", ":", "a", "|", "]">>, <<"[", "!", "num", "]">>,
     <<"[", "num", "]", "2", "~", "3">>, <<"[", "num", "]", "3", "~", "2">>,
     <<"[", "num", "]", "3", "3">>, <<"[", "num", "]", "2", "~", "?">>, <<"[", "num", "]", "2", "~", "~">>,
     <<"<", "o", " ", ":", "a", ">">>, <<"(", "(", "(", "a", ")", ")", ")">>, <<"(", "<", "o", ":", "(">>,
     <<"(", "a", ")", "(", "(", "b", ")", "+", ")">>, <<"C3", "A9", "+">>, <<"[", "start", "]", "2">>,
     [i \in 1 .. MaxPattern + 1 |-> "a"]}

Leaves == {Literal("a"), Literal("2"), Literal("+"), CharTest(Num, FALSE), CharTest(Bytes \ Sp, TRUE),
           Mark("StartAnchor"), OneOf(<<<<"a">>, <<"b", "a">>>>), Preset("int")}
CountsOf == {<<1, 1>>, <<1, -1>>, <<0, -1>>, <<0, 1>>, <<2, 2>>, <<0, 2>>, <<1, 2>>, <<2, -1>>}

Counted(atoms) ==
    {Quantified(atom, c[1], c[2], lazy) :
        <<atom, c, lazy>> \in {<<a, c, l>> \in atoms \X CountsOf \X BOOLEAN :
            /\ l => c # <<1, 1>>
            /\ TakesRepeatCount(a) \/ c \in {<<1, 1>>, <<1, -1>>, <<0, -1>>, <<0, 1>>, <<0, 2>>}}}

\* Digits that follow an atom are its count: they cannot be written as text after one that takes a count.
TakesDigits(q) == \/ q.min = 1 /\ q.max = 1 /\ TakesRepeatCount(q.child)
                  \/ ~q.lazy /\ ~(q.min = 1 /\ q.max = 1) /\ <<q.min, q.max>> \notin {<<1, -1>>, <<0, -1>>, <<0, 1>>}
Writable(nodes) ==
    \A i \in 1 .. Len(nodes) - 1 : nodes[i + 1].child = Literal("2") => ~TakesDigits(nodes[i])

Singles == {Seq1(<<q>>) : q \in Counted(Leaves)} \cup {Seq1(<<>>)}
Pairs   == {Seq1(nodes) : nodes \in {n \in Counted(Leaves) \X Counted(Leaves) : Writable(n)}}
Grouped == LET inner == Counted({Group(2, single) : single \in Singles}
                                  \cup {NamedGroup(<<"o">>, single) : single \in Singles})
           IN  {Seq1(<<Quantified(Group(1, Seq1(<<q>>)), 1, 1, FALSE)>>) : q \in inner}
Trees   == Singles \cup Pairs \cup Grouped

(***************************************************************************)
(* Texts and patterns to match.                                            *)
(***************************************************************************)
Wide == <<"C3", "A9">>
Short == {<<>>, <<"a">>, <<"a", "a">>, <<"a", "b">>, <<"b", "a">>, <<"a", "A">>, <<"a", "b", "a">>, <<"a", "a", "a">>,
          <<"a", "\n", "b">>, Wide, <<"a">> \o Wide, Wide \o <<"a">>}

Ab    == UNION {[1 .. n -> {"a", "b"}] : n \in 2 .. 3}

MatchPatterns ==
    {<<>>, <<"a", "*">>, <<"(", "a", "+", "?", ")", "b", "?">>, <<"(", "a", "*", ")", "+">>,
     <<"(", "a", "?", "?", ")", "2">>, <<"(", "(", "a", ")", "|", ")", "*">>,
     <<"(", "(", "a", ")", "?", "(", "b", ")", "?", ")", "+">>,
     <<"<", "o", ":", "a", "+", ">", "a">>, <<"(", "<", "o", ":", "a", ">", "?", "b", "?", ")", "~", "2">>,
     <<"[", "one", ":", "a", "|", "a", "b", "]", "a", "?">>, <<"[", "any", "]", "+", "?", "a">>,
     <<"[", "!", "a", "]">>, <<"C3", "A9", "?">>, <<"[", "edge", "]">>,
     <<"[", "start", "]", "[", "any", "]">>, <<"[", "any", "]", "[", "end", "]">>, <<"[", "let", "]", "1", "~", "2">>,
     <<"(", "[", "start", "]", ")", "3">>, <<"[", "c", "-", "a", "]">>}

\* A repeated element inside a repeated capture, and what follows it.
Nested ==
    LET few(atom) == {Quantified(atom, c[1], c[2], c[3]) :
                        c \in {<<0, -1, FALSE>>, <<1, -1, TRUE>>, <<0, 1, TRUE>>, <<0, 2, FALSE>>}}
        inner == {Seq1(<<q>>) : q \in few(Literal("a"))}
                    \cup {Seq1(<<q, Quantified(Literal("b"), 0, 1, FALSE)>>) : q \in few(Literal("a"))}
    IN  {ShownAll(<<q, last>>) : q \in UNION {few(Group(1, i)) \cup few(NamedGroup(<<"o">>, i)) : i \in inner},
                                 last \in {Quantified(Literal("a"), 1, 1, FALSE), Quantified(Literal("b"), 0, 1, TRUE)}}

PresetCases ==
    {<< <<"[", "int", "]", "2", "3", "?">>, <<"+", "1", "2", "3">> >>,
     << <<"[", "int", "]", "[", "num", "]">>, <<"1", "2", "3">> >>,
     << <<"[", "float", "]">>, <<"1", "-", "2", ".", "3">> >>,
     << <<"[", "email", "]">>, <<"a", "@", "b", ".", "c", "o", "m", ".">> >>,
     << <<"[", "email", "]", "t">>, <<"a", "@", "b", ".", "c", "o", "t">> >>,
     << <<"[", "url", "]">>, <<"h", "t", "t", "p", ":", "/", "/", "a">> >>,
     << <<"[", "phone", "]">>,
        <<"0", "2", "-", "1", "2", "3", "-", "1", "2", "3", "0">> >>}

Fns == {"matches", "find", "find_all", "replace", "replace_all", "split", "count"}

Call(fn, pattern, text, ci, multiline, built) ==
    [fn |-> fn, pattern |-> pattern, text |-> text, ci |-> ci, multiline |-> multiline,
     with |-> <<"-">>, built |-> built]

Calls == {Call(fn, p, t, FALSE, FALSE, FALSE) : fn \in Fns, p \in MatchPatterns, t \in Short}
         \cup {Call(fn, p, t, TRUE, TRUE, TRUE) : fn \in {"matches", "find_all", "replace_all", "split"}, p \in MatchPatterns,
                                                t \in {t \in Short : \E i \in DOMAIN t : t[i] \in {"A", "\n"}}}
         \cup {Call(fn, p, t, FALSE, FALSE, FALSE) : fn \in {"matches", "find"}, p \in Nested, t \in Ab}
         \cup {Call(fn, c[1], c[2], FALSE, FALSE, FALSE) : fn \in {"matches", "find_all"}, c \in PresetCases}

Caches == {<<>>, <<"a">> :> Parse(<<"a">>), [p \in {<<"a">>, <<"a", "*">>} |-> Parse(p)]}

Read(p) == Idle(Call("pattern", p, <<>>, FALSE, FALSE, FALSE), <<>>)

Init ==
    \/ /\ part = "reading" /\ intended = <<>>
       /\ \E p \in Strings(4) \cup LongStrings : Read(p)
    \/ /\ part = "reading"
       /\ \E t \in Trees : Read(Shown(t)) /\ intended = <<t>>
    \/ /\ part = "matching" /\ intended = <<>>
       /\ \E call \in Calls, known \in Caches : (call.built \/ known = <<>>) /\ Idle(call, known)

Next == /\ part = "matching" \/ at.mode = "idle"
        /\ EngineNext /\ UNCHANGED <<part, intended>>

\* Parsing is one call; from there on the operation runs until it returns or throws.
Spec == Init /\ [][Next]_mcVars /\ WF_mcVars(at.mode # "idle" /\ Next)

Accepted == at.mode \notin {"idle", "thrown"}
Answered == at.mode = "answered"

\* A pattern written out from a tree is read back as that tree, its groups numbered by their openers; whatever
\* else the parser accepts means the same when the tree it gave is written out and read again.
ReadsBack ==
    part = "reading" /\ at.mode # "idle" =>
        /\ intended # <<>> => Accepted /\ matcher.root = intended[1]
        /\ Accepted => Parse(Shown(matcher.root)) = [ok |-> TRUE, root |-> matcher.root, groups |-> matcher.groups]

Subject == [text |-> op.text, ci |-> op.ci, multiline |-> op.multiline]

\* What a whole-text match, one search or all the matches of the text should be.
Matches(c) ==
    CASE op.fn = "matches" -> Preferred(Subject, 0, WaysAt(Subject, c.root, c.groups, 0, TRUE))
      [] op.fn \in OneSearch \cup {"replace"} -> FirstMatch(Subject, c, 0)
      [] OTHER -> AllMatches(Subject, c, 0)

Empty(m)    == m.from = m.to
NonEmpty(m) == ~Empty(m)

\* Calls in which the code does not do what the documentation says: split drops the flags of its pattern, and the
\* search for all matches goes on in the middle of a wide character after an empty match before it (CharactersWhole).
DropsFlags           == op.fn = "split" /\ (op.ci \/ op.multiline)
SplitsCharacter(all) == /\ op.fn \notin OneSearch \cup {"replace"}
                        /\ \E i \in DOMAIN all : Empty(all[i]) /\ InsideCharacter(Subject, all[i].to + 1)

\* The matcher backtracks over one set of captures that it changes and restores; when it answers, the matches and
\* their captures are those of the preferred way through the pattern at the leftmost place, and after an empty match
\* those from the next character on: in every call but those two kinds.
MatchesAsMeant ==
    Answered /\ ~DropsFlags =>
        LET meant == Matches(Parse(op.pattern)) IN SplitsCharacter(meant) \/ found = meant

\* replace and replace_all change nothing of the text outside the matches meant, also around empty ones, and split
\* gives the text outside the matches it found, none of it lost or twice.
TextKept ==
    /\ Answered /\ op.fn \in Replacing =>
          LET meant == Matches(Parse(op.pattern))
          IN  SplitsCharacter(meant) \/ result = Rewritten(Subject, meant, op.with)
    /\ Answered /\ op.fn = "split" => pieces = Outside(Subject, SelectSeq(found, NonEmpty))

\* An attempt stays within its budget of steps and depth, and gives a level of depth back for each it took: what
\* is counted is the guards that are still held.
BudgetKept ==
    /\ steps <= StepLimit /\ depth <= DepthLimit
    /\ depth = Len(SelectSeq(frames, LAMBDA f : f.frame = "guard"))

\* "a match never starts inside a UTF-8 sequence" (RegexMatcher.h:66): one character is never split between a match
\* and what stands before it.
CharactersWhole == \A i \in DOMAIN found : ~InsideCharacter(Subject, found[i].from)

\* Every operation whose pattern is compiled ends, with an answer or an error, whatever empty matches it meets.
OperationEnds == part = "matching" /\ at.mode = "ready" ~> at.mode \in {"answered", "thrown"}
=============================================================================
