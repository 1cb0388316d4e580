----------------------------- MODULE RegexParser -----------------------------
(***************************************************************************)
(* The recursive-descent parser of patterns.  A pattern is a sequence of   *)
(* characters in which the name of a class, of a preset or of a capture    *)
(* counts as one.  p is the place of the next character, next the next     *)
(* group index and nest the number of groups that are open.  A parse ends  *)
(* with a node and the place after it, or with the error that is thrown.   *)
(***************************************************************************)
EXTENDS RegexChars

CONSTANTS MaxNesting,      \* kMaxRegexNesting
          MaxQuantifier    \* kMaxRegexQuantifier

ASSUME RegexLimits == MaxNesting \in Nat \ {0} /\ MaxQuantifier \in Nat \ {0}

Parsed(node, p, next) == [ok |-> TRUE, node |-> node, p |-> p, next |-> next]
Fail(error)           == [ok |-> FALSE, error |-> error]

\* What follows a parse that ends with a node; an error is thrown past it.
Then(parse, Next(_)) == IF parse.ok THEN Next(parse) ELSE parse

Digits    == [c \in Num |-> CHOOSE n \in 0 .. 3 : <<"0", "1", "2", "3">>[n + 1] = c]
Escapable == {"[", "]", "(", ")", "{", "}", "<", ">", "+", "*", "?", "~", "|", ".", "\\", ":", "!"}

Is(pat, p, set) == p <= Len(pat) /\ pat[p] \in set

ClassNames ==
    [num |-> Num, let |-> Let, low |-> Low, up |-> Up, str |-> Str, word |-> Word, sp |-> Sp,
     nl |-> Nl, hex |-> Hex]
MarkNames   == [edge |-> "WordBoundary", start |-> "StartAnchor", end |-> "EndAnchor"]
PresetNames == {"int", "float", "email", "phone", "url"}

\* The digits from p on, read as one number.
Number(value, end) == IF value > MaxQuantifier THEN Fail("RegexInvalidQuantifierRange") ELSE Parsed(value, end, 0)

ReadNumber(pat, p) ==
    LET end == CHOOSE e \in p .. Len(pat) + 1 : (\A i \in p .. e - 1 : pat[i] \in Num) /\ ~Is(pat, e, Num)
    IN  Number(FoldLeft(LAMBDA sum, d : 10 * sum + Digits[d], 0, SubSeq(pat, p, end - 1)), end)

(***************************************************************************)
(* Brackets.                                                               *)
(***************************************************************************)
RECURSIVE LiteralSet(_, _)
LiteralSet(body, chars) ==
    IF body = <<>> THEN Parsed(chars, 0, 0)
    ELSE IF Len(body) > 2 /\ body[2] = "-"
         THEN IF Rank(body[1]) > Rank(body[3]) THEN Fail("RegexInvalidQuantifierRange")
              ELSE LiteralSet(SubSeq(body, 4, Len(body)),
                              chars \cup {Order[i] : i \in Rank(body[1]) .. Rank(body[3])})
         ELSE LiteralSet(Tail(body), chars \cup {body[1]})

Alternatives(rest) ==
    LET ends == {i \in 1 .. Len(rest) + 1 : i > Len(rest) \/ rest[i] = "|"}
        from(e) == CHOOSE i \in {0} \cup ends : i < e /\ \A j \in ends : j < e => j <= i
    IN  [n \in 1 .. Cardinality(ends) |->
           LET e == CHOOSE e \in ends : Cardinality({f \in ends : f < e}) = n - 1
           IN  SubSeq(rest, from(e) + 1, e - 1)]

NoneEmpty(alternatives) ==
    IF <<>> \in ToSet(alternatives) THEN Fail("RegexEmptyToken") ELSE Parsed(OneOf(alternatives), 0, 0)

ParseOneOf(body, colon) ==
    IF colon > 1 /\ body[colon - 1] \in Sp THEN Fail("RegexInvalidColonSpacing")
    ELSE NoneEmpty(Alternatives(SubSeq(body, colon + 1, Len(body))))

\* The ':' of a body that is "one" up to it.
OneOfColon(body) ==
    {i \in DOMAIN body : body[i] = ":" /\ body[1] = "one" /\ \A j \in 2 .. i - 1 : body[j] \in Sp}

SetChars(body) ==
    IF body = <<>> THEN Fail("RegexEmptyToken")
    ELSE IF Len(body) = 1 /\ body[1] \in DOMAIN ClassNames THEN Parsed(ClassNames[body[1]], 0, 0)
    ELSE LiteralSet(body, {})

ParseSet(body) ==
    IF body[1] = "!"
    THEN Then(SetChars(Tail(body)), LAMBDA chars : Parsed(CharTest(Bytes \ chars.node, TRUE), 0, 0))
    ELSE Then(SetChars(body), LAMBDA chars : Parsed(CharTest(chars.node, FALSE), 0, 0))

BracketNode(body) ==
    IF body = <<>> THEN Fail("RegexEmptyToken")
    ELSE IF Len(body) = 1 /\ body[1] = "any" THEN Parsed(AnyChar, 0, 0)
    ELSE IF Len(body) = 1 /\ body[1] \in DOMAIN MarkNames THEN Parsed(Mark(MarkNames[body[1]]), 0, 0)
    ELSE IF Len(body) = 1 /\ body[1] \in PresetNames THEN Parsed(Preset(body[1]), 0, 0)
    ELSE IF OneOfColon(body) # {} THEN ParseOneOf(body, CHOOSE i \in OneOfColon(body) : TRUE)
    ELSE ParseSet(body)

\* A bracket ends at the first ']' whatever is inside; `length` is how far away that is.
ParseBracket(pat, p, next) ==
    LET length == SelectInSeq(SubSeq(pat, p + 1, Len(pat)), LAMBDA c : c = "]")
    IN  IF length = 0 THEN Fail("RegexUnclosedBracket")
        ELSE Then(BracketNode(SubSeq(pat, p + 1, p + length - 1)),
                  LAMBDA inside : Parsed(inside.node, p + length + 1, next))

(***************************************************************************)
(* Quantifiers.                                                            *)
(***************************************************************************)
TakesRepeatCount(atom) ==
    /\ atom.kind \notin {"WordBoundary", "StartAnchor", "EndAnchor"}
    /\ ~(atom.kind = "CharTest" /\ atom.literal)

Counts(lo, hi, p, seen) == [ok |-> TRUE, min |-> lo, max |-> hi, p |-> p, seen |-> seen]

\* What follows a first count: nothing, an open range or its second count (-1 is no limit).
AfterCount(pat, n1) ==
    IF ~Is(pat, n1.p, {"~"}) THEN Counts(n1.node, n1.node, n1.p, TRUE)
    ELSE IF ~Is(pat, n1.p + 1, Num) THEN Counts(n1.node, -1, n1.p + 1, TRUE)
    ELSE Then(ReadNumber(pat, n1.p + 1),
              LAMBDA n2 : IF n1.node > n2.node THEN Fail("RegexInvalidQuantifierRange")
                          ELSE Counts(n1.node, n2.node, n2.p, TRUE))

ReadCounts(pat, p, atom) ==
    CASE Is(pat, p, {"+"}) -> Counts(1, -1, p + 1, TRUE)
      [] Is(pat, p, {"*"}) -> Counts(0, -1, p + 1, TRUE)
      [] Is(pat, p, {"?"}) -> Counts(0, 1, p + 1, TRUE)
      [] Is(pat, p, {"~"}) ->
            IF ~Is(pat, p + 1, Num) THEN Fail("RegexDanglingQuantifier")
            ELSE Then(ReadNumber(pat, p + 1), LAMBDA n : Counts(0, n.node, n.p, TRUE))
      [] Is(pat, p, Num) /\ TakesRepeatCount(atom) ->
            Then(ReadNumber(pat, p), LAMBDA n : AfterCount(pat, n))
      [] OTHER -> Counts(1, 1, p, FALSE)

\* A '?' after the counts makes them lazy; another quantifier may not follow.
WithCounts(pat, atom, counts, next) ==
    LET lazy  == counts.seen /\ Is(pat, counts.p, {"?"})
        after == IF lazy THEN counts.p + 1 ELSE counts.p
    IN  IF counts.seen /\ (Is(pat, after, {"+", "*", "~"}) \/ (lazy /\ Is(pat, after, {"?"})))
        THEN Fail("RegexStackedQuantifier")
        ELSE Parsed(Quantified(atom, counts.min, counts.max, lazy), after, next)

ApplyQuantifier(pat, atom) ==
    Then(ReadCounts(pat, atom.p, atom.node), LAMBDA counts : WithCounts(pat, atom.node, counts, atom.next))

(***************************************************************************)
(* Sequences, groups and atoms.                                            *)
(***************************************************************************)
RECURSIVE ParseSequence(_, _, _, _, _, _)

\* What is between an opener and its closer; the scope of the nesting count.
ParseInner(pat, p, next, nest, closer) ==
    IF nest + 1 > MaxNesting THEN Fail("RegexPatternTooComplex")
    ELSE Then(ParseSequence(pat, p, next, nest + 1, {closer}, <<>>),
              LAMBDA inner : IF inner.p > Len(pat) THEN Fail("RegexUnclosedGroup") ELSE inner)

\* A mutant: a group is numbered when it closes.
NumberAtClose(pat, p, next, nest) ==
    Then(ParseInner(pat, p + 1, next, nest, ")"),
         LAMBDA inner : Parsed(Group(inner.next, inner.node), inner.p + 1, inner.next + 1))

ParseGroup(pat, p, next, nest) ==
    Then(ParseInner(pat, p + 1, next + 1, nest, ")"),
         LAMBDA inner : Parsed(Group(next, inner.node), inner.p + 1, inner.next))

ParseNamed(pat, p, next, nest) ==
    LET end  == CHOOSE e \in p + 1 .. Len(pat) + 1 : /\ \A i \in p + 1 .. e - 1 : pat[i] \notin {":", ">"}
                                                     /\ e > Len(pat) \/ pat[e] \in {":", ">"}
    IN  IF end = p + 1 THEN Fail("RegexEmptyToken")
        ELSE IF ~Is(pat, end, {":"}) THEN Fail("RegexUnclosedGroup")
        ELSE IF pat[end - 1] \in Sp THEN Fail("RegexInvalidColonSpacing")
        ELSE Then(ParseInner(pat, end + 1, next, nest, ">"),
                  LAMBDA inner : Parsed(NamedGroup(SubSeq(pat, p + 1, end - 1), inner.node), inner.p + 1, inner.next))

ParseEscape(pat, p, next) ==
    IF p < Len(pat) /\ pat[p + 1] \in Escapable THEN Parsed(Literal(pat[p + 1]), p + 2, next)
    ELSE Fail("RegexInvalidEscape")

ParseLiteral(pat, p, next) ==
    IF pat[p] \in Lead
    THEN LET end == IF p < Len(pat) THEN p + 1 ELSE p
         IN  Parsed(WideLiteral(SubSeq(pat, p, end)), end + 1, next)
    ELSE Parsed(Literal(pat[p]), p + 1, next)

ParsePrimary(pat, p, next, nest) ==
    CASE pat[p] = "("  -> ParseGroup(pat, p, next, nest)
      [] pat[p] = "<"  -> ParseNamed(pat, p, next, nest)
      [] pat[p] = "["  -> ParseBracket(pat, p, next)
      [] pat[p] = "\\" -> ParseEscape(pat, p, next)
      [] pat[p] \in {")", ">", "]"} -> Fail("RegexUnexpectedCharacter")
      [] OTHER -> ParseLiteral(pat, p, next)

ParseAtom(pat, p, next, nest) == Then(ParsePrimary(pat, p, next, nest), LAMBDA atom : ApplyQuantifier(pat, atom))

\* The atoms up to a character of `stop` or the end.
ParseSequence(pat, p, next, nest, stop, nodes) ==
    IF p > Len(pat) \/ Is(pat, p, stop) THEN Parsed(Seq1(nodes), p, next)
    ELSE Then(ParseAtom(pat, p, next, nest),
              LAMBDA atom : ParseSequence(pat, atom.p, atom.next, nest, stop, Append(nodes, atom.node)))

\* A whole pattern: its tree and how many groups it has.
Parse(pat) ==
    Then(ParseSequence(pat, 1, 1, 0, {}, <<>>),
         LAMBDA root : [ok |-> TRUE, root |-> root.node, groups |-> root.next - 1])
=============================================================================
