--------------------------- MODULE ExpressionParser ---------------------------
(***************************************************************************)
(* Recursive descent over the tokens of a program: what every rule shares, *)
(* and the rules of expressions.  A rule reads from place p in a context c *)
(* and ends with the nodes it made and the place after them, or with the   *)
(* error that is thrown.  The context holds the tokens, the source they    *)
(* came from (none inside an f-string), what surrounds the place and the   *)
(* levels that are open; leaving a rule, also by an error, gives its level *)
(* back.                                                                   *)
(***************************************************************************)
EXTENDS Tokenizer

CONSTANTS MaxParseDepth,   \* kMaxParseDepth
          StackLevels      \* how many calls deep the native stack lets the parser go (ParseStackFloorScope)

ASSUME ParseLimits == MaxParseDepth \in Nat \ {0} /\ StackLevels \in Nat \ {0}

Got(kids, p) == [ok |-> TRUE, kids |-> kids, p |-> p]
Fail(error)  == [ok |-> FALSE, error |-> error]

\* Every node of the tree: its kind, its name or value, what is below it, its marks and where it was written.
Node(kind, name, kids, flags, at) == [k |-> kind, n |-> name, kids |-> kids, flags |-> flags, at |-> at]

Context(tokens, src) == [toks |-> tokens, src |-> src, block |-> 0, method |-> FALSE, parent |-> FALSE, with |-> 0,
                         depth |-> 0, stack |-> 0]

Tok(c, p)     == c.toks[p]
T(c, p)       == c.toks[p].t
Peek(c, p, k) == c.toks[IF p + k <= Len(c.toks) THEN p + k ELSE Len(c.toks)]

BareWords       == {"add", "to", "in", "global", "not", "from"}
NameToken(tok)  == tok.t \in {"IDENTIFIER"} \cup BareWords
WordLike(tok)   == tok.t \in {"IDENTIFIER"} \cup Keywords
StatementEnd    == {"NEWLINE", "EOF", "end", "else", "DEDENT", "or_else"}
Literals        == {"STRING", "FSTRING", "NUMBER", "PATTERN"}

Layout == {"NEWLINE", "INDENT", "DEDENT"}
After(c, p, set) == CHOOSE q \in p .. Len(c.toks) : /\ \A k \in p .. q - 1 : T(c, k) \in set
                                                    /\ T(c, q) \notin set
SkipNewlines(c, p) == After(c, p, Layout)

\* A mutant: only the scopes are counted, not the native stack below them.
CountScopesOnly(c) == c.depth >= MaxParseDepth

TooDeep(c) == c.depth >= MaxParseDepth \/ c.stack >= StackLevels
Deeper(c)  == [c EXCEPT !.depth = @ + 1, !.stack = @ + 1]
\* A call deeper that opens no scope of its own.
Below(c)   == [c EXCEPT !.stack = @ + 1]

\* What follows a rule that found what it reads; an error ends every rule around it.
Then(rest, Next(_))  == IF rest.ok THEN Next(rest) ELSE rest
Prepend(kids, rest)  == IF rest.ok THEN Got(kids \o rest.kids, rest.p) ELSE rest
Consume(c, p, type)  == IF T(c, p) = type THEN Got(<<>>, p + 1) ELSE Fail("UnexpectedToken")
Leaf(c, p, kind)     == Got(<<Node(kind, Tok(c, p).v, <<>>, Tok(c, p).flags, Tok(c, p).at)>>, p + 1)
Name(c, p)           == IF NameToken(Tok(c, p)) THEN Leaf(c, p, "Name") ELSE Fail("UnexpectedToken")
MemberName(c, p)     == IF WordLike(Tok(c, p)) THEN Leaf(c, p, "Name") ELSE Fail("UnexpectedToken")

\* The node of a kind over the nodes of a rule.
Made(kind, name, rest, flags, at) ==
    IF rest.ok THEN Got(<<Node(kind, name, rest.kids, flags, at)>>, rest.p) ELSE rest

InWith(c) == IF c.with > 0 THEN {"inWith"} ELSE {}

RECURSIVE Level(_, _, _)

(***************************************************************************)
(* Operators, from the loosest to the tightest; each level groups to the   *)
(* left, except that ** groups to the right.                               *)
(***************************************************************************)
Comparisons == {"is", "matches", ">=", "<=", ">", "<", "isa"}
Levels      == << {"or"}, {"and"}, {"!"}, Comparisons, {"+", "-"}, {"*", "/", "%"} >>
NotLevel    == 3
CompareLevel == 4
UnaryLevel   == 7
PostfixLevel == 8

Expression(c, p)  == Level(c, p, 1)
Unary(c, p)       == Level(c, p, UnaryLevel)
PostfixExpr(c, p) == Level(c, p, PostfixLevel)

\* A mutant: a minus takes the base of a power before the power does.
MinusFirst(c, p) ==
    IF TooDeep(c) THEN Fail("NestingTooDeep")
    ELSE Made("Unary", <<"-">>, PostfixExpr(Deeper(c), p + 1), {}, Tok(c, p).at)

Negation(c, p) ==
    IF TooDeep(c) THEN Fail("NestingTooDeep")
    ELSE Made("Unary", <<"-">>, Unary(Deeper(c), p + 1), {}, Tok(c, p).at)

Power(c, base) ==
    IF TooDeep(c) THEN Fail("NestingTooDeep")
    ELSE Made("Binary", <<"**">>, Prepend(base.kids, Unary(Deeper(c), base.p + 1)), {}, Tok(c, base.p).at)

Signed(c, p) ==
    IF T(c, p) = "-" THEN Negation(c, p)
    ELSE Then(PostfixExpr(c, p), LAMBDA base : IF T(c, base.p) = "**" THEN Power(c, base) ELSE base)

Not(c, p) ==
    IF TooDeep(c) THEN Fail("NestingTooDeep")
    ELSE Made("Unary", <<"!">>, Level(Deeper(c), p + 1, NotLevel), {}, Tok(c, p).at)

\* One operator and its right side, on top of what is to its left.
Operation(c, left, n) ==
    LET op    == T(c, left.p)
        isNot == op = "is" /\ T(c, left.p + 1) = "not"
        right == IF op = "isa" THEN Name(c, left.p + 1)
                 ELSE Level(c, IF isNot THEN left.p + 2 ELSE left.p + 1, n + 1)
    IN  Made(IF op = "isa" THEN "Isa" ELSE "Binary", IF isNot THEN <<"is", "not">> ELSE <<op>>,
             Prepend(left.kids, right), {}, Tok(c, left.p).at)

RECURSIVE LevelRest(_, _, _)
LevelRest(c, left, n) ==
    IF T(c, left.p) \in Levels[n] THEN Then(Operation(c, left, n), LAMBDA more : LevelRest(c, more, n))
    ELSE IF n = CompareLevel /\ T(c, left.p) = "IDENTIFIER" /\ Tok(c, left.p).v = <<"IS">> THEN Fail("UnexpectedToken")
    ELSE left

(***************************************************************************)
(* What is in brackets.                                                    *)
(***************************************************************************)
RECURSIVE Series(_, _, _)

\* One element, and for a map the value behind its key.
Element(c, p, close) ==
    Then(Expression(c, p),
         LAMBDA key : IF close # "}" THEN key
                      ELSE Then(Consume(c, key.p, ":"),
                                LAMBDA colon : Prepend(key.kids, Expression(c, SkipNewlines(c, colon.p)))))

AfterElement(c, one, after, close) ==
    LET next == SkipNewlines(c, after + 1)
    IN  IF T(c, after) # "," THEN Prepend(one.kids, Consume(c, SkipNewlines(c, after), close))
        ELSE IF close # ")" /\ T(c, next) = close THEN Got(one.kids, next + 1)
        ELSE Prepend(one.kids, Series(c, next, close))

\* The elements up to the closing token.  Lists and maps may end with a comma and break before one; calls not.
Series(c, p, close) ==
    Then(Element(c, p, close),
         LAMBDA one : AfterElement(c, one, IF close = ")" THEN one.p ELSE SkipNewlines(c, one.p), close))

Enclosed(c, p, close) ==
    LET first == SkipNewlines(c, p)
    IN  IF T(c, first) = close THEN Got(<<>>, first + 1) ELSE Series(c, first, close)

Args(c, p) == IF T(c, p) = "(" THEN Enclosed(Below(c), p + 1, ")") ELSE Fail("UnexpectedToken")

Subscript(c, base) ==
    Then(Expression(Below(c), base.p + 1),
         LAMBDA first :
            IF T(c, first.p) # "~"
            THEN Made("Index", <<>>, Prepend(base.kids \o first.kids, Consume(c, first.p, "]")), {}, Tok(c, base.p).at)
            ELSE Then(Expression(Below(c), first.p + 1),
                      LAMBDA last : Made("Slice", <<>>, Prepend(base.kids \o first.kids \o last.kids, Consume(c, last.p, "]")),
                                         {}, Tok(c, base.p).at)))

\* A name is called as a function, a member as a method of its target.
CallOf(c, callee, args) ==
    IF callee.k = "Identifier" THEN Made("Call", callee.n, args, callee.flags, callee.at)
    ELSE Made("Method", callee.n, Prepend(callee.kids, args), callee.flags, callee.at)

Call(c, base) ==
    IF base.kids[1].k \in {"Identifier", "Member"} THEN CallOf(c, base.kids[1], Args(c, base.p)) ELSE Fail("UnexpectedToken")

Member(c, base) ==
    Then(MemberName(c, base.p + 1),
         LAMBDA name : Made("Member", name.kids[1].n, Got(base.kids, name.p), {}, name.kids[1].at))

PostfixStep(c, base) ==
    CASE T(c, base.p) = "[" -> Subscript(c, base)
      [] T(c, base.p) = "(" -> Call(c, base)
      [] T(c, base.p) = "." -> Member(c, base)

RECURSIVE Postfix(_, _)
Postfix(c, base) ==
    IF T(c, base.p) \notin {"[", "(", "."} THEN base
    ELSE Then(PostfixStep(c, base), LAMBDA longer : Postfix(c, longer))

Await(c, p) ==
    Then(PostfixExpr(c, p + 1),
         LAMBDA call : IF call.kids[1].k \notin {"Call", "Method", "Super"} THEN Fail("Syntax")
                       ELSE Made("Await", <<>>, call, {}, Tok(c, p).at))

(***************************************************************************)
(* F-strings.  The text in braces is scanned and parsed on its own, in the *)
(* context of the literal; its tokens carry the places they have in the    *)
(* source as far as the literal can be decoded a second time.              *)
(***************************************************************************)
Decoded(src, i, escaped) ==
    IF i \in escaped THEN Unescaped(src[i]) ELSE IF src[i] = "\\" THEN <<>> ELSE <<src[i]>>

\* Where each character of an f-string's value was written, and where the text after it goes on; empty if not known.
Offsets(src, at, value) ==
    LET start   == at + 2
        escaped == Escaped(src, start)
        decode(done, i) ==
            LET piece == Decoded(src, i, escaped)
            IN  IF Len(done.text) >= Len(value) \/ piece = <<>> THEN done
                ELSE [text |-> done.text \o piece, next |-> i + 1,
                      places |-> done.places \o Repeated(IF i \in escaped THEN i - 1 ELSE i, Len(piece))]
        all == FoldLeft(decode, [text |-> <<>>, places |-> <<>>, next |-> start],
                        [k \in 1 .. Len(src) - at - 1 |-> at + 1 + k])
    IN  IF src = <<>> \/ all.text # value THEN <<>> ELSE Append(all.places, all.next)

\* A mutant: the place in the value is taken for the place in the source.
PlaceInValue(offsets, literal, start, at) == IF offsets = <<>> THEN literal ELSE literal + start + at

\* The place in the source of place `at` of a fragment whose text starts at `start` of the value.
PlaceOf(offsets, literal, start, at) ==
    IF start + at - 1 \in DOMAIN offsets THEN offsets[start + at - 1] ELSE literal

RECURSIVE ScanAll(_)
ScanAll(s) == IF s.state = "scanning" THEN ScanAll(ScanStep(s)) ELSE s

Accepted(s) == IF s.state = "done" THEN [ok |-> TRUE, tokens |-> s.tokens] ELSE Fail("Syntax")

PlaceTokens(tokens, offsets, literal, start) ==
    [i \in DOMAIN tokens |-> [tokens[i] EXCEPT !.at = PlaceOf(offsets, literal, start, @)]]

\* An expression that is all there is in its tokens.
WholeExpression(c) ==
    Then(Expression(c, 1), LAMBDA expr : IF T(c, After(c, expr.p, {"NEWLINE"})) # "EOF" THEN Fail("Syntax") ELSE expr)

ParseFragment(c, tokens) ==
    IF ColonsOk(tokens) THEN WholeExpression([c EXCEPT !.toks = Lex(tokens), !.src = <<>>]) ELSE Fail("Syntax")

Fragment(c, tok, start, end) ==
    Then(Accepted(ScanAll(Scanner(SubSeq(tok.v, start, end)))),
         LAMBDA scan : ParseFragment(c, PlaceTokens(scan.tokens, Offsets(c.src, tok.at, tok.v), tok.at, start)))

\* The brace that closes the one at i, counting the braces in between whatever they are part of; 0 if there is none.
ClosingBrace(v, i) ==
    LET open(j)   == Cardinality({k \in i .. j : v[k] = "{"})
        closed(j) == Cardinality({k \in i .. j : v[k] = "}"})
        closes    == {j \in i .. Len(v) : open(j) = closed(j)}
    IN  IF closes = {} THEN 0 ELSE CHOOSE j \in closes : \A k \in closes : j <= k

Text(text) == IF text = <<>> THEN <<>> ELSE <<Node("Text", text, <<>>, {}, 0)>>

RECURSIVE Segments(_, _, _, _)
Embedded(c, tok, open, close, text) ==
    IF close = 0 THEN Fail("Syntax")
    ELSE Then(Fragment(c, tok, open + 1, close - 1),
              LAMBDA expr : Prepend(Text(text) \o expr.kids, Segments(c, tok, close + 1, <<>>)))

Segments(c, tok, i, text) ==
    LET v == tok.v
    IN  IF i > Len(v) THEN Got(Text(text), 0)
        ELSE IF v[i] \in {"{", "}"} /\ Char(v, i + 1) = v[i] THEN Segments(c, tok, i + 2, Append(text, v[i]))
        ELSE IF v[i] # "{" THEN Segments(c, tok, i + 1, Append(text, v[i]))
        ELSE Embedded(c, tok, i, ClosingBrace(v, i), text)

FString(c, p) ==
    Then(Segments(c, Tok(c, p), 1, <<>>),
         LAMBDA segments : Made("FString", <<>>, Got(segments.kids, p + 1), {}, Tok(c, p).at))

(***************************************************************************)
(* Primaries.                                                              *)
(***************************************************************************)
\* Words of operations that had a syntax of their own; followed by an operand, one of them is the old form.
OldTextWords == {<<"find">>, <<"match">>, <<"replace">>, <<"split">>, <<"count">>}

Identifier(c, p) ==
    LET tok == Tok(c, p)
    IN  IF tok.v \in OldTextWords /\ Peek(c, p, 1).t \in Literals \cup {"IDENTIFIER"} THEN Fail("UnexpectedToken")
        ELSE Got(<<Node("Identifier", tok.v, <<>>, InWith(c), tok.at)>>, p + 1)

SuperCall(c, p) ==
    IF ~c.method \/ ~c.parent THEN Fail("UnexpectedToken")
    ELSE Then(Consume(c, p + 1, "."),
              LAMBDA dot : Then(MemberName(c, dot.p),
                                LAMBDA name : Made("Super", name.kids[1].n, Args(c, name.p), {}, Tok(c, p).at)))

WithMember(c, p) ==
    IF c.with = 0 THEN Fail("UnexpectedToken")
    ELSE Then(MemberName(c, p + 1),
              LAMBDA name : Got(<<Node("Member", name.kids[1].n, <<>>, {"implicit"}, Tok(c, p).at)>>, name.p))

Grouped(c, p) == Then(Expression(c, p + 1), LAMBDA inner : Prepend(inner.kids, Consume(c, inner.p, ")")))

Self(c, p) == IF c.method THEN Leaf(c, p, "Self") ELSE Fail("UnexpectedToken")

LiteralKinds == [NUMBER |-> "Number", STRING |-> "String", PATTERN |-> "Pattern", true |-> "Bool", false |-> "Bool",
                 empty |-> "Empty"]

Primary(c, p) ==
    LET type == T(c, p)
    IN  CASE type \in DOMAIN LiteralKinds -> Leaf(c, p, LiteralKinds[type])
          [] type = "FSTRING" -> FString(c, p)
          [] NameToken(Tok(c, p)) -> Identifier(c, p)
          [] type = "self" -> Self(c, p)
          [] type = "super" -> SuperCall(c, p)
          [] type = "." -> WithMember(c, p)
          [] type = "[" -> Made("List", <<>>, Enclosed(c, p + 1, "]"), {}, Tok(c, p).at)
          [] type = "{" -> Made("Map", <<>>, Enclosed(c, p + 1, "}"), {}, Tok(c, p).at)
          [] type = "(" -> Grouped(c, p)
          [] type = "await" -> Await(c, p)
          [] OTHER -> Fail("UnexpectedToken")

(***************************************************************************)
(* The levels, down to a primary and what follows it.                      *)
(***************************************************************************)
PostfixChain(c, p) ==
    IF TooDeep(c) THEN Fail("NestingTooDeep") ELSE Then(Primary(Deeper(c), p), LAMBDA base : Postfix(c, base))

Level(c, p, n) ==
    CASE n = PostfixLevel -> PostfixChain(c, p)
      [] n = UnaryLevel   -> Signed(c, p)
      [] n = NotLevel     -> IF T(c, p) = "!" THEN Not(c, p) ELSE Level(c, p, CompareLevel)
      [] OTHER            -> Then(Level(c, p, n + 1), LAMBDA left : LevelRest(c, left, n))
=============================================================================
