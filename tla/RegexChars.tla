------------------------------ MODULE RegexChars ------------------------------
(***************************************************************************)
(* What one element of a pattern can match at one place of a text.         *)
(*                                                                         *)
(* A text is a sequence of bytes; the ASCII characters the patterns tell   *)
(* apart stand for themselves, and <<"C3", "A9">> is the one character of  *)
(* two bytes.  Positions are the offsets of the code: 0 .. Len(text).      *)
(* A subject is what a matcher was built for: the text and the flags.      *)
(***************************************************************************)
EXTENDS Integers, Sequences, FiniteSets, SequencesExt

Low     == {"a", "b", "c", "h", "m", "o", "p", "t"}
Up      == {"A", "B"}
Num     == {"0", "1", "2", "3"}
Let     == Low \cup Up
Str     == Let \cup Num
Word    == Str \cup {"_"}
Sp      == {" "}
Nl      == {"\n"}
Hex     == Num \cup {"a", "b", "c", "A", "B"}
Lead    == {"C3"}
Tail8   == {"A9"}
\* Every byte a text may hold, in the order in which a range compares its ends.
Order == <<"\n", " ", "!", "#", "%", "&", "(", ")", "*", "+", "-", ".", "/", "0", "1", "2", "3",
           ":", "<", "=", ">", "?", "@", "A", "B", "[", "\\", "]", "_",
           "a", "b", "c", "h", "m", "o", "p", "t", "|", "~", "A9", "C3">>
Bytes == ToSet(Order)
Rank(c) == CHOOSE i \in DOMAIN Order : Order[i] = c

\* A mutant: a continuation byte is no character of its own.
StuckOnTail(b) == IF b \in Lead THEN 2 ELSE IF b = "A9" THEN 0 ELSE 1

\* seqLen: a stray byte counts as one character, so that scanning always advances.
CharLen(b) == IF b \in Lead THEN 2 ELSE 1

Toggle == [c \in Bytes |->
             IF c = "a" THEN "A" ELSE IF c = "A" THEN "a"
             ELSE IF c = "b" THEN "B" ELSE IF c = "B" THEN "b" ELSE c]

At(s, pos)     == s.text[pos + 1]
Size(s)        == Len(s.text)
Slice(s, span) == SubSeq(s.text, span.from + 1, span.to)
StartsAt(s, seq, pos) ==
    pos + Len(seq) <= Size(s) /\ SubSeq(s.text, pos + 1, pos + Len(seq)) = seq

\* The end of the run of bytes of `set` that starts at pos.
RunEnd(s, pos, set) ==
    CHOOSE e \in pos .. Size(s) :
        /\ \A i \in pos .. e - 1 : At(s, i) \in set
        /\ e = Size(s) \/ At(s, e) \notin set

(***************************************************************************)
(* The nodes of a parsed pattern.                                          *)
(***************************************************************************)
CharTest(set, negated) == [kind |-> "CharTest", test |-> set, negated |-> negated, any |-> FALSE,
                           multi |-> <<>>, literal |-> FALSE]
Literal(c)       == [CharTest({c}, FALSE) EXCEPT !.literal = TRUE]
WideLiteral(seq) == [CharTest({}, FALSE) EXCEPT !.multi = seq, !.literal = TRUE]
AnyChar          == [CharTest({}, FALSE) EXCEPT !.any = TRUE]
Mark(kind)       == [kind |-> kind]
Preset(kind)     == [kind |-> "Preset", preset |-> kind]
OneOf(alts)      == [kind |-> "OneOf", alternatives |-> alts]
Seq1(children)   == [kind |-> "Sequence", children |-> children]
Group(idx, child)       == [kind |-> "Group", index |-> idx, child |-> child]
NamedGroup(name, child) == [kind |-> "NamedGroup", name |-> name, child |-> child]
Quantified(child, lo, hi, lazy) ==
    [kind |-> "Quantified", child |-> child, min |-> lo, max |-> hi, lazy |-> lazy]

(***************************************************************************)
(* Elements that match at most one way, or one of a list of lengths.       *)
(***************************************************************************)
CharLenAt(s, pos) ==
    LET len == CharLen(At(s, pos)) IN IF pos + len > Size(s) THEN 1 ELSE len

CharEquals(s, b, set) == b \in set \/ (s.ci /\ Toggle[b] \in set)

\* How many bytes a character test takes at pos, 0 when it fails.
CharTestLen(s, node, pos) ==
    IF pos >= Size(s) THEN 0
    ELSE LET len == CharLenAt(s, pos)
         IN  IF node.any THEN IF len = 1 /\ At(s, pos) = "\n" THEN 0 ELSE len
             ELSE IF node.multi # <<>>
                  THEN IF StartsAt(s, node.multi, pos) THEN Len(node.multi) ELSE 0
             ELSE IF len > 1 THEN IF node.negated THEN len ELSE 0
             ELSE IF CharEquals(s, At(s, pos), node.test) THEN 1 ELSE 0

IsWordAt(s, pos) == pos < Size(s) /\ At(s, pos) \in Word \cup Lead \cup Tail8

PrevCharStart(s, pos) ==
    CHOOSE i \in 0 .. pos - 1 :
        /\ \A j \in i + 1 .. pos - 1 : At(s, j) \in Tail8
        /\ i = 0 \/ At(s, i) \notin Tail8

WordBoundary(s, pos) ==
    LET before == pos > 0 /\ IsWordAt(s, PrevCharStart(s, pos))
    IN  before # IsWordAt(s, pos)

StartAnchor(s, pos) == pos = 0 \/ (s.multiline /\ At(s, pos - 1) = "\n")
EndAnchor(s, pos)   == pos = Size(s) \/ (s.multiline /\ At(s, pos) = "\n")

MarkHolds(s, kind, pos) ==
    CASE kind = "WordBoundary" -> WordBoundary(s, pos)
      [] kind = "StartAnchor"  -> StartAnchor(s, pos)
      [] kind = "EndAnchor"    -> EndAnchor(s, pos)

EndsOnBoundary(s, pos) == pos >= Size(s) \/ At(s, pos) \notin Tail8

AlternativeFits(s, alt, pos) ==
    /\ pos + Len(alt) <= Size(s)
    /\ \A i \in DOMAIN alt : CharEquals(s, At(s, pos + i - 1), {alt[i]})
    /\ EndsOnBoundary(s, pos + Len(alt))

Signed(s, pos) == IF pos < Size(s) /\ At(s, pos) \in {"+", "-"} THEN pos + 1 ELSE pos

IntLens(s, pos) ==
    LET digits == Signed(s, pos)
    IN  {e - pos : e \in digits + 1 .. RunEnd(s, digits, Num)}

FloatLens(s, pos) ==
    LET digits == Signed(s, pos)
        dot    == RunEnd(s, digits, Num)
        end    == IF dot < Size(s) /\ At(s, dot) = "." THEN RunEnd(s, dot + 1, Num) ELSE dot
    IN  IF dot > digits /\ end > dot + 1 THEN {end - pos} ELSE {}

\* The name before the @, then a domain whose last label is two letters or more.
EmailLens(s, pos) ==
    LET at  == RunEnd(s, pos, Str \cup {".", "_", "%", "+", "-"})
        end == RunEnd(s, at + 1, Str \cup {".", "-"})
    IN  IF at = pos \/ at = Size(s) \/ At(s, at) # "@" THEN {}
        ELSE {e - pos : e \in {e \in at + 2 .. end :
                 \E dot \in at + 1 .. e - 3 :
                    At(s, dot) = "." /\ \A i \in dot + 1 .. e - 1 : At(s, i) \in Let}}

Shape(a, b, c) == [i \in 1 .. a + b + c + 2 |-> IF i \in {a + 1, a + b + 2} THEN {"-"} ELSE Num]
Shapes == {Shape(3, 4, 4), Shape(2, 3, 4), Shape(2, 4, 4), Shape(3, 3, 4)}

PhoneLens(s, pos) ==
    LET fitting == {Len(shape) : shape \in {shape \in Shapes :
                       /\ pos + Len(shape) <= Size(s)
                       /\ \A i \in DOMAIN shape : At(s, pos + i - 1) \in shape[i]}}
    IN  {n \in fitting : \A m \in fitting : m <= n}

Schemes == {<<"h", "t", "t", "p", "s", ":", "/", "/">>, <<"h", "t", "t", "p", ":", "/", "/">>}
UrlChars == Str \cup {".", "-", "_", "/", "?", "=", "&", "%", "#", "~", ":", "+"}

UrlLens(s, pos) ==
    {e - pos : e \in UNION {LET from == pos + Len(scheme)
                                end  == RunEnd(s, from, UrlChars)
                            IN  {end} \ {from}
                            : scheme \in {scheme \in Schemes : StartsAt(s, scheme, pos)}}}

Descending(lens) ==
    [i \in 1 .. Cardinality(lens) |-> CHOOSE n \in lens : Cardinality({m \in lens : m > n}) = i - 1]

\* The lengths a preset may take at pos, longest first.
PresetLengths(s, kind, pos) ==
    Descending(CASE kind = "int"   -> IntLens(s, pos)
                 [] kind = "float" -> FloatLens(s, pos)
                 [] kind = "email" -> EmailLens(s, pos)
                 [] kind = "phone" -> PhoneLens(s, pos)
                 [] kind = "url"   -> UrlLens(s, pos))
=============================================================================
