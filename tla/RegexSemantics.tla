---------------------------- MODULE RegexSemantics ----------------------------
(***************************************************************************)
(* What a pattern means, without a machine: the list of all the ways a     *)
(* node matches from a place, the preferred one first.  A way is the place *)
(* it ends at and the captures made on it.  There is no failure to undo    *)
(* and nothing to restore: a way that does not work out is not in the      *)
(* list.                                                                   *)
(***************************************************************************)
EXTENDS RegexParser, TLC

Way(end, spans, names) == [end |-> end, spans |-> spans, names |-> names]
Start(pos, groups)     == Way(pos, [i \in 1 .. groups |-> [from |-> -1, to |-> -1]], <<>>)

\* All the ways of `next` after each of `ways`, in order: the concatenation of lists.
RECURSIVE WaysOf(_, _, _)
RECURSIVE WaysOfAll(_, _, _)
RECURSIVE WaysFromEach(_, _, _)
RECURSIVE Repetitions(_, _, _, _)
RECURSIVE RepetitionsFromEach(_, _, _, _, _)

\* The ways of the nodes one after the other.
WaysOfAll(s, nodes, way) ==
    IF nodes = <<>> THEN <<way>> ELSE WaysFromEach(s, Tail(nodes), WaysOf(s, nodes[1], way))

WaysFromEach(s, nodes, ways) ==
    IF ways = <<>> THEN <<>>
    ELSE WaysOfAll(s, nodes, ways[1]) \o WaysFromEach(s, nodes, Tail(ways))

\* More rounds before or after stopping, as the quantifier prefers; a round beyond the first min must move.
Repetitions(s, q, count, way) ==
    LET stop == IF count >= q.min THEN <<way>> ELSE <<>>
        more == IF q.max < 0 \/ count < q.max
                THEN RepetitionsFromEach(s, q, count, way, WaysOf(s, q.child, way)) ELSE <<>>
    IN  IF q.lazy THEN stop \o more ELSE more \o stop

RepetitionsFromEach(s, q, count, way, rounds) ==
    IF rounds = <<>> THEN <<>>
    ELSE (IF rounds[1].end = way.end /\ count >= q.min THEN <<>> ELSE Repetitions(s, q, count + 1, rounds[1]))
         \o RepetitionsFromEach(s, q, count, way, Tail(rounds))

Ends(way, lens) == [i \in DOMAIN lens |-> [way EXCEPT !.end = @ + lens[i]]]

WaysOf(s, node, way) ==
    LET pos == way.end
        inner == WaysOf(s, node.child, way)
    IN  CASE node.kind = "CharTest" ->
               LET len == CharTestLen(s, node, pos) IN IF len > 0 THEN Ends(way, <<len>>) ELSE <<>>
          [] node.kind \in {"WordBoundary", "StartAnchor", "EndAnchor"} ->
               IF MarkHolds(s, node.kind, pos) THEN <<way>> ELSE <<>>
          [] node.kind = "Preset" -> Ends(way, PresetLengths(s, node.preset, pos))
          [] node.kind = "OneOf" ->
               LET fit == SelectSeq(node.alternatives, LAMBDA alt : AlternativeFits(s, alt, pos))
               IN  Ends(way, [i \in DOMAIN fit |-> Len(fit[i])])
          [] node.kind = "Sequence"   -> WaysOfAll(s, node.children, way)
          [] node.kind = "Quantified" -> Repetitions(s, node, 0, way)
          [] node.kind = "Group" ->
               [i \in DOMAIN inner |->
                  [inner[i] EXCEPT !.spans[node.index] = [from |-> pos, to |-> inner[i].end]]]
          [] node.kind = "NamedGroup" ->
               [i \in DOMAIN inner |->
                  [inner[i] EXCEPT !.names = (node.name :> [from |-> pos, to |-> inner[i].end]) @@ @]]

\* The ways of the whole pattern from one place; a full match must reach the end.
WaysAt(s, root, groups, pos, full) ==
    SelectSeq(WaysOf(s, root, Start(pos, groups)), LAMBDA way : full => way.end = Size(s))

Captured(s, from, way) ==
    [from |-> from, to |-> way.end,
     positional |-> [i \in DOMAIN way.spans |->
                        IF way.spans[i].from < 0 THEN <<>> ELSE Slice(s, way.spans[i])],
     named |-> [n \in DOMAIN way.names |-> Slice(s, way.names[n])]]

IfNone(first, others) == IF first = <<>> THEN others ELSE first

Preferred(s, from, ways) == IF ways = <<>> THEN <<>> ELSE <<Captured(s, from, ways[1])>>

\* The place one character further; at the end, none.
NextPlace(s, pos) == IF pos = Size(s) THEN pos + 1 ELSE pos + CharLen(At(s, pos))

\* The leftmost match from `from` on, as a list of at most one.
RECURSIVE FirstMatch(_, _, _)
FirstMatch(s, c, from) ==
    IF from > Size(s) THEN <<>>
    ELSE IfNone(Preferred(s, from, WaysAt(s, c.root, c.groups, from, FALSE)),
                FirstMatch(s, c, NextPlace(s, from)))

\* The matches of the whole text from `from` on: each starts at or after the end of the one before, and after
\* an empty one a character further.
RECURSIVE AllMatches(_, _, _)
WithLater(s, c, first) ==
    IF first = <<>> THEN <<>>
    ELSE first \o AllMatches(s, c, IF first[1].to > first[1].from THEN first[1].to ELSE NextPlace(s, first[1].to))
AllMatches(s, c, from) == IF from > Size(s) THEN <<>> ELSE WithLater(s, c, FirstMatch(s, c, from))

\* The pieces of the text that lie outside the matches of the list, one more than there are matches.
Outside(s, matches) ==
    [i \in 1 .. Len(matches) + 1 |->
       Slice(s, [from |-> IF i = 1 THEN 0 ELSE matches[i - 1].to,
                 to   |-> IF i > Len(matches) THEN Size(s) ELSE matches[i].from])]

\* The text with every match of the list replaced, and nothing else changed.
Rewritten(s, matches, with) ==
    LET kept == Outside(s, matches)
    IN  FoldLeft(LAMBDA text, piece : text \o with \o piece, kept[1], Tail(kept))

\* Places inside a character of the text.
InsideCharacter(s, pos) == pos < Size(s) /\ At(s, pos) \in Tail8

\* The characters a pattern is written with: the inverse of the parser.
RECURSIVE Shown(_)
RECURSIVE ShownAll(_)
ShownAll(nodes) == IF nodes = <<>> THEN <<>> ELSE Shown(nodes[1]) \o ShownAll(Tail(nodes))

Digit(n) == <<"0", "1", "2", "3">>[n + 1]
ShownNumber(n) == IF n < 10 THEN <<Digit(n)>> ELSE <<Digit(n \div 10), Digit(n % 10)>>

ShownCounts(lo, hi) ==
    CASE lo = 1 /\ hi = -1 -> <<"+">>
      [] lo = 0 /\ hi = -1 -> <<"*">>
      [] lo = 0 /\ hi = 1  -> <<"?">>
      [] lo > 1 /\ hi = -1 -> ShownNumber(lo) \o <<"~">>
      [] lo = 0 /\ hi # 1 /\ hi >= 0 -> <<"~">> \o ShownNumber(hi)
      [] lo > 0 /\ lo = hi -> ShownNumber(lo)
      [] lo > 0 /\ hi > lo -> ShownNumber(lo) \o <<"~">> \o ShownNumber(hi)

\* A '-' that is no range stands first and a '!' that negates nothing last.
ShownSet(node) ==
    LET set   == IF node.negated THEN Bytes \ node.test ELSE node.test
        named == {n \in DOMAIN ClassNames : ClassNames[n] = set}
        pick(from) == SelectSeq(from, LAMBDA c : c \in set)
    IN  <<"[">> \o (IF node.negated THEN <<"!">> ELSE <<>>)
        \o (IF named # {} THEN <<CHOOSE n \in named : TRUE>>
            ELSE pick(<<"-">>) \o pick(SelectSeq(Order, LAMBDA c : c \notin {"-", "!"})) \o pick(<<"!">>))
        \o <<"]">>

Shown(node) ==
    CASE node.kind = "CharTest" ->
            IF node.any THEN <<"[", "any", "]">>
            ELSE IF node.multi # <<>> THEN node.multi
            ELSE IF node.literal
                 THEN LET c == CHOOSE c \in node.test : TRUE
                      IN  IF c \in Escapable THEN <<"\\", c>> ELSE <<c>>
                 ELSE ShownSet(node)
      [] node.kind \in {"WordBoundary", "StartAnchor", "EndAnchor"} ->
            <<"[", CHOOSE n \in DOMAIN MarkNames : MarkNames[n] = node.kind, "]">>
      [] node.kind = "Preset" -> <<"[", node.preset, "]">>
      [] node.kind = "OneOf" ->
            <<"[", "one", ":">> \o FoldLeft(LAMBDA text, alt : text \o <<"|">> \o alt,
                                            node.alternatives[1], Tail(node.alternatives)) \o <<"]">>
      [] node.kind = "Group"      -> <<"(">> \o Shown(node.child) \o <<")">>
      [] node.kind = "NamedGroup" -> <<"<">> \o node.name \o <<":">> \o Shown(node.child) \o <<">">>
      [] node.kind = "Sequence"   -> ShownAll(node.children)
      [] node.kind = "Quantified" ->
            Shown(node.child)
            \o (IF node.min = 1 /\ node.max = 1 /\ ~node.lazy THEN <<>> ELSE ShownCounts(node.min, node.max))
            \o (IF node.lazy THEN <<"?">> ELSE <<>>)
=============================================================================
