----------------------------- MODULE SourceWriter -----------------------------
(***************************************************************************)
(* Reference definitions for the front end, by the shape of the tree: how  *)
(* a program is written out, where the words that depend on their          *)
(* surroundings may stand, how deep the code nests, and which lines of a   *)
(* text say nothing.                                                       *)
(***************************************************************************)
EXTENDS FrontEnd

\* A tree without its places and without the marks that come from its surroundings.
RECURSIVE Plain(_)
Plain(node) == [k |-> node.k, n |-> node.n, flags |-> node.flags \ {"inWith"},
                kids |-> [i \in DOMAIN node.kids |-> Plain(node.kids[i])]]
PlainAll(nodes) == [i \in DOMAIN nodes |-> Plain(nodes[i])]

RECURSIVE Nodes(_)
Nodes(node) == {node} \cup UNION {Nodes(node.kids[i]) : i \in DOMAIN node.kids}

(***************************************************************************)
(* Writing.  A piece is the text of a token, a place where a line may      *)
(* break, or a block.                                                      *)
(***************************************************************************)
Piece(what, text, stmts) == [what |-> what, text |-> text, stmts |-> stmts]
W(text)      == <<Piece("word", text, <<>>)>>
Word(ch)     == W(<<ch>>)
Words(chs)   == FlattenSeq([i \in DOMAIN chs |-> Word(chs[i])])
Break        == <<Piece("break", <<>>, <<>>)>>
Block(stmts) == <<Piece("block", <<>>, stmts)>>

Precedence == [or |-> 1, and |-> 2] @@ [c \in Comparisons |-> 4] @@ [c \in {"+", "-"} |-> 5]
              @@ [c \in {"*", "/", "%"} |-> 6] @@ ("**" :> 8)
Binding(e) == CASE e.k = "Binary" -> Precedence[e.n[1]]
                [] e.k = "Isa"    -> 4
                [] e.k = "Unary"  -> IF e.n = <<"!">> THEN 3 ELSE 7
                [] e.k = "Await"  -> 9
                [] OTHER          -> 10

Quoted(value, quote) ==
    <<quote>> \o FlattenSeq([i \in DOMAIN value |-> IF value[i] \in {quote, "\\"} THEN <<"\\", value[i]>> ELSE <<value[i]>>])
    \o <<quote>>
RawQuoted(value) ==
    <<"\"">> \o FlattenSeq([i \in DOMAIN value |-> IF value[i] = "\"" THEN <<"\\", "\"">> ELSE <<value[i]>>]) \o <<"\"">>
Braced(text) == FlattenSeq([i \in DOMAIN text |-> IF text[i] \in {"{", "}"} THEN <<text[i], text[i]>> ELSE <<text[i]>>])

RECURSIVE Written(_, _, _, _)
RECURSIVE Form(_, _)
RECURSIVE WrittenLine(_, _, _)

\* An expression where something of at least this binding has to stand.
Operand(e, min, lay) == IF Binding(e) < min THEN Word("(") \o Form(e, lay) \o Word(")") ELSE Form(e, lay)

Joined(parts, sep) == FlattenSeq([i \in DOMAIN parts |-> IF i = 1 THEN parts[i] ELSE sep \o parts[i]])
Listed(es, lay)    == Joined([i \in DOMAIN es |-> Operand(es[i], 1, lay)], Word(",") \o Break)
Comma(es, lay)     == IF lay.trailing /\ es # <<>> THEN Word(",") ELSE <<>>

Segment(s, lay) == IF s.k = "Text" THEN Braced(s.n)
                   ELSE <<"{">> \o Written(Form(s, lay), 0, lay, TRUE) \o <<"}">>

Pairs(kids, lay) ==
    Joined([i \in 1 .. Len(kids) \div 2 |-> Operand(kids[2 * i - 1], 1, lay) \o Word(":") \o Operand(kids[2 * i], 1, lay)],
           Word(",") \o Break)

Spelled(op) == CASE op = ">=" -> <<">", "=">> [] op = "<=" -> <<"<", "=">> [] op = "**" -> <<"*", "*">> [] OTHER -> <<op>>

Operators(e, lay) ==
    LET min   == Precedence[e.n[1]]
        power == e.n = <<"**">>
    IN  Operand(e.kids[1], IF power THEN 9 ELSE min, lay)
        \o FlattenSeq([i \in DOMAIN e.n |-> W(Spelled(e.n[i]))])
        \o Operand(e.kids[2], IF power THEN 7 ELSE min + 1, lay)

Called(e, first, lay) == Word("(") \o Break \o Listed(SubSeq(e.kids, first, Len(e.kids)), lay) \o Word(")")
Target(e, lay)        == IF "implicit" \in e.flags THEN <<>> ELSE Operand(e.kids[1], 10, lay)

Steps(place, lay) ==
    FlattenSeq([i \in DOMAIN place.kids |->
        IF i = 1 THEN <<>>
        ELSE IF place.kids[i].k = "Name" THEN Word(".") \o W(place.kids[i].n)
        ELSE Word("[") \o Operand(place.kids[i].kids[1], 1, lay) \o Word("]")])

Flagged(e, flags)  == FlattenSeq([i \in DOMAIN flags |-> IF flags[i] \in e.flags THEN Word(flags[i]) ELSE <<>>])
WrittenParam(e, lay) == (IF "typed" \in e.flags THEN W(e.kids[1].n) ELSE <<>>) \o W(e.n)
                 \o (IF "default" \in e.flags THEN Word("to") \o Operand(Last(e.kids), 1, lay) ELSE <<>>)
Do(body)    == Words(<<"do", ":">>) \o Block(body.kids)
DoEnd(body) == Do(body) \o Word("end")

Branched(e, i, lay) ==
    LET b == e.kids[i]
    IN  (IF i = 1 THEN Word("if") ELSE IF Len(b.kids) = 2 THEN Words(<<"else", "if">>) ELSE Word("else"))
        \o (IF Len(b.kids) = 2 THEN Operand(b.kids[1], 1, lay) ELSE <<>>) \o Do(Last(b.kids))

Header(e, lay) ==
    LET name  == W(e.kids[1].n)
        value(i) == Operand(e.kids[i], 1, lay)
    IN  CASE e.n = <<"repeat">> -> name \o Word("to") \o value(2) \o Word("~") \o value(3)
          [] e.n = <<"while">>  -> value(1)
          [] e.n = <<"each">>   -> name \o Word("in") \o value(2)

Form(e, lay) ==
    LET kid(i)   == e.kids[i]
        value(i) == Operand(e.kids[i], 1, lay)
    IN  CASE e.k \in {"Number", "Bool", "Empty", "Identifier", "Self", "Type", "Name", "Jump", "self"} -> W(e.n)
          [] e.k = "String"   -> W(Quoted(e.n, lay.quote))
          [] e.k = "Pattern"  -> W(<<"p">> \o RawQuoted(e.n) \o SetToSeq(e.flags))
          [] e.k = "FString"  ->
                W(<<"f">> \o Quoted(FlattenSeq([i \in DOMAIN e.kids |-> Segment(kid(i), lay)]), "\""))
          [] e.k = "List"     -> Word("[") \o Break \o Listed(e.kids, lay) \o Comma(e.kids, lay) \o Break \o Word("]")
          [] e.k = "Map"      -> Word("{") \o Break \o Pairs(e.kids, lay) \o Comma(e.kids, lay) \o Break \o Word("}")
          [] e.k = "Binary"   -> Operators(e, lay)
          [] e.k = "Isa"      -> Operand(kid(1), 4, lay) \o Word("isa") \o W(kid(2).n)
          [] e.k = "Unary"    -> W(e.n) \o Operand(kid(1), IF e.n = <<"!">> THEN 3 ELSE 7, lay)
          [] e.k = "Index"    -> Operand(kid(1), 10, lay) \o Word("[") \o value(2) \o Word("]")
          [] e.k = "Slice"    -> Operand(kid(1), 10, lay) \o Word("[") \o value(2) \o Word("~") \o value(3) \o Word("]")
          [] e.k = "Member"   -> Target(e, lay) \o Word(".") \o W(e.n)
          [] e.k = "Call"     -> W(e.n) \o Called(e, 1, lay)
          [] e.k = "Method"   -> Target(e, lay) \o Word(".") \o W(e.n) \o Called(e, IF "implicit" \in e.flags THEN 1 ELSE 2, lay)
          [] e.k = "Super"    -> Words(<<"super", ".">>) \o W(e.n) \o Called(e, 1, lay)
          [] e.k = "Await"    -> Word("await") \o Form(kid(1), lay)
          [] e.k = "Place"    -> Form(kid(1), lay) \o Steps(e, lay)
          [] e.k = "Statement" -> IF kid(1).k # "Await" /\ value(1)[1].text = <<"await">>
                                  THEN Word("(") \o value(1) \o Word(")") ELSE value(1)
          [] e.k \in {"Set", "Field"} -> Flagged(e, <<"private">>) \o Word("set") \o Flagged(e, <<"constant">>)
                                         \o W(kid(1).n) \o W(kid(2).n) \o Word("to") \o value(3)
          [] e.k = "Change"   -> Word("change") \o Form(kid(1), lay) \o Word("to") \o value(2)
          [] e.k = "Global"   -> Word("global") \o Joined([i \in DOMAIN e.kids |-> W(kid(i).n)], Word(","))
          [] e.k = "Return"   -> Word("return") \o (IF e.kids = <<>> THEN <<>> ELSE value(1))
          [] e.k = "Fail"     -> Word("fail") \o value(1)
          [] e.k = "Add"      -> Word("add") \o value(1) \o Word("to") \o Form(kid(2), lay)
          [] e.k = "Remove"   -> Word("remove") \o value(1) \o Word("from") \o Form(kid(2), lay)
          [] e.k = "UseLibraries" ->
                Word("use") \o Joined([i \in DOMAIN e.kids |-> Words(<<"DLC", ":">>) \o W(kid(i).n)], Word(","))
          [] e.k = "If"       -> FlattenSeq([i \in DOMAIN e.kids |-> Branched(e, i, lay)]) \o Word("end")
          [] e.k = "With"     -> Word("with") \o value(1) \o DoEnd(kid(2))
          [] e.k = "Loop"     -> Word("loop") \o W(e.n) \o Header(e, lay) \o DoEnd(Last(e.kids))
          [] e.k = "OrElse"   -> Form(kid(1), lay) \o Word("or_else")
                                 \o (IF "as" \in e.flags THEN Word("as") \o W(kid(2).n) ELSE <<>>) \o DoEnd(Last(e.kids))
          [] e.k = "Function" -> Flagged(e, <<"private", "pure", "async">>) \o Word("func") \o W(e.n) \o Word("(")
                                 \o Joined([i \in 1 .. Len(e.kids) - 1 |-> WrittenParam(kid(i), lay)], Word(",")) \o Word(")")
                                 \o DoEnd(Last(e.kids))
          [] e.k = "Class"    -> Word("class") \o W(kid(1).n)
                                 \o (IF "extends" \in e.flags THEN Word("extends") \o W(kid(2).n) ELSE <<>>)
                                 \o Words(<<"do", ":">>)
                                 \o Block(SubSeq(e.kids, IF "extends" \in e.flags THEN 3 ELSE 2, Len(e.kids))) \o Word("end")

NewLine(depth, lay) == lay.eol \o lay.noise \o FlattenSeq([i \in 1 .. depth |-> lay.indent])

\* A space between two tokens where one is needed, or wherever the layout has one; never before a colon.
Spaced(out, text, lay) ==
    IF out = <<>> \/ text = <<":">> THEN <<>>
    ELSE IF Last(out) \in AlphaNum /\ text[1] \in AlphaNum THEN <<" ">>
    ELSE IF lay.tight \/ Last(out) \in {"\n", "\t", " "} THEN <<>> ELSE <<" ">>

\* A block is written on lines of its own unless it is one short statement.
WrittenBlock(stmts, depth, lay) ==
    IF lay.oneLine /\ Len(stmts) = 1 THEN <<" ">> \o WrittenLine(stmts[1], depth, lay) \o <<" ">>
    ELSE FlattenSeq([i \in DOMAIN stmts |-> NewLine(depth + 1, lay) \o WrittenLine(stmts[i], depth + 1, lay)])
         \o NewLine(depth, lay)

\* The text of pieces at a depth.
Written(pieces, depth, lay, inBraces) ==
    LET add(out, piece) ==
            CASE piece.what = "word"  -> out \o Spaced(out, piece.text, lay) \o piece.text
              [] piece.what = "break" -> IF lay.breaks /\ ~inBraces THEN out \o NewLine(depth + 1, lay) ELSE out
              [] piece.what = "block" -> out \o WrittenBlock(piece.stmts, depth, lay)
    IN  FoldLeft(add, <<>>, pieces)

WrittenLine(stmt, depth, lay) == Written(Form(stmt, lay), depth, lay, FALSE)

Source(stmts, lay) ==
    FlattenSeq([i \in DOMAIN stmts |-> WrittenLine(stmts[i], 0, lay) \o lay.eol \o lay.noise])

(***************************************************************************)
(* Where words may stand.                                                  *)
(***************************************************************************)
\* Surroundings: in a method, in one of a class with a parent, in a with block of the same function, at top level.
RECURSIVE WellPlaced(_, _)
WellPlaced(node, around) ==
    LET inner(i) ==
          CASE node.k = "Function" -> [around EXCEPT !.method = "method" \in node.flags, !.with = FALSE, !.top = FALSE,
                                                     !.parent = @ /\ "method" \in node.flags]
            [] node.k = "Class"    -> [around EXCEPT !.parent = "extends" \in node.flags, !.top = FALSE]
            [] node.k = "Field"    -> [around EXCEPT !.parent = FALSE]
            [] node.k = "With" /\ i = 2 -> [around EXCEPT !.with = TRUE, !.top = FALSE]
            [] node.k \in {"If", "Loop", "OrElse"} -> [around EXCEPT !.top = (i = 1 /\ node.k = "OrElse") /\ @]
            [] OTHER -> around
    IN  /\ node.k \in {"Self", "self"} => around.method
        /\ node.k = "Super" => around.method /\ around.parent
        /\ "implicit" \in node.flags => around.with
        /\ node.k = "Class" => around.top
        /\ \A i \in DOMAIN node.kids : WellPlaced(node.kids[i], inner(i))

Nowhere == [method |-> FALSE, parent |-> FALSE, with |-> FALSE, top |-> TRUE]

(***************************************************************************)
(* Nesting, and lines that say nothing.                                    *)
(***************************************************************************)
Opens == {"List", "Map", "FString", "Await", "Unary", "Body", "Call", "Method", "Super"}

\* How many blocks, brackets, calls and prefixes are around the innermost part of a tree.
RECURSIVE Nesting(_)
Nesting(node) ==
    LET below(i) == Nesting(node.kids[i]) + (IF node.k \in Opens \/ (node.k \in {"Index", "Slice"} /\ i > 1) THEN 1 ELSE 0)
    IN  IF node.kids = <<>> THEN 0
        ELSE CHOOSE d \in {below(i) : i \in DOMAIN node.kids} : \A i \in DOMAIN node.kids : below(i) <= d

\* The text without its lines of nothing but these blanks.
WithoutBlankLines(src, blanks) ==
    LET add(text, ch) == IF ch # "\n" THEN [text EXCEPT !.line = Append(@, ch)]
                         ELSE [kept |-> IF ToSet(text.line) \subseteq blanks THEN text.kept ELSE text.kept \o Append(text.line, ch),
                               line |-> <<>>]
        text == FoldLeft(add, [kept |-> <<>>, line |-> <<>>], src)
    IN  text.kept \o text.line

Seen(tokens) == [i \in DOMAIN tokens |-> <<tokens[i].t, tokens[i].v, tokens[i].space>>]
=============================================================================
