------------------------------ MODULE Tokenizer ------------------------------
(***************************************************************************)
(* From source text to tokens.  The text is a sequence of characters; a    *)
(* keyword, and any other piece of a word, counts as one character, so a   *)
(* word is the sequence of its pieces.  scan is the tokenizer between two  *)
(* tokens or lines: what it has read, what it holds back and what it has   *)
(* produced.  The lines a token's text comes from are its places in the    *)
(* source, counted from 1.                                                 *)
(***************************************************************************)
EXTENDS Naturals, Sequences, SequencesExt, FiniteSets

Keywords ==
    {"set", "change", "constant", "global", "add", "remove", "if", "else", "loop", "repeat", "while", "each",
     "stop", "skip", "return", "fail", "await", "use", "from", "in", "to", "do", "end", "note", "endnote",
     "func", "class", "extends", "with", "async", "pure", "private", "or_else", "self", "super", "is",
     "matches", "isa", "not", "and", "or", "true", "false", "empty"}

Alpha    == Keywords \cup {"a", "x", "y", "f", "p", "i", "m", "n", "as", "by", "IS", "DLC", "returnable", "find",
                           "count", "t", "r", "number", "str", "boolean", "list", "map", "match", "pattern",
                           "object", "init"}
Digit    == {"0", "1", "2"}
AlphaNum == Alpha \cup Digit
Space    == {" ", "\t", "\r"}

Single  == {"+", "-", "%", "/", "!", "(", ")", "[", "]", "{", "}", ",", ":", ".", "~"}
Double  == [pair \in {<<">", "=">>, <<"<", "=">>, <<"*", "*">>} |->
              CASE pair[1] = ">" -> ">=" [] pair[1] = "<" -> "<=" [] pair[1] = "*" -> "**"]

Token(type, value, at, space) == [t |-> type, v |-> value, at |-> at, space |-> space, flags |-> {}]

\* A tokenizer at the start of a text; a byte order mark there is not part of the program.
Scanner(src) ==
    [src |-> src, at |-> IF src # <<>> /\ src[1] = "BOM" THEN 2 ELSE 1, lineStart |-> TRUE, pending |-> FALSE,
     space |-> FALSE, indents |-> <<0>>, tokens |-> <<>>, statementEnd |-> 0, state |-> "scanning"]

AtEnd(s)     == s.at > Len(s.src)
Char(src, i) == IF i <= Len(src) THEN src[i] ELSE "none"

\* Where the characters of `set` from i on end.
EndOf(src, i, set) ==
    CHOOSE e \in i .. Len(src) + 1 : /\ \A k \in i .. e - 1 : src[k] \in set
                                     /\ e <= Len(src) => src[e] \notin set
LineEnd(src, i) == EndOf(src, i, ToSet(src) \ {"\n"})

Refused(s, error) == [s EXCEPT !.state = error]

CommentAhead(src, i) == Char(src, i) = "note" /\ Char(src, i + 1) \notin AlphaNum

\* Where a comment ends: at the end of its line, or after the first `endnote` when nothing follows `note:`.
CommentEnd(src, i) ==
    LET text == EndOf(src, i + 2, Space)
        ends == {k \in text + 1 .. Len(src) : src[k] = "endnote" /\ Char(src, k + 1) \notin AlphaNum}
    IN  IF Char(src, i + 1) # ":" THEN 0
        ELSE IF Char(src, text) \notin {"\n", "none"} THEN LineEnd(src, text)
        ELSE IF ends = {} THEN 0
        ELSE 1 + CHOOSE k \in ends : \A l \in ends : k <= l

(***************************************************************************)
(* The start of a line.                                                    *)
(***************************************************************************)
Width(blanks) == FoldLeft(LAMBDA sum, ch : sum + (IF ch = "\t" THEN 4 ELSE 1), 0, blanks)

Repeated(token, n) == [i \in 1 .. n |-> token]

Dedents(levels, at) == Repeated(Token("DEDENT", <<>>, at, FALSE), levels)

\* The first token of a line: it ends the statement before it and opens or closes levels.
EnterLine(s, indent, at) ==
    LET newline == IF s.pending THEN <<Token("NEWLINE", <<>>, s.statementEnd, FALSE)>> ELSE <<>>
        kept    == SelectSeq(s.indents, LAMBDA level : level <= indent)
        deeper  == indent > Last(s.indents)
        change  == IF deeper THEN <<Token("INDENT", <<>>, at, FALSE)>>
                   ELSE Dedents(Len(s.indents) - Len(kept), at)
    IN  IF ~deeper /\ Last(kept) # indent THEN Refused(s, "inconsistent indentation")
        ELSE [s EXCEPT !.at = at, !.lineStart = FALSE, !.pending = FALSE, !.space = FALSE,
                       !.tokens = @ \o newline \o change,
                       !.indents = IF deeper THEN Append(@, indent) ELSE kept]

AfterLine(s, i) == [s EXCEPT !.at = IF i <= Len(s.src) THEN i + 1 ELSE i]

\* A mutant: a line of blanks is a line like any other.
OnlyAtEnd(src, text) == Char(src, text) = "none"

BlankFrom(src, text) == Char(src, text) \in {"\n", "none"}

LineFrom(s, text) ==
    IF BlankFrom(s.src, text) THEN AfterLine(s, text)
    ELSE IF ~CommentAhead(s.src, text) THEN EnterLine(s, Width(SubSeq(s.src, s.at, text - 1)), text)
    ELSE IF CommentEnd(s.src, text) = 0 THEN Refused(s, "bad comment")
    ELSE AfterLine(s, LineEnd(s.src, CommentEnd(s.src, text)))

StartLine(s) == LineFrom(s, EndOf(s.src, s.at, {" ", "\t"}))

(***************************************************************************)
(* Tokens.                                                                 *)
(***************************************************************************)
Scanned(s, type, value, end) ==
    [s EXCEPT !.tokens = Append(@, Token(type, value, s.at, s.space)), !.at = end, !.space = FALSE]

\* The places from i on that a backslash before them escapes.
Escaped(src, i) ==
    LET escapes(set, k) == IF src[k] = "\\" /\ k \notin set THEN set \cup {k + 1} ELSE set
    IN  FoldLeft(escapes, {}, [k \in 1 .. Len(src) - i + 1 |-> i + k - 1])

\* The closing quote of a literal whose text starts at i, or 0.
Close(src, i, quote) ==
    LET closes == {k \in i .. Len(src) : src[k] = quote} \ Escaped(src, i)
    IN  IF closes = {} THEN 0 ELSE CHOOSE k \in closes : \A l \in closes : k <= l

Escapes == [n |-> "\n", t |-> "\t", r |-> "\r"]

\* What an escape stands for; one that is not defined keeps its backslash.
Unescaped(ch) == IF ch \in DOMAIN Escapes THEN <<Escapes[ch]>>
                 ELSE IF ch \in {"\"", "'", "\\"} THEN <<ch>> ELSE <<"\\", ch>>

\* What one character of a literal's text adds to its value.
StringPiece(src, i, escaped) ==
    IF i \in escaped THEN Unescaped(src[i])
    ELSE IF src[i] = "\\" \/ (src[i] = "\r" /\ Char(src, i + 1) = "\n") THEN <<>> ELSE <<src[i]>>

PatternPiece(src, i, escaped) ==
    IF i \in escaped THEN (IF src[i] = "\"" THEN <<"\"">> ELSE <<"\\", src[i]>>)
    ELSE IF src[i] = "\\" THEN <<>> ELSE <<src[i]>>

\* The literal from a quote to the one that closes it.
StringTo(s, open, close) ==
    LET escaped == Escaped(s.src, open + 1)
    IN  IF close = 0 THEN Refused(s, "unterminated string")
        ELSE Scanned(s, IF open > s.at THEN "FSTRING" ELSE "STRING",
                     FlattenSeq([k \in 1 .. close - open - 1 |-> StringPiece(s.src, open + k, escaped)]), close + 1)

ScanString(s) ==
    LET open == IF s.src[s.at] = "f" THEN s.at + 1 ELSE s.at IN StringTo(s, open, Close(s.src, open + 1, s.src[open]))

\* The letters after the closing quote are flags, each at most once.
WithFlags(s, token, flags) ==
    IF ToSet(flags) \subseteq {"i", "m"} /\ Len(flags) = Cardinality(ToSet(flags))
    THEN [token EXCEPT !.tokens[Len(token.tokens)].flags = ToSet(flags)]
    ELSE Refused(s, "bad pattern flag")

PatternTo(s, close, end) ==
    LET escaped == Escaped(s.src, s.at + 2)
        value   == FlattenSeq([k \in 1 .. close - s.at - 2 |-> PatternPiece(s.src, s.at + 1 + k, escaped)])
    IN  WithFlags(s, Scanned(s, "PATTERN", value, end), SubSeq(s.src, close + 1, end - 1))

ScanPattern(s) ==
    LET close == Close(s.src, s.at + 2, "\"")
    IN  IF close = 0 THEN Refused(s, "unterminated pattern") ELSE PatternTo(s, close, EndOf(s.src, close + 1, AlphaNum))

ScanNumber(s) ==
    LET whole == EndOf(s.src, s.at, Digit)
        end   == IF Char(s.src, whole) = "." /\ Char(s.src, whole + 1) \in Digit
                 THEN EndOf(s.src, whole + 1, Digit) ELSE whole
    IN  Scanned(s, "NUMBER", SubSeq(s.src, s.at, end - 1), end)

ScanIdentifier(s) ==
    LET end == EndOf(s.src, s.at, AlphaNum) IN Scanned(s, "WORD", SubSeq(s.src, s.at, end - 1), end)

ScanOperator(s) ==
    LET ch   == s.src[s.at]
        pair == <<ch, Char(s.src, s.at + 1)>>
    IN  IF pair \in DOMAIN Double THEN Scanned(s, Double[pair], <<>>, s.at + 2)
        ELSE IF ch \in Single \cup {">", "<", "*"} THEN Scanned(s, ch, <<>>, s.at + 1)
        ELSE Refused(s, "unexpected character")

ScanToken(s) ==
    LET ch == s.src[s.at]
        next == Char(s.src, s.at + 1)
    IN  CASE ch = "\n" -> [s EXCEPT !.statementEnd = s.at, !.at = @ + 1, !.lineStart = TRUE, !.pending = TRUE]
          [] CommentAhead(s.src, s.at) ->
                IF CommentEnd(s.src, s.at) = 0 THEN Refused(s, "bad comment")
                ELSE [s EXCEPT !.at = CommentEnd(s.src, s.at), !.space = TRUE]
          [] ch \in {"\"", "'"} \/ (ch = "f" /\ next = "\"") -> ScanString(s)
          [] ch = "p" /\ next = "\"" -> ScanPattern(s)
          [] ch \in Digit -> ScanNumber(s)
          [] ch \in Alpha /\ ~CommentAhead(s.src, s.at) /\ ~(ch \in {"f", "p"} /\ next = "\"") -> ScanIdentifier(s)
          [] OTHER -> ScanOperator(s)

InLine(s) ==
    LET at == EndOf(s.src, s.at, Space)
    IN  IF at > s.at THEN [s EXCEPT !.at = at, !.space = TRUE] ELSE ScanToken(s)

\* What is left to say at the end of the text: the last statement ends and every level closes.
EndSource(s) ==
    LET eof     == IF s.pending THEN s.statementEnd ELSE s.at
        newline == IF s.pending \/ (s.tokens # <<>> /\ Last(s.tokens).t # "NEWLINE")
                   THEN <<Token("NEWLINE", <<>>, eof, FALSE)>> ELSE <<>>
    IN  [s EXCEPT !.tokens = @ \o newline \o Dedents(Len(s.indents) - 1, eof)
                               \o <<Token("EOF", <<>>, eof, FALSE)>>,
                  !.indents = <<0>>, !.state = "done"]

ScanStep(s) == IF AtEnd(s) THEN EndSource(s) ELSE IF s.lineStart THEN StartLine(s) ELSE InLine(s)

(***************************************************************************)
(* The lexer: no space before a colon, and words that are keywords.        *)
(***************************************************************************)
ColonsOk(tokens) == \A i \in DOMAIN tokens : tokens[i].t = ":" => ~tokens[i].space

Classified(token) ==
    IF token.t # "WORD" THEN token
    ELSE [token EXCEPT !.t = IF Len(token.v) = 1 /\ token.v[1] \in Keywords THEN token.v[1] ELSE "IDENTIFIER"]

Lex(tokens) == [i \in DOMAIN tokens |-> Classified(tokens[i])]
=============================================================================
