------------------------------- MODULE FrontEnd -------------------------------
(***************************************************************************)
(* From source text to a program, the chain every entry point of the       *)
(* engine goes through: the tokenizer, the lexer, and the parser one       *)
(* top-level statement at a time.  The first error ends it.                *)
(***************************************************************************)
EXTENDS StatementParser

CONSTANT MaxSource      \* kMaxSourceBytes, in characters

VARIABLES scan,         \* the tokenizer
          stage,        \* "scanning", "parsing", "parsed" or "refused"
          parser,       \* the context of the parser, none before there are tokens
          pos,          \* the parser's place in the tokens
          program,      \* the statements parsed so far
          error

frontVars == <<scan, stage, parser, pos, program, error>>

Begin(src) ==
    /\ scan = Scanner(src)
    /\ parser = Context(<<>>, src) /\ pos = 1 /\ program = <<>>
    /\ IF Len(src) > MaxSource THEN stage = "refused" /\ error = "SourceTooLarge"
       ELSE stage = "scanning" /\ error = "none"

Tokenize ==
    /\ stage = "scanning" /\ scan.state = "scanning"
    /\ scan' = ScanStep(scan)
    /\ UNCHANGED <<stage, parser, pos, program, error>>

RefuseText ==
    /\ stage = "scanning" /\ scan.state \notin {"scanning", "done"}
    /\ stage' = "refused" /\ error' = scan.state
    /\ UNCHANGED <<scan, parser, pos, program>>

LexTokens ==
    /\ stage = "scanning" /\ scan.state = "done"
    /\ IF ColonsOk(scan.tokens) THEN stage' = "parsing" /\ parser' = Context(Lex(scan.tokens), scan.src) /\ UNCHANGED error
       ELSE stage' = "refused" /\ error' = "space before ':'" /\ UNCHANGED parser
    /\ UNCHANGED <<scan, pos, program>>

\* A mutant: a statement that begins with a closing word is passed over in silence.
SkipClosers == IF T(parser, SkipNewlines(parser, pos)) \in {"end", "else"} THEN Got(<<>>, pos)
               ELSE Read(parser, pos, "Statement")

NextStatement == Read(parser, pos, "Statement")

ParseStatement ==
    /\ stage = "parsing" /\ T(parser, SkipNewlines(parser, pos)) # "EOF"
    /\ \E next \in {NextStatement} :
          IF next.ok THEN program' = program \o next.kids /\ pos' = next.p /\ UNCHANGED <<stage, error>>
          ELSE stage' = "refused" /\ error' = next.error /\ UNCHANGED <<program, pos>>
    /\ UNCHANGED <<scan, parser>>

EndProgram ==
    /\ stage = "parsing" /\ T(parser, SkipNewlines(parser, pos)) = "EOF"
    /\ stage' = "parsed" /\ pos' = SkipNewlines(parser, pos)
    /\ UNCHANGED <<scan, parser, program, error>>

FrontNext == Tokenize \/ RefuseText \/ LexTokens \/ ParseStatement \/ EndProgram
=============================================================================
