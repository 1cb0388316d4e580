----------------------------- MODULE RegexEngine -----------------------------
(***************************************************************************)
(* The text functions of the language and the engine loops they run: one   *)
(* operation on one text with one pattern, from the pattern's characters   *)
(* to the answer.  A pattern is a literal, compiled with the program, or   *)
(* built by pattern() and kept in a cache of compiled patterns.            *)
(***************************************************************************)
EXTENDS RegexMatcher

CONSTANTS MaxPattern,     \* kMaxRegexPatternBytes
          MaxCache,       \* kMaxRegexCacheEntries
          MaxItems,       \* kMaxCollectionItems
          MaxString       \* kMaxStringBytes

ASSUME EngineLimits == /\ MaxPattern \in Nat /\ MaxCache \in Nat \ {0}
                       /\ MaxItems \in Nat /\ MaxString \in Nat

VARIABLES op,        \* the call: fn, pattern, text, ci, multiline, with, built
          cache,     \* cache_: compiled patterns by their text
          pos,       \* where the next search starts
          found,     \* the outcomes so far
          result,    \* replace: the text built so far
          pieces, segment

engineVars == <<op, cache, pos, found, result, pieces, segment>>
vars       == <<matchVars, engineVars>>

OneSearch == {"matches", "find", "match"}
Replacing == {"replace", "replace_all"}

Idle(call, known) ==
    /\ op = call /\ cache = known
    /\ pos = 0 /\ found = <<>> /\ result = <<>> /\ pieces = <<>> /\ segment = 0
    /\ matcher = [text |-> call.text] /\ at = Stopped("idle")
    /\ frames = <<>> /\ spans = <<>> /\ names = <<>>
    /\ steps = 0 /\ total = 0 /\ depth = 0 /\ start = 0

Compiled(pat) == IF Len(pat) > MaxPattern THEN Fail("RegexPatternTooComplex") ELSE Parse(pat)

Remember(pat, compiled) ==
    IF Cardinality(DOMAIN cache) >= MaxCache THEN pat :> compiled ELSE (pat :> compiled) @@ cache

\* split searches with flags of its own, none set, whatever flags the pattern has.
KeepsFlags == op.fn # "split"

Prepared(compiled) ==
    [root |-> compiled.root, groups |-> compiled.groups, text |-> op.text, ci |-> KeepsFlags /\ op.ci,
     multiline |-> KeepsFlags /\ op.multiline, full |-> op.fn = "matches"]

Use(compiled, hit) ==
    IF compiled.ok
    THEN /\ at' = Stopped("ready") /\ matcher' = Prepared(compiled)
         /\ cache' = IF op.built /\ ~hit THEN Remember(op.pattern, compiled) ELSE cache
    ELSE at' = Thrown(compiled.error) /\ UNCHANGED <<matcher, cache>>

CompilePattern ==
    /\ at.mode = "idle"
    /\ IF op.built /\ op.pattern \in DOMAIN cache THEN Use(cache[op.pattern], TRUE)
       ELSE Use(Compiled(op.pattern), FALSE)
    /\ UNCHANGED <<frames, captures, budget, depth, start, op, pos, found, result, pieces, segment>>

EngineThrow(error) == at' = Thrown(error) /\ UNCHANGED <<matcher, frames, captures, budget, depth, start>>

\* The loop condition of the operation.
MoreToSearch == /\ pos <= Size(matcher)
                /\ op.fn = "replace" => found = <<>>
                /\ op.fn \in OneSearch => found = <<>>

Search ==
    /\ at.mode = "ready" /\ MoreToSearch
    /\ StartMatcher(matcher, pos)
    /\ UNCHANGED engineVars

(***************************************************************************)
(* What the operation does with a match; an empty one moves it on by one.  *)
(***************************************************************************)
\* A mutant: the byte an empty match steps over is lost.
SteppedOver(out) == <<>>

Past(from, to) == IF to > from THEN to ELSE to + 1

Stepped(out) == IF out.from = out.to /\ out.to < Size(matcher) THEN <<At(matcher, out.to)>> ELSE <<>>

Replaced(out) == result \o Slice(matcher, [from |-> pos, to |-> out.from]) \o op.with

FoundMatch ==
    /\ at.mode = "matched"
    /\ LET out   == Outcome
           empty == out.from = out.to
       IN  IF op.fn \in {"find_all", "split"} /\ ~(op.fn = "split" /\ empty)
              /\ (IF op.fn = "split" THEN Len(pieces) ELSE Len(found)) >= MaxItems
           THEN EngineThrow("SizeLimitExceeded") /\ UNCHANGED <<found, result, pieces, segment, pos>>
           ELSE IF op.fn \in Replacing /\ Len(Replaced(out)) > MaxString
           THEN EngineThrow("SizeLimitExceeded") /\ UNCHANGED <<found, result, pieces, segment, pos>>
           ELSE /\ at' = Stopped("ready")
                /\ found' = Append(found, out)
                /\ pos' = Past(out.from, out.to)
                /\ result' = IF op.fn \in Replacing THEN Replaced(out) \o Stepped(out) ELSE result
                /\ pieces' = IF op.fn = "split" /\ ~empty
                             THEN Append(pieces, Slice(matcher, [from |-> segment, to |-> out.from]))
                             ELSE pieces
                /\ segment' = IF op.fn = "split" /\ ~empty THEN out.to ELSE segment
                /\ UNCHANGED <<matcher, frames, captures, budget, depth, start>>
    /\ UNCHANGED <<op, cache>>

Leftover(from) == IF from < Size(matcher) THEN Slice(matcher, [from |-> from, to |-> Size(matcher)]) ELSE <<>>

Answer ==
    /\ at.mode = "none" \/ (at.mode = "ready" /\ ~MoreToSearch)
    /\ at' = Stopped("answered")
    /\ result' = IF op.fn \in Replacing THEN result \o Leftover(pos) ELSE result
    /\ pieces' = IF op.fn = "split" THEN Append(pieces, Leftover(segment)) ELSE pieces
    /\ UNCHANGED <<matcher, frames, captures, budget, depth, start, op, cache, pos, found, segment>>

EngineNext == \/ MatchStep /\ UNCHANGED engineVars
              \/ CompilePattern \/ Search \/ FoundMatch \/ Answer
=============================================================================
