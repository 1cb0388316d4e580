----------------------------- MODULE RegexMatcher -----------------------------
(***************************************************************************)
(* The backtracking matcher.  The code passes the rest of the match down   *)
(* as a callable; here a continuation is the list of what is left to do,   *)
(* and `frames` are the activations of the code that wait for the answer   *)
(* of the match below them: the guard that gives a level of depth back,    *)
(* the group that restores its capture when the rest fails, and the choice *)
(* that has another way to try.                                            *)
(***************************************************************************)
EXTENDS RegexParser, TLC

CONSTANTS StepLimit,      \* RegexLimits::stepLimit, for one attempt
          DepthLimit,     \* RegexLimits::depthLimit
          ClockPeriod     \* ticks between two looks at the clock (4096)

ASSUME MatcherLimits == /\ StepLimit \in Nat \ {0} /\ DepthLimit \in Nat \ {0}
                        /\ ClockPeriod \in Nat \ {0}

VARIABLES matcher,    \* root_, groupCount_, ci_, multiline_, the text and whether all of it must match
          at,         \* the call the matcher makes next
          frames, spans, names, steps, total, depth, start

matchVars == <<matcher, at, frames, spans, names, steps, total, depth, start>>
budget    == <<steps, total>>
captures  == <<spans, names>>

NoSpan == [from |-> -1, to |-> -1]

(***************************************************************************)
(* The calls and the frames.                                               *)
(***************************************************************************)
MatchNode(node, pos, k) == [mode |-> "node", node |-> node, pos |-> pos, k |-> k]
MatchQuantified(node, pos, count, k) ==
    [mode |-> "quantified", node |-> node, pos |-> pos, count |-> count, k |-> k]
TryAlternatives(alts, pos, k) == [mode |-> "alternatives", rest |-> alts, pos |-> pos, k |-> k]
TryLengths(lens, pos, k)      == [mode |-> "lengths", rest |-> lens, pos |-> pos, k |-> k]
Continue(k, pos) == [mode |-> "continue", pos |-> pos, k |-> k]
Failing          == [mode |-> "fail"]
Stopped(why)     == [mode |-> why]
Thrown(error)    == [mode |-> "thrown", error |-> error]

Choice(other) == [frame |-> "choice", at |-> other]
Guard         == [frame |-> "guard"]

RestOf(nodes)            == [cont |-> "sequence", nodes |-> nodes]
CloseGroup(index, from)  == [cont |-> "group", index |-> index, from |-> from]
CloseNamed(name, from)   == [cont |-> "named", name |-> name, from |-> from]
Repeat(node, from, count) == [cont |-> "repeat", node |-> node, from |-> from, count |-> count]

(***************************************************************************)
(* tryMatchAt: everything but the ticks of earlier attempts is reset.      *)
(***************************************************************************)
Attempt(m, p) ==
    /\ at' = Continue(<<RestOf(m.root.children)>>, p)
    /\ frames' = <<>> /\ steps' = 0 /\ depth' = 0 /\ start' = p
    /\ spans' = [i \in 1 .. m.groups |-> NoSpan]
    /\ names' = <<>>

StartMatcher(m, p) == matcher' = m /\ total' = 0 /\ Attempt(m, p)

Ticking == \/ at.mode \in {"node", "quantified"}
           \/ at.mode \in {"alternatives", "lengths"} /\ at.rest # <<>>

\* A mutant: the limit is not looked at.
TickFreely == /\ steps' = steps + 1
              /\ total' = (total + 1) % ClockPeriod

Tick == /\ steps < StepLimit
        /\ steps' = steps + 1
        /\ total' = (total + 1) % ClockPeriod

Throw(error) == at' = Thrown(error) /\ UNCHANGED <<matcher, frames, captures, budget, depth, start>>

OutOfSteps == Ticking /\ steps = StepLimit /\ Throw("RegexStepLimitExceeded")

\* The clock is read on every ClockPeriod-th tick; by then the attempt, or the whole operation, may be late.
OutOfTime == /\ Ticking /\ steps < StepLimit /\ (total + 1) % ClockPeriod = 0
             /\ Throw("RegexTimeout")

TooDeep == /\ at.mode = "node" /\ steps < StepLimit /\ depth = DepthLimit
           /\ Throw("RegexRecursionLimitExceeded")

(***************************************************************************)
(* One node: what it matches by itself, or what it hands on.               *)
(***************************************************************************)
Enter(node, pos, k) ==
    CASE node.kind = "CharTest" ->
            LET len == CharTestLen(matcher, node, pos)
            IN  IF len > 0 THEN Continue(k, pos + len) ELSE Failing
      [] node.kind \in {"WordBoundary", "StartAnchor", "EndAnchor"} ->
            IF MarkHolds(matcher, node.kind, pos) THEN Continue(k, pos) ELSE Failing
      [] node.kind = "Preset"     -> TryLengths(PresetLengths(matcher, node.preset, pos), pos, k)
      [] node.kind = "OneOf"      -> TryAlternatives(node.alternatives, pos, k)
      [] node.kind = "Sequence"   -> Continue(<<RestOf(node.children)>> \o k, pos)
      [] node.kind = "Quantified" -> MatchQuantified(node, pos, 0, k)
      [] node.kind = "Group"      -> MatchNode(node.child, pos, <<CloseGroup(node.index, pos)>> \o k)
      [] node.kind = "NamedGroup" -> MatchNode(node.child, pos, <<CloseNamed(node.name, pos)>> \o k)

\* What a group keeps to put back when the rest of the match fails.
Saved(node) ==
    CASE node.kind = "Group" -> <<[frame |-> "group", index |-> node.index, saved |-> spans[node.index]]>>
      [] node.kind = "NamedGroup" ->
            <<[frame |-> "named", name |-> node.name,
               saved |-> IF node.name \in DOMAIN names THEN names[node.name] ELSE NoSpan]>>
      [] OTHER -> <<>>

EnterNode ==
    /\ at.mode = "node" /\ Tick /\ depth < DepthLimit
    /\ depth' = depth + 1
    /\ at' = Enter(at.node, at.pos, at.k)
    /\ frames' = Saved(at.node) \o <<Guard>> \o frames
    /\ UNCHANGED <<matcher, captures, start>>

(***************************************************************************)
(* Repetition: stop or go round again, in the order greed asks for.        *)
(***************************************************************************)
Ways(a) ==
    LET q    == a.node
        stop == IF a.count >= q.min THEN <<Continue(a.k, a.pos)>> ELSE <<>>
        more == IF q.max < 0 \/ a.count < q.max
                THEN <<MatchNode(q.child, a.pos, <<Repeat(q, a.pos, a.count)>> \o a.k)>> ELSE <<>>
    IN  IF q.lazy THEN stop \o more ELSE more \o stop

RepeatOrStop ==
    /\ at.mode = "quantified" /\ Tick
    /\ LET ways == Ways(at)
       IN  /\ at' = IF ways = <<>> THEN Failing ELSE ways[1]
           /\ frames' = IF Len(ways) = 2 THEN <<Choice(ways[2])>> \o frames ELSE frames
    /\ UNCHANGED <<matcher, captures, depth, start>>

(***************************************************************************)
(* [one:...] and the presets: the ways of a list, first to last.           *)
(***************************************************************************)
TryNext ==
    /\ at.mode \in {"alternatives", "lengths"} /\ at.rest # <<>> /\ Tick
    /\ LET fits  == at.mode = "lengths" \/ AlternativeFits(matcher, at.rest[1], at.pos)
           len   == IF at.mode = "lengths" THEN at.rest[1] ELSE Len(at.rest[1])
           other == [at EXCEPT !.rest = Tail(at.rest)]
       IN  /\ at' = IF fits THEN Continue(at.k, at.pos + len) ELSE other
           /\ frames' = IF fits THEN <<Choice(other)>> \o frames ELSE frames
    /\ UNCHANGED <<matcher, captures, depth, start>>

NoneLeft ==
    /\ at.mode \in {"alternatives", "lengths"} /\ at.rest = <<>>
    /\ at' = Failing
    /\ UNCHANGED <<matcher, frames, captures, budget, depth, start>>

(***************************************************************************)
(* The rest of the match is called with the place that was reached.        *)
(***************************************************************************)
\* A child that consumed nothing must not be repeated for ever.
ZeroWidth(c, pos) == pos = c.from /\ c.count >= c.node.min

CallContinuation ==
    /\ at.mode = "continue" /\ at.k # <<>>
    /\ LET c == at.k[1]
           k == Tail(at.k)
       IN  /\ at' = CASE c.cont = "sequence" /\ c.nodes # <<>> ->
                            MatchNode(c.nodes[1], at.pos, <<RestOf(Tail(c.nodes))>> \o k)
                      [] c.cont = "repeat" ->
                            IF ZeroWidth(c, at.pos) THEN Failing
                            ELSE MatchQuantified(c.node, at.pos, c.count + 1, k)
                      [] OTHER -> Continue(k, at.pos)
           /\ spans' = IF c.cont = "group"
                       THEN [spans EXCEPT ![c.index] = [from |-> c.from, to |-> at.pos]] ELSE spans
           /\ names' = IF c.cont = "named"
                       THEN (c.name :> [from |-> c.from, to |-> at.pos]) @@ names ELSE names
    /\ UNCHANGED <<matcher, frames, budget, depth, start>>

Finish ==
    /\ at.mode = "continue" /\ at.k = <<>>
    /\ IF matcher.full /\ at.pos # Size(matcher)
       THEN at' = Failing /\ UNCHANGED <<frames, depth>>
       ELSE at' = [mode |-> "matched", end |-> at.pos] /\ frames' = <<>> /\ depth' = 0
    /\ UNCHANGED <<matcher, captures, budget, start>>

(***************************************************************************)
(* false is returned to the innermost activation.                          *)
(***************************************************************************)
\* A mutant: a capture that did not exist before stays when the rest fails.
NotErased(f) == IF f.saved = NoSpan THEN names ELSE (f.name :> f.saved) @@ names

Restored(f) ==
    IF f.saved = NoSpan THEN [n \in DOMAIN names \ {f.name} |-> names[n]]
    ELSE (f.name :> f.saved) @@ names

ReturnFalse ==
    /\ at.mode = "fail" /\ frames # <<>>
    /\ LET f == frames[1]
       IN  /\ at' = IF f.frame = "choice" THEN f.at ELSE Failing
           /\ depth' = IF f.frame = "guard" THEN depth - 1 ELSE depth
           /\ spans' = IF f.frame = "group" THEN [spans EXCEPT ![f.index] = f.saved] ELSE spans
           /\ names' = IF f.frame = "named" THEN Restored(f) ELSE names
    /\ frames' = Tail(frames)
    /\ UNCHANGED <<matcher, budget, start>>

\* The attempt failed: search() goes on at the next character, fullMatch() does not.
NextAttempt ==
    /\ at.mode = "fail" /\ frames = <<>>
    /\ IF matcher.full \/ start >= Size(matcher) \/ start + CharLen(At(matcher, start)) > Size(matcher)
       THEN at' = Stopped("none") /\ UNCHANGED <<frames, captures, steps, depth, start>>
       ELSE Attempt(matcher, start + CharLen(At(matcher, start)))
    /\ UNCHANGED <<matcher, total>>

MatchStep == \/ OutOfSteps \/ OutOfTime \/ TooDeep \/ EnterNode \/ RepeatOrStop \/ TryNext \/ NoneLeft
             \/ CallContinuation \/ Finish \/ ReturnFalse \/ NextAttempt

\* The captures of a match, as tryMatchAt copies them out.
Outcome ==
    [from |-> start, to |-> at.end,
     positional |-> [i \in 1 .. matcher.groups |->
                        IF spans[i] = NoSpan THEN <<>> ELSE Slice(matcher, spans[i])],
     named |-> [n \in DOMAIN names |-> Slice(matcher, names[n])]]
=============================================================================
