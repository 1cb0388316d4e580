# CuffScript in TLA+

Specifications of the core of CuffScript: its front end (tokenizer, lexer, parser), the evaluator's control (calls,
errors that unwind them, module loading, the async queue), its variables and classes, its regular expressions, the
representation of map values, the HTTP client against an arbitrary server, the line editor, and the shell's ownership
of the terminal under signals. Each is model-checked with TLC on small instances; the safety invariants of all of them but the
front end and the regular expressions, and all four refinements, are also proved with TLAPS for every value of the constants (section 4).

## 1. The system and its parts

CuffScript is an interpreter (`engine/`), with a command `cuffc` (`main.cpp`), an interactive shell
`cuffsh` (`cli/`), a WebAssembly binding and an npm package. One run goes through the tokenizer, the
lexer, the parser, and `Interpreter`, which walks the tree. A `Session` keeps one interpreter alive over
several runs; the shell is a long session.

| Part | State it keeps | Operations | What is hard about it | What makes it correct |
|---|---|---|---|---|
| Evaluator control (`interpreter/Interpreter.h`, `Session.h`) | call depth, flags of the running function, import marks and depth, step budget, queue | run, call, method, object creation, `or_else`, loop, `use`, reset | an exception may leave through any nest of frames; the session goes on afterwards | every frame puts back what it set; nothing of a run reaches the next; a budget cannot be caught |
| Async queue (same file) | `taskQueue_` | queue, drain | drained at the end of *every* program, a module's too; a task may queue, load and fail | each queued call starts once, in order; none survives a failed run |
| Values (`interpreter/Value.h`) | reference-counted lists, maps, objects | map set, get, remove; copy on write | the index of a map is repaired in two ways | keys and positions are inverse; order of insertion |
| Variables (`interpreter/Environment.h`, `common/NameInterner.h`) | scopes as lists with an index, pooled storage, pointers to slots | declare, change, resolve, `global`, `with`, `use`, `or_else` | a scope changes its representation as it grows; a slot is written to after code has run in between; errors drop scopes | the nearest visible declaration is found, and is still there when it is written to |
| Classes (`ClassModel.h`, `buildClass`) | class table by name, every version ever built | declare, inherit, replace in a later run | a text fails half-way; a class replaces one that others extend | every class is well formed; one namespace; limits |
| Parser (`parser/`) | position, nesting, what the surroundings allow | one function per construct | nesting limits that unwind with exceptions; context saved and restored; parsers inside f-strings | what is read is what was written; nothing outside its place; work and depth bounded |
| Tokenizer, lexer (`tokenizer/`, `lexer/`) | position, indent stack, tokens | scan | blank lines, comments, line ends, escapes | layout does not change the program |
| Regular expressions (`regex/`) | backtracking stack, captures, two budgets, cache of patterns | parse, match, find, replace, split, count | captures restored on the way back; empty matches; exponential patterns | the preferred match with its captures; nothing of the text is lost; budgets hold |
| Libraries (`dlc/`) | mostly none | functions on values | JSON nesting, limits of sizes | results within limits |
| HTTP client (`net/HttpClient.h`, `dlc/NetworkDLC.h`) | one request | get, post | a server may send anything, slowly, or nothing | time, memory, sockets and redirects are bounded |
| Line editor (`cli/LineEditor.h`) | text, cursor, history, raw mode | one per key | escape sequences cut by time, paste without an end | what is submitted is what was typed |
| Terminal, shell (`cli/Terminal.h`, `cli/Repl.h`) | terminal mode, flags read by signal handlers | raw on/off, run entry, handlers | handlers cut in between any two steps | the terminal is given back |
| Platform, bindings, reports | none of their own | wrappers, formatting | | |

They interact by calls on one thread. The only callbacks are `display` (printing an object runs its
`to_str`), the signal handlers, and the evaluation of module files from inside an evaluation. An f-string calls the
tokenizer, the lexer and the parser from inside the parser. The stack of the thread is shared by all of them, so
parser, matcher and evaluator each keep a depth of their own (native stack addresses are abstracted to those depths).

## 2. Modules

| Module | Models | Notes |
|---|---|---|
| `Interpreter` | `Interpreter.h` control, `Session.h` | the core; `stack` is the C++ stack, one frame per construct that undoes or catches |
| `AsyncTasks` | (abstract) | what the async queue promises, without stacks or modules |
| `InterpreterProofs` | | the inductive invariant and the theorems about `Interpreter`; the accounts of the async queue, and that `Interpreter` implements `AsyncTasks` |
| `ShellTerminal` | `Terminal.h`, `LineEditor.h` raw mode, `Repl.h` | main thread and nested handlers as one thread of steps |
| `HttpClient` | `HttpClient.h` | client against every server |
| `ValueMap` | `ValueMap` of `Value.h` | representation with both repairs of the index |
| `OrderedMap` | (abstract) | what a map promises; `ValueMap` implements it |
| `ValueMapProofs` | | the index is right and the map an `OrderedMap`, for every walk factor |
| `KeyDecoder` | `LineEditor.h`, bytes to keys (POSIX) | the probe of the terminal, timeouts, paste |
| `LineBuffer` | `LineEditor.h`, text and cursor | one action per editing key |
| `TextCursor` | (abstract) | text as characters; `LineBuffer` implements it |
| `LineHistory` | `LineEditor.h`, history and draft | entries as a few texts |
| `RegexChars` | `RegexAst.h`, `RegexMatcher.h` | characters, classes, marks and presets: what one leaf of a pattern matches at a place |
| `RegexParser` | `RegexParser.h` | a pattern becomes a tree or an error |
| `RegexMatcher` | `RegexMatcher.h` | the backtracking search, one call or return per step |
| `RegexEngine` | `RegexEngine.h`, the pattern functions of `NativeFunctions.h` | cache, `matches`, `find`, `find_all`, `replace`, `replace_all`, `split`, `count` |
| `RegexSemantics` | (reference) | the ways a tree matches, by recursion over the tree; printing a tree |
| `Tokenizer` | `tokenizer/`, `lexer/` | characters to tokens, one turn of the loop of `tokenize` per step |
| `ExpressionParser` | `ParserCore.h`, `ExpressionParser.h`, `LiteralParser.h` | expressions, f-strings, the two depth limits |
| `StatementParser` | the other files of `parser/` | statements, bodies, what each body allows |
| `FrontEnd` | `ParseProgram.h`, `Parser.h` | the chain, one top-level statement per step; the first error ends it |
| `SourceWriter` | (reference) | writing a tree out, where words may stand, nesting, blank lines |
| `Environment` | `Environment.h` and the statements of `Interpreter.h` that use it | the stack of environments, the pool, pending assignments and handlers |
| `Scopes` | (abstract) | what the language promises about names; `Environment` implements it |
| `ClassTable` | `registerClasses`, `buildClass`, `registerFunction`, `ClassModel.h` | loading texts as runs and as modules |
| `ShellTerminalProofs`, `HttpClientProofs`, `KeyDecoderProofs`, `LineEditorProofs`, `DeclarationProofs` | | the theorems about the module each is named for (`LineEditorProofs`: `LineBuffer` and `LineHistory`; `DeclarationProofs`: `Environment` and `ClassTable`) |
| `SequenceLemmas` | | least and greatest members, ends of sequences, what a fold over a sequence computes element by element: what several proofs cite |
| `MC...` | | instances for TLC; `MCTables` has `Environment`, `ClassTable` and `ValueMap`, `MCFrontEnd` the front end |

### Interpreter

A program is not written down. Every frame may run any statement next, so a behaviour of the module is a
run of *some* program, and an invariant holds for all programs within the bounds. `mode = "raising"` is
C++ unwinding; each destructor on the way out is an action (`UnwindCall` is `~FrameGuard`,
`UnwindDefaults` is `~DefaultValueScope`, `UnwindModule` is `~ImportMark` and `~ImportDepthGuard`), the
`catch` of `execOrElse` is `Catch`/`PassGuard`, and the `catch (...)` of `run` is `AbortRun`.

`context` stands for `inFunctionBody_`, `currentFunctionPure_` and `currentOwner_`; `currentSelf_` is set
and restored with the owner and is not told apart. A declaration is abstracted to its purity and the
class that wrote it. Loops of a body are `LoopPass`; a body without a loop is a body that takes no pass.
`todo` bounds the statements between two passes (the text of a program is finite); without a step limit
a program may loop for ever, and so may the model.

`Raise` stands for every error a statement or an expression can raise that is not a limit modelled here:
type errors, missing module files, `fail`, the native stack, the time limit (fatal), `std::bad_alloc`
(fatal). `Reset` is `:reset` of the shell.

### ShellTerminal

`pc` is the next step of the main thread, `frames` the handlers on top of it. A signal is delivered
between any two steps; `sigaction` with an empty mask blocks only the signal itself, so handlers of
different signals nest. `Deliver`, `SendInterrupt` and `SendFatal` are the kernel and the user (external).
`signal(sig, SIG_DFL); raise(sig)` inside the handler leaves the signal pending until the handler returns.
The Windows branches are not modelled.

### The line editor

`KeyDecoder`, `LineBuffer` and `LineHistory` meet only in the key `nextKey` returns and the entry that is
submitted; `MCLineEditor` explores each alone, in one run.

In `KeyDecoder` one action is one answer of `readByte`, a byte (`ReadByte`) or none (`NoByte`: the timeout of
the call, or the end of input), and `at` is the call that waits. `line` is what the terminal has sent and the editor
has not read. `late` records that bytes were given up on while they were on their way, that the mark ending a paste
was lost, or that something followed an Escape which was not decoded yet: an Escape followed within 100 ms is Alt by
the protocol, and one that waits in the stash of the probe is followed at once when it is replayed. The same happens
to an answer of the terminal that comes right behind an Escape: it is then not recognised, and its bytes become text.
`dropped` records that a new entry cleared bytes that had been read ahead. What arrives while an entry runs belongs
to the running program and is not modelled, nor are the parameters of control sequences beyond those the editor uses.
`KeysAssumption` says which input `KeysInOrder` is about: not the keys that leave parts of themselves in the entry (`altUp`,
`consoleF1`, section 5), and no paste in which a carriage return followed by a line feed stands for two line ends, as
those are the bytes of one.

`LineBuffer` tells bytes apart as the keys do: a letter, a space, a line end, and a wide character of several bytes.
It includes the column arithmetic of moving between lines. Up and Down at the first and the last line belong to
`LineHistory`, in which an entry changes as a whole.

### HttpClient

The bytes of a response are line ends or others; what a line *says* is chosen freely. Time passes only in
calls that block, at least one unit each and at most their timeout. `SO_RCVTIMEO` and `SO_SNDTIMEO` are the
total timeout, so one call may block for as long again after the deadline was last looked at; that is why
the bound of `ElapsedBounded` is what it is, and not the "in all" of `docs/reference/limits.md`: the deadline is checked
between calls, and neither `getaddrinfo` nor `connect` looks at it. The constant `LineCap` stands for the
caps 8, 64 and 16384 of `readLine`.

Every header line with a colon is kept (`headers` counts their bytes), and none of them is counted in `maxResponseBytes`:
what bounds them is only the deadline, since a call of `recv` takes at least a unit of time and brings at most `ReadChunk` bytes. So
`HeldBounded` has two bounds: a fixed one for the body and what is read ahead of it, and one for the header lines that grows with
the deadline. The unit of time is the least a call of `recv` takes; nothing in the code makes it long.

Two facts that the model makes visible: the error "too many redirects" (`HttpClient.h:646`) cannot be reached, as the
last redirect is returned instead; and a chunk size that is not a number ends the body.

### ValueMap

`index` is a function from keys to positions; `Rewritten` and `Walked` are the two ways `remove` repairs it,
chosen by `WalkFactor` (8 in the code). Keys are model values: nothing depends on their text.

### Regular expressions

A pattern and a text are sequences of bytes, most of them one letter; the two bytes of one wide character, a tail
byte alone, and the characters that mean something in a pattern are all there is. `RegexParser` is a function from a
pattern to a tree (`[ok, root, groups]`). The matcher of the code is a recursion through closures: a node is matched
and then calls what follows it. `RegexMatcher` makes that recursion explicit: `at` is what happens next (`MatchNode`
is called, a continuation is called, false is returned), `frames` is the C++ stack of the calls that
have something to do when they fail: a choice to try next, captures to put back (`Restored`), a depth guard to
release. `steps` and `depth` are the two budgets. `OutOfTime` is the deadline, looked at every `ClockPeriod` steps, and may strike at any look.
`RegexEngine` puts the operations on top, which start one search after another and step over empty
matches (`Stepped`). Parsing a pattern is one step of the engine.

`RegexSemantics` defines the same without machine: the list of all ways a tree matches, preferred first. A way holds
its captures, so nothing is restored there, and that is what `MatchesAsMeant` compares with. All the matches of a text are,
there, one match after another, the next from where the last ended, and from the next *character* on if it was empty. The code
goes on at the next byte, and `split` searches without the flags of its pattern (`KeepsFlags`). In those two kinds of calls the code
does not do what is meant, and `MatchesAsMeant` and `TextKept` name them and leave them out (`SplitsCharacter`: an empty match
right before a wide character, in an operation on all matches; `DropsFlags`); `doc_characters` shows the first (section 5).

### The front end

A source is a sequence of characters, keywords and identifiers standing for one character each; `scan`, `tokens` and
`parser` are the tokenizer, its tokens and `ParserCore`. `Tokenizer` is a machine, as its state lives from line to
line. The parser is recursive descent over an immutable list of tokens; it is written as operators that take a place
and give a tree and a place, or an error (`Got`, `Fail`); what `ParserCore` keeps in members (the depth, whether
`self` or `.name` may be used) is the first argument, so that saving and restoring it is passing another one.
`FunctionContext` is where the code does it with a guard. `TooDeep` stands for both limits: `kMaxParseDepth` scopes,
and the floor of the native stack, counted in levels of the recursion. `FString` cuts a string into parts and runs the
whole chain on each, as the code does, with the table of places that the code builds from the token (`Offsets`,
`PlaceOf`).

`SourceWriter` writes a tree out in a layout: line ends, indentation, comments and blank lines between lines, line breaks in brackets,
quotes, bodies on one line. It writes the fewest parentheses the operators need.

Whether a pattern literal is well formed is checked while the program is parsed; in the model that check is the
regular expressions' part, and `FrontEnd` takes every pattern.

### Variables and classes

`envs` is the C++ stack of `Environment` objects. `vars` is the append-only list, `index` the map that appears when
it has grown to `IndexThreshold`, `pool` is `envVarsPool_`. `evaluating` holds the `change` statements that have found
the slot of their variable (a level, a position and the length of the list then) and are evaluating the value, which
may call functions, load modules and fail; `handlers` the `or_else` statements in progress. While either awaits a
value nothing else of the same scope runs (`Idle`), but everything in new scopes does. An error goes to the
innermost handler (`Handle`) or ends the run (`Abort`), and the storage of the calls on the way is released to the
pool, innermost first, as their destructors do.
`IsScopes` maps a list to the function from names to values it represents.

In `ClassTable` a text is a list of functions and a list of classes, loaded as one step, as nothing runs in between.
Every `ClassInfo` that was built stays, as objects and children point at it. `Build` and `BuildClass` follow
`buildClass`: parents first, wherever written, each class complete before the next, and stopping at the first error.
Names of classes, names of variables and keys of maps never meet, so `MCTables` explores each alone, in one run.

## 3. Runs

| Run | Instance | Shows |
|---|---|---|
| `programs` | 2 modules, 1 class, 4 steps, depth 3, 5 frames, queue of 1 | types; flags and depths agree with the frames; a finished run leaves nothing; the budget is final; `RunEnds` under fairness |
| `tasks` | 2 modules (symmetric), 3 tasks, queue of 2, no step limit | import marks; every task accounted for; the queue implements `AsyncTasks` |
| `signals` | one SIGINT, one of each fatal signal at a time | the terminal is normal while an entry runs and after a plain exit; Kitty levels balance; one kill restores the mode; a fatal signal ends the process |
| `requests` | deadline 6, body limit 5, 2 redirects, 2 addresses | time and sockets stay bounded, the body and what is read ahead of it within the limit, header lines within what the deadline lets in; a request ends |
| `editor` | 2 keys or pastes of 10 and 3 kinds, one slow read; texts of 6 bytes, a wide character of 3; 2 entries, history of 3 | keys arrive once and in order; paste mode ends; a lost terminal ends the editor; the cursor stays on a character and the text is a `TextCursor`; draft and history are kept |
| `regex` | all patterns of 4 of 14 characters, all trees of 2 counted leaves or 2 nested groups; 7 operations on 19 patterns, and nested repeated captures, on texts of up to 4 bytes | what the parser reads means what is written; matches and captures are those of `RegexSemantics`, but for the two kinds of calls named in section 2; `replace` and `split` keep the text; budgets hold; every operation ends |
| `source` | trees of 2 levels of operators and of 2 nested bodies in 4 layouts; all short texts over the characters and words that give structure, and towers over the limits | what is read is what was written; context words only in their places; names placed where they stand; blank lines ignored; nesting and work bounded |
| `tables` | 2 names, one of them a constant's, functions of one parameter, 2 values, 3 scopes, 3 variables, index from 2; 2 of 600 texts over 3 classes; 4 keys, 2 values, factor 1 | the slot of an assignment stays; lists, index and pool implement `Scopes`; the class table is coherent after every load; the index of a map is the inverse of its order, and a map is an `OrderedMap` |
| `doc_purity`, `doc_blank_lines`, `doc_members`, `doc_characters` | as `tasks`, `source`, `tables` (classes), `regex` | statements of the documentation and the comments that the code does not keep (section 5) |

Why the bounds are enough. In `Interpreter` what an action reads of the stack is its innermost frame and
what it changes is that frame and one above it, so a disagreement shows at depth three: a frame, one that is
unwound, and one that survives; the instances have five. Two modules make an import inside an import, a
cycle, and a retry. A queue of two with three tasks gives a full queue, an order to get wrong, and a task
queued by a task. Four steps of budget reach the limit in each of the three places that spend one. Maps of
four keys with a factor of 1 take both repairs with keys before, at and behind the removed one. A body limit of
five with lines of two and reads of three fills each buffer over its cap. The proofs lift these bounds for the
theorems of section 4. `tasks` uses symmetry in the modules; it has no liveness property.
`programs` and `requests` check liveness and use none.

Two keys put one of any kind in any phase of the decoding of any other, in the probe, across the end of an entry, and
in and behind a paste. Six bytes hold two wide characters, or two lines with one.

A pattern of four characters reaches every error of the parser that is not about counts or class names, and those are
listed (`LongStrings`). Three levels of nested, repeated captures with two texts over two letters make every capture
be set, overwritten and put back. `StepLimit` and `DepthLimit` are small enough to be reached by some of the
patterns and large enough for the others to be answered, and `ClockPeriod` is below `StepLimit`, as 4096 is below 200000, so
that the clock is read within one attempt. `TooDeep` stands for the depth of 3000 and for the floor of the native stack.

`MaxParseDepth = 6` (scopes) below `StackLevels = 10` (levels of recursion) keeps the order the two limits have in the code, so that
brackets meet the first and calls, which open no scope, the second. `MaxSource = 400` is above every text but
the one made to exceed it. Trees have two operators because precedence and associativity are about two neighbours.

In `tables` a call inside an assignment inside a block is three scopes. Two variables make the index appear, a
third is found in it; the pool holds one list, so both kinds of call occur, and what it holds counts to the three.
`Given` and `Assigned` have one value each, told apart by `IsScopes`; `Empty` is the given one, so a
handler's binding is told from the assigned one only. The branch of `Indexed` that adds a *new* name to an index is
not reached with two names. Two texts are a run and its successor or a module; a child, its parent and
a replacement of the parent fit.

`CHECK_DEADLOCK FALSE` is used where a system really stops: a process that has ended, an editor whose user has sent
all they send, an operation that has answered, a text that is read, and, in `tables`, a class table that has loaded its two texts.

Fairness. `Interpreter!FairSpec` is weak fairness of `Step`: the thread that called `run` executes until it
returns; nothing makes a session start another run. `RunEnds` holds with a step limit only: the limit is what
bounds a run. `HttpClient!FairSpec` is weak fairness of `Working`: each blocking call has a timeout, so the
thread always gets on; nothing is assumed of the server. `ShellTerminal!FairSpec` is weak fairness of
`Handling` only: pending signals are delivered and handlers executed by the kernel's scheduling; that an entry ends
or that the user types is not assumed. `MCLineEditor!Spec` is weak fairness of `Decode`: what can be read is read, and `poll` returns at the end
of its timeout; nothing is assumed of the user, the terminal or the connection.
`MCRegex!Spec` is weak fairness of the steps after a pattern has been compiled: they are one call of a native function.
The front end needs none, as `WorkBounded` bounds the steps of every text, nor do `Environment` and `ClassTable`, whose
properties are safety.

Each property of a passing run has a mutant in `PROJECT.json`: a definition written as a plausible bug would
change it, next to the one it mutates, with which the property fails.

## 4. Proofs

Each theorem is about the specification of its module for every value of the constants.

| Module | Theorem | States |
|---|---|---|
| `InterpreterProofs` | `TypeCorrect`, `FlagsCorrect`, `DepthsCorrect`, `MarksCorrect`, `BudgetCorrect`, `Quiescence` | `TypeOK`, `ContextMatchesStack`, `DepthsMatchStack`, `MarksMatchStack`, `BudgetIsFinal`, `QuiescentWhenIdle` |
| | `TasksCorrect`, `PromiseKept` | `TasksAccountedFor`; `Interpreter` implements `AsyncTasks` (`KeepsAsyncPromise`) |
| `ValueMapProofs` | `IndexCorrect`, `MapRefines` | `IndexIsInverse`; `ValueMap` implements `OrderedMap` (`IsOrderedMap`) |
| `ShellTerminalProofs` | `NormalModeCorrect`, `KittyCorrect`, `OneKillCorrect`, `DoomedStaysStopped` | `RunsInNormalMode`, `KittyBalanced`, `OneKillRestoresMode`; an action property no run checks |
| `HttpClientProofs` | `TimeBounded`, `SpaceBounded`, `SocketsCorrect` | `ElapsedBounded`, `HeldBounded`, `SocketsClosed` |
| `KeyDecoderProofs` | `KeysCorrect` | `KeysInOrder` |
| `LineEditorProofs` | `CursorCorrect`, `DraftCorrect`, `HistoryCorrect` | `CursorOnBoundary`, `DraftKept`, `HistoryFaithful` |
| | `TextKeyed` | `LineBuffer` implements `TextCursor` (`IsTextCursor`) |
| `DeclarationProofs` | `SlotsCorrect`, `KeepsScopes` | `SlotsStay`; `Environment` implements `Scopes` (`IsScopes`) |
| | `ClassesCorrect` | `ClassesCoherent` |

`ShellTerminalProofs` and `HttpClientProofs` also prove the type invariants of their modules, which no run lists.

Assumptions. Limits and bounds are natural numbers, positive where the code divides by them or needs room
(`BoundsAssumption`, `LimitsAssumption`, `InterruptsAssumption`, `WalkAssumption`, `BufferSizeAssumption`,
`HistorySizeAssumption`); a line and a read are no longer than a body may be (`BufferAssumption`); the values for "no module",
"no class" and "no entry" are not among the modules, classes and entries (`NamesAssumption`, `HistorySizeAssumption`); a
function has finitely many parameters, which are names (`SignaturesAssumption`); keys and pastes are those of section 2
(`KeysAssumption`); the texts that are loaded are finite lists of names, and the built-in class is well formed and its name is taken by no other
(`ClassesAssumption`). TLC evaluates all of them.

**The evaluator.** None of the properties is inductive by itself. `ContextMatchesStack` says what the flags are *now*; when a
frame is popped they become what it saved, so `FlagsMatch` adds that what each frame has saved agrees with the
frames below it (`SavedMatches`). `~DefaultValueScope` restores two of the three flags and leaves purity: `AgreesRestored` shows
that this is right because defaults cannot change purity except through calls that restore it. `Shape` adds
that only the outermost frame is a program's and that only programs and modules drain. The proof reduces
every action to one of a few moves of the stack (`Moves`: nothing, pop, push, swap, and their variants with
what they do to flags, depths and marks) and then shows for each part of the invariant that every move keeps
it (`FlagsStep`, `CountsStep`, `MarksStep`, `BudgetStep`, `QueueStep`, `HistoryStep`). `Invariance` puts them
together; the named theorems follow from it.

**The async queue.** The calls that are running are a function of the stack, so the same moves are reduced once more: those
that keep `callDepth` keep the running calls (`QuietMove`), and every step is one of a few moves of the tasks
(`TaskMove`: a task joins, starts, is refused, finishes or fails, a run begins, ends or is aborted). The accounts are kept
move by move, and each move is a step of `AsyncTasks` under the mapping, or none (`PromiseStep`).

**Maps.** `IndexIsInverse` is inductive as it stands; the cases are overwrite, insert and remove, the last with one lemma
on removing an element of a sequence and both repairs of the index. For the refinement the map is read as its pairs in
order: as the index is right, each operation changes the pair that `OrderedMap` says.

**The terminal.** A fatal handler that has looked at `g_rawActive` dooms the process: its signal stays pending with the
default action until it ends the process (`Fate`), and the main thread never steps again (`DoomedStaysStopped`). Hence
the main thread only steps in a state that no handler has touched, where the terminal is what `pc` says
(`Ownership`, `ModeByStep`), and at most one handler restores (`Restoring`). `Causes` relates how the process ended to the
signals sent, which is what "one kill" is about.

**The HTTP client.** Only a step that has looked at the deadline goes on reading, so the clock is below two deadlines
wherever a response is read or a redirect followed, and each address not yet tried holds its connection timeout in reserve
(`TimeKept`). What is pending is bounded by what the step waits for (`SpaceKept`). The header lines kept and what is pending came
out of one call of `recv` each unit of time since the response began (`HeadersKept`), and none of those calls began behind the deadline. A socket is held exactly in the steps
between connecting and finishing (`SocketHeld`).

**The line editor.** `CursorOnBoundary` is inductive, but says nothing of what the editing keys compute. The text is
`Whole` (each wide character has all its bytes) and a `Cut` is a place between characters; the proof shows that every
search of the editor (the character before, a word, a line, a column) ends at a cut, and that cutting and joining whole
texts at cuts gives whole texts. `DraftKept` and `HistoryFaithful` are inductive together.

`TextCursor` reads the text as the characters that its bytes begin: all bytes but the later ones of a wide character. The
mapping is a fold over the bytes, which is taken apart at a cut into what is before and behind it; at a cut the
number of characters before the cursor is what `TextCursor` keeps as its position. Each editing key removes or inserts a piece
between two cuts, and the lemmas on searches say which characters that piece is.

**The keys.** The decoder is read as an automaton that takes one byte at a time (`Decoder` of `KeyDecoderProofs`; `Phase` is where the
model is in it). The invariant `KeysInv`: what has been decoded, followed by what the automaton makes of
all bytes that are still somewhere, is what was pressed and pasted. Those bytes are, in the order in which `readByte` will
hand them out, the stash of the probe, what the probe holds of an answer, what was put back, and what the terminal has sent
(`Rest`). A key adds its bytes at the far end, and from a settled phase the automaton reads one whole key, or a whole paste
(induction over its pieces), out of them. A byte that is read moves from one side to the other. An answer of the terminal, which
`probeKitty` takes out, means nothing to the automaton wherever it comes between keys. When no byte comes, the automaton is in a phase
where nothing is owed, or the byte was late. As long as nothing was late, lost or dropped, this gives `KeysInOrder`.

**Variables.** `IsScopes` and `SlotsStay` follow from one invariant. In one environment a name has one variable, and the
index knows each variable at its place (`Coherent`), so a search finds it by scan or by index (`Found`) and storing or declaring
a name changes what that name is bound to and nothing else (`Rebinds`); a list of declarations does what each of them does
(`Extends`, by induction over the fold), which is what a call needs for its parameters and `EndModule` for the variables it copies.
In the stack, statements in evaluation are in environments further and further in, and what each waits for is a call
(`Nesting`); the handlers of errors nest too (`HandlersNest`). So no action changes what a search sees from the environment of a
statement that stays in evaluation (`SlotsKept`): a call has an environment of its own, `global` changes one further in, a module
is loaded by a statement, and an error that goes further out takes the statement with it. Hence what the name of a
`change` denotes at the end is what was found at the start (`Pending`), and writing through the pointer is what the
language means by the assignment. `Located` is the lemma that the search of `execChange`, which looks for variables and
members apart, finds what the name denotes.

**Classes.** `ClassesCoherent` says what every class is, but a class is built from a table in the middle of a load. `Kept` is what holds of the
table there: every class is `WellFormed`, a load builds a name once (`Versions`), and `done` is what this load has built (`ThisLoad`). Building
one more keeps that (`BuildKeeps`): the checks of `buildClass` make the new class well formed, and those it extends do not change (`ClassStays`).
The child could extend an older version of a parent that the same text declares; that it does not needs the parent to be built first
(`Ready`), which holds along the lineage of a class read from the oldest on (`LineageIs`, `OldestFirst`, `BuildClassKeeps`). `Text` is what the
checks before the first class have made sure of; in it the count of classes and the names the text still adds to the table
stay below the limit together, so that the limit holds however far the load gets. The three folds of a load (functions, classes, a
lineage) are taken apart by `LeftFoldIs` and `AfterAlong`.

Induction is done by the least counterexample (`Least` of `SequenceLemmas`, from the well-foundedness of the
natural numbers), as the provers cannot instantiate an induction theorem. For the library's `FoldLeft` it is done once, in
`SequenceLemmas` (and, for a step that keeps no type, in `FoldExists` of `DeclarationProofs`): `LeftFoldIs` says that a fold over a sequence of typed elements is the run of a step function (`After`), and
`AfterPush`, `AfterConcat` and `AfterFirst` take such a run apart at either end or in the middle.

Model-checked only:

* every liveness property (`RunEnds`, `FatalSignalEnds`, `RequestEnds`, `PasteModeEnds`, `EndsWithTerminal`, `OperationEnds`):
  fairness and ENABLED are out of the prover's reach;
* the regular expressions, the parsers, the reference definitions and the printer (`regex`, `source`): RECURSIVE;
* `MembersApart` and the other statements of section 5, which do not hold.

## 5. Where documentation and code differ

Shown by a run:

* A pure function runs functions that are not pure by printing an object with `to_str` or by loading a
  module while calls are queued (`PureCallsOnlyPure`, `docs/reference/language.md:678`).
* A blank line that ends in CR LF closes every open indentation, so an indented program with Windows line ends and
  blank lines is refused (`CrlfBlankLinesIgnored`, `Tokenizer.h:32`, `docs/reference/language.md:82`).
* A child class may declare a field with the name of a method it inherits, and has both (`MembersApart`,
  `Interpreter.h:578`).
* After an empty match a search goes on one byte further, so that the next match may start inside a wide character: an empty pattern
  is counted three times on one character of two bytes, and `replace_all` tears the character apart (`CharactersWhole`,
  `RegexMatcher.h:66`, `docs/reference/patterns.md:144`, `674`, `732`).

Seen while modelling, described by the models and checked by no run of their own:

* `use` in the middle of a program drains the queue of that program (`docs/reference/language.md:662`). It follows
  that an error of a queued call can be caught by an `or_else` around the `use`, against line 665.
* A module loaded from inside a function has the flags of that function at its top level, so that a
  function declared in a block of the module fails with `E4-018` (line 605).
* A signal in one of two windows leaves the Kitty keyboard protocol pushed (`LineEditor.h:1047` and `1057`,
  `docs/reference/cuffsh.md:128`).
* A body cut short of its `Content-Length` is accepted (`docs/reference/dlc/network.md:51`).
* What is typed behind an Enter while the first entry probes the terminal is lost, though the code keeps keys pressed
  meanwhile (comments at `LineEditor.h:1074` and `1120`).
* Keys the editor does not use are not always swallowed whole: `ESC [ [ A` (F1 of the Linux console) and
  `ESC ESC [ A` (Alt+Up) leave characters in the entry (comment at `LineEditor.h:416`).
* `split` drops the flags of its pattern (`RegexEngine.h:179-183`, `NativeFunctions.h:115-121`), though they apply wherever the
  pattern is used (`docs/reference/patterns.md:687`).
* The lines of a response's header are not counted in its size (`HttpClient.h:418-432`, `docs/reference/limits.md:32`).
* A SIGTERM and a SIGHUP, one in the handler of the other, may end the shell in raw mode: the outer handler has claimed the
  restoring and the inner one ends the process before it is done (`Terminal.h:217`, `docs/reference/cuffsh.md:128`).
  `OneKillRestoresMode` is about one of them.
* `f"{ x }"`, with spaces inside the braces, is refused (`ExpressionParser.h:654`, `docs/reference/grammar.md:20`). A quoted string in the braces
  that contains a brace ends the part too early; a name in an f-string that holds a line end or a nested f-string may
  be reported at the f-string instead.
* Calls, indexes and arguments open no scope of `kMaxParseDepth` (`ExpressionParser.h:217-262`), so the nesting
  limit of `docs/reference/limits.md:16` is the native stack for them.
* Bodies that are not indented at all are accepted (`docs/reference/language.md:75`), a one-line `if x do: end` is
  refused (`BodyParser.h:22`), and text behind `endnote` on its line is read as code.

## 6. Not modelled, and the plan

Not modelled: formatting (error reports, tree printing, rendering of the editor), wrappers of the operating
system, the Windows console, the bindings, and library functions that are pure and short. `planStack` is arithmetic on
addresses with a test of its own. Interned names are one table behind a lock and stand for themselves here. The JSON library is
a recursive descent with one depth limit. Of the parser's limits, the height of one expression (`kMaxExprHeight`, `ASTNodes.h:318`) is left
out, as is the error for a number that is too large. Private members and the order in which the parts of an object are made are
not in `ClassTable`; the control of making one is in `Interpreter`.

Next:

* JSON nesting and the copy-on-write of lists; private members.
