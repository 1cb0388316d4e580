---------------------------- MODULE ShellTerminal ----------------------------
(***************************************************************************)
(* Who owns the terminal of cuffsh: the raw mode the line editor switches  *)
(* on for one entry (cli/LineEditor.h), the run of that entry              *)
(* (cli/Repl.h), and the signal handlers that may cut in between any two   *)
(* of their steps and end the process (cli/Terminal.h, POSIX).             *)
(*                                                                         *)
(* The main thread is `pc`, named after the step it takes next.  A handler *)
(* runs on the same thread: the handlers in progress are `frames`, the     *)
(* last one on top.  A signal that arrives is taken before the thread's    *)
(* next step unless its own handler is already in progress.                *)
(***************************************************************************)
EXTENDS Naturals, Sequences

CONSTANT MaxInterrupts  \* bound: SIGINTs sent to the process

ASSUME InterruptsAssumption == MaxInterrupts \in Nat

VARIABLES
    pc,             \* the next step of the main thread
    status,         \* how readEntry ended (EntryStatus)
    rawActive,      \* g_rawActive
    kittyActive,    \* g_kittyActive
    programRunning, \* g_programRunning
    probed,         \* kittyProbed_
    supported,      \* kittySupported_
    tty,            \* the terminal: input mode, bracketed paste, Kitty levels pushed
    handled,        \* signals whose disposition is the handler of Terminal.h
    frames,         \* handlers in progress
    pending,        \* signals sent or raised and not taken yet
    ended,          \* how the process ended, "no" while it lives
    interrupts,     \* history: SIGINTs sent
    kills           \* history: the other signals sent from outside

editor  == <<status, probed, supported>>
flags   == <<rawActive, kittyActive, programRunning>>
signals == <<handled, frames, pending>>
history == <<interrupts, kills>>
vars    == <<pc, editor, flags, tty, signals, ended, history>>

Fatal   == {"SIGTERM", "SIGHUP"}
Signals == Fatal \cup {"SIGINT"}

\* Raw input with the editor's keys requested, and the terminal as it was.
TtyState == [mode : {"cooked", "raw"}, paste : BOOLEAN, kitty : Nat]
Restored == [mode |-> "cooked", paste |-> FALSE, kitty |-> 0]

Steps == {"install", "prompt", "markRaw", "setRaw", "unmarkFailed", "pasteOn", "probe",
          "kittyPush", "markKitty", "editing", "takeKitty", "kittyPop", "pasteOff",
          "setCooked", "unmarkRaw", "simple", "dispatch", "start", "running", "stop"}

HandlerSteps == {"takeRaw", "takeKitty", "kittyPop", "pasteOff", "setCooked",
                 "setDefault", "raise", "return", "testRunning"}

InProgress(s)  == \E i \in 1..Len(frames) : frames[i].sig = s
Deliverable(s) == s \in pending /\ ~InProgress(s)
Undisturbed    == ended = "no" /\ \A s \in Signals : ~Deliverable(s)

Main(p)       == Undisturbed /\ frames = <<>> /\ pc = p
Top           == frames[Len(frames)]
Below         == SubSeq(frames, 1, Len(frames) - 1)
Handler(S, p) == Undisturbed /\ frames # <<>> /\ Top.sig \in S /\ Top.at = p
GoTo(p)       == frames' = Append(Below, [Top EXCEPT !.at = p])

-----------------------------------------------------------------------------
Init == /\ pc = "install"
        /\ status = "none"
        /\ rawActive = FALSE /\ kittyActive = FALSE /\ programRunning = FALSE
        /\ probed = FALSE /\ supported = FALSE
        /\ tty = Restored
        /\ handled = {} /\ frames = <<>> /\ pending = {}
        /\ ended = "no"
        /\ interrupts = 0 /\ kills = {}

\* Terminal::setup, and Repl::run up to its loop: the startup file runs first.
Install == /\ Main("install")
           /\ handled' = Signals
           /\ pc' \in {"start", "prompt"}
           /\ UNCHANGED <<editor, flags, tty, frames, pending, ended, history>>

-----------------------------------------------------------------------------
(* LineEditor::readEntry: enableRawMode, the editing loop, disableRawMode. *)

\* The mode in force is saved, unless this terminal cannot be edited on.
Prompt == /\ Main("prompt")
          /\ pc' \in {"markRaw", "simple"}
          /\ UNCHANGED <<editor, flags, tty, signals, ended, history>>

MarkRaw == /\ Main("markRaw")
           /\ rawActive' = TRUE
           /\ pc' = "setRaw"
           /\ UNCHANGED <<editor, kittyActive, programRunning, tty, signals, ended, history>>

SetRaw == /\ Main("setRaw")
          /\ \/ tty' = [tty EXCEPT !.mode = "raw"] /\ pc' = "pasteOn"
             \/ tty' = tty /\ pc' = "unmarkFailed"
          /\ UNCHANGED <<editor, flags, signals, ended, history>>

UnmarkFailed == /\ Main("unmarkFailed")
                /\ rawActive' = FALSE
                /\ pc' = "simple"
                /\ UNCHANGED <<editor, kittyActive, programRunning, tty, signals, ended, history>>

PasteOn == /\ Main("pasteOn")
           /\ tty' = [tty EXCEPT !.paste = TRUE]
           /\ pc' = "probe"
           /\ UNCHANGED <<editor, flags, signals, ended, history>>

\* probeKitty asks the terminal once in the life of the shell.
Probe == /\ Main("probe")
         /\ probed' = TRUE
         /\ supported' \in IF probed THEN {supported} ELSE BOOLEAN
         /\ pc' = IF supported' THEN "kittyPush" ELSE "editing"
         /\ UNCHANGED <<status, flags, tty, signals, ended, history>>

KittyPush == /\ Main("kittyPush")
             /\ tty' = [tty EXCEPT !.kitty = @ + 1]
             /\ pc' = "markKitty"
             /\ UNCHANGED <<editor, flags, signals, ended, history>>

MarkKitty == /\ Main("markKitty")
             /\ kittyActive' = TRUE
             /\ pc' = "editing"
             /\ UNCHANGED <<editor, rawActive, programRunning, tty, signals, ended, history>>

\* The loop over keys; Ctrl+C is a key here and sends no signal.
Edit == /\ Main("editing")
        /\ status' \in {"submitted", "cancelled", "eof"}
        /\ pc' = "takeKitty"
        /\ UNCHANGED <<probed, supported, flags, tty, signals, ended, history>>

\* Mutants of TakeKitty: the flag is read and not taken; g_rawActive is cleared
\* before the mode is put back.
ReadKitty == /\ Main("takeKitty")
             /\ pc' = IF kittyActive THEN "kittyPop" ELSE "pasteOff"
             /\ UNCHANGED <<editor, flags, tty, signals, ended, history>>

TakeKittyUnmarking ==
    /\ Main("takeKitty")
    /\ kittyActive' = FALSE
    /\ rawActive' = FALSE
    /\ pc' = IF kittyActive THEN "kittyPop" ELSE "pasteOff"
    /\ UNCHANGED <<editor, programRunning, tty, signals, ended, history>>

TakeKitty == /\ Main("takeKitty")
             /\ kittyActive' = FALSE
             /\ pc' = IF kittyActive THEN "kittyPop" ELSE "pasteOff"
             /\ UNCHANGED <<editor, rawActive, programRunning, tty, signals, ended, history>>

KittyPop == /\ Main("kittyPop")
            /\ tty' = [tty EXCEPT !.kitty = @ - 1]
            /\ pc' = "pasteOff"
            /\ UNCHANGED <<editor, flags, signals, ended, history>>

PasteOff == /\ Main("pasteOff")
            /\ tty' = [tty EXCEPT !.paste = FALSE]
            /\ pc' = "setCooked"
            /\ UNCHANGED <<editor, flags, signals, ended, history>>

\* Mutant of SetCooked: the saved mode is not put back.
StayRaw == /\ Main("setCooked")
           /\ pc' = "unmarkRaw"
           /\ UNCHANGED <<editor, flags, tty, signals, ended, history>>

SetCooked == /\ Main("setCooked")
             /\ tty' = [tty EXCEPT !.mode = "cooked"]
             /\ pc' = "unmarkRaw"
             /\ UNCHANGED <<editor, flags, signals, ended, history>>

UnmarkRaw == /\ Main("unmarkRaw")
             /\ rawActive' = FALSE
             /\ pc' = "dispatch"
             /\ UNCHANGED <<editor, kittyActive, programRunning, tty, signals, ended, history>>

\* readSimple: a line from a terminal in its own mode.
ReadSimple == /\ Main("simple")
              /\ status' \in {"submitted", "eof"}
              /\ pc' = "dispatch"
              /\ UNCHANGED <<probed, supported, flags, tty, signals, ended, history>>

-----------------------------------------------------------------------------
(* Repl::run: what becomes of the entry. *)

\* A blank entry and a command that runs no code go back to the prompt.
Dispatch == /\ Main("dispatch")
            /\ \/ status = "submitted" /\ pc' \in {"start", "prompt"} /\ UNCHANGED ended
               \/ status = "cancelled" /\ pc' = "prompt" /\ UNCHANGED ended
               \/ status \in {"submitted", "eof"} /\ ended' = "exited" /\ UNCHANGED pc
            /\ UNCHANGED <<editor, flags, tty, signals, history>>

\* executeSource under RunningGuard.
Start == /\ Main("start")
         /\ programRunning' = TRUE
         /\ pc' = "running"
         /\ UNCHANGED <<editor, rawActive, kittyActive, tty, signals, ended, history>>

RunEntry == /\ Main("running")
            /\ pc' = "stop"
            /\ UNCHANGED <<editor, flags, tty, signals, ended, history>>

Stop == /\ Main("stop")
        /\ programRunning' = FALSE
        /\ pc' = "prompt"
        /\ UNCHANGED <<editor, rawActive, kittyActive, tty, signals, ended, history>>

-----------------------------------------------------------------------------
(* Signals. *)

\* Ctrl+C on a terminal in its own mode, or kill -INT.
SendInterrupt == /\ ended = "no"
                 /\ interrupts < MaxInterrupts
                 /\ interrupts' = interrupts + 1
                 /\ pending' = pending \cup {"SIGINT"}
                 /\ UNCHANGED <<pc, editor, flags, tty, handled, frames, ended, kills>>

\* kill, or the terminal closing.
SendFatal(s) == /\ ended = "no"
                /\ kills' = kills \cup {s}
                /\ pending' = pending \cup {s}
                /\ UNCHANGED <<pc, editor, flags, tty, handled, frames, ended, interrupts>>

\* The kernel starts the handler, its own signal blocked, or ends the process.
Deliver(s) ==
    /\ ended = "no"
    /\ Deliverable(s)
    /\ pending' = pending \ {s}
    /\ IF s \in handled
       THEN /\ frames' = Append(frames, [sig |-> s, at |-> IF s = "SIGINT" THEN "testRunning"
                                                                            ELSE "takeRaw"])
            /\ UNCHANGED ended
       ELSE ended' = "killed" /\ UNCHANGED frames
    /\ UNCHANGED <<pc, editor, flags, tty, handled, history>>

\* sigintHandler: while an entry runs, the shell exits.
TestRunning == /\ Handler({"SIGINT"}, "testRunning")
               /\ \/ programRunning /\ ended' = "interrupted" /\ UNCHANGED frames
                  \/ ~programRunning /\ GoTo("return") /\ UNCHANGED ended
               /\ UNCHANGED <<pc, editor, flags, tty, handled, pending, history>>

\* fatalSignalHandler: restoreTerminalFromSignal, then the default action.
TakeRawInHandler ==
    /\ Handler(Fatal, "takeRaw")
    /\ rawActive' = FALSE
    /\ GoTo(IF rawActive THEN "takeKitty" ELSE "setDefault")
    /\ UNCHANGED <<pc, editor, kittyActive, programRunning, tty, handled, pending, ended, history>>

TakeKittyInHandler ==
    /\ Handler(Fatal, "takeKitty")
    /\ kittyActive' = FALSE
    /\ GoTo(IF kittyActive THEN "kittyPop" ELSE "pasteOff")
    /\ UNCHANGED <<pc, editor, rawActive, programRunning, tty, handled, pending, ended, history>>

RestoreInHandler ==
    /\ \/ /\ Handler(Fatal, "kittyPop")
          /\ tty' = [tty EXCEPT !.kitty = @ - 1]
          /\ GoTo("pasteOff")
       \/ /\ Handler(Fatal, "pasteOff")
          /\ tty' = [tty EXCEPT !.paste = FALSE]
          /\ GoTo("setCooked")
       \/ /\ Handler(Fatal, "setCooked")
          /\ tty' = [tty EXCEPT !.mode = "cooked"]
          /\ GoTo("setDefault")
    /\ UNCHANGED <<pc, editor, flags, handled, pending, ended, history>>

\* Mutant of SetDefault: the handler stays installed.
KeepHandler ==
    /\ Handler(Fatal, "setDefault")
    /\ GoTo("raise")
    /\ UNCHANGED <<pc, editor, flags, tty, handled, pending, ended, history>>

SetDefault ==
    /\ Handler(Fatal, "setDefault")
    /\ handled' = handled \ {Top.sig}
    /\ GoTo("raise")
    /\ UNCHANGED <<pc, editor, flags, tty, pending, ended, history>>

\* Blocked until the handler returns.
RaiseAgain ==
    /\ Handler(Fatal, "raise")
    /\ pending' = pending \cup {Top.sig}
    /\ GoTo("return")
    /\ UNCHANGED <<pc, editor, flags, tty, handled, ended, history>>

ReturnFromHandler ==
    /\ Handler(Signals, "return")
    /\ frames' = Below
    /\ UNCHANGED <<pc, editor, flags, tty, handled, pending, ended, history>>

-----------------------------------------------------------------------------
Enable  == Prompt \/ MarkRaw \/ SetRaw \/ UnmarkFailed \/ PasteOn \/ Probe \/ KittyPush \/ MarkKitty
Disable == TakeKitty \/ KittyPop \/ PasteOff \/ SetCooked \/ UnmarkRaw
Shell   == Install \/ Enable \/ Edit \/ Disable \/ ReadSimple \/ Dispatch \/ Start \/ RunEntry \/ Stop

Handling == \/ (\E s \in Signals : Deliver(s))
            \/ TestRunning \/ TakeRawInHandler \/ TakeKittyInHandler \/ RestoreInHandler
            \/ SetDefault \/ RaiseAgain \/ ReturnFromHandler

Next == Shell \/ Handling \/ SendInterrupt \/ \E s \in Fatal : SendFatal(s)

Spec == Init /\ [][Next]_vars

\* The kernel delivers signals and the thread runs its handlers.  Nothing says
\* that the user types or that an entry ends.
FairSpec == Spec /\ WF_vars(Handling)

-----------------------------------------------------------------------------
(* Properties. *)

\* Every variable stays in its range and no handler is entered twice.
TypeOK ==
    /\ pc \in Steps
    /\ status \in {"none", "submitted", "cancelled", "eof"}
    /\ {rawActive, kittyActive, programRunning, probed, supported} \subseteq BOOLEAN
    /\ tty \in TtyState
    /\ handled \subseteq Signals
    /\ frames \in Seq([sig : Signals, at : HandlerSteps])
    /\ \A i, j \in 1..Len(frames) : frames[i].sig = frames[j].sig => i = j
    /\ pending \subseteq Signals
    /\ ended \in {"no", "exited", "interrupted", "killed"}
    /\ interrupts \in 0..MaxInterrupts
    /\ kills \subseteq Fatal

\* While an entry runs, the terminal is as the shell found it, whatever signal
\* arrived: input() reads lines with echo, Ctrl+C is a signal, and the exit of
\* sigintHandler, which restores nothing, leaves nothing to restore.
RunsInNormalMode == pc = "running" \/ ended \in {"interrupted", "exited"} => tty = Restored

\* Main thread and handler together never pop a Kitty level that the shell did
\* not push, and never push a second one.
KittyBalanced == tty.kitty \in {0, 1}

\* One SIGTERM or SIGHUP, at any step, leaves the terminal in its own mode and
\* with bracketed paste off, however many SIGINTs arrive with it.
OneKillRestoresMode ==
    ended = "killed" /\ kills \in {{"SIGTERM"}, {"SIGHUP"}} =>
        tty.mode = "cooked" /\ ~tty.paste

\* A SIGTERM or SIGHUP that arrives ends the process: no handler gets stuck.
FatalSignalEnds == pending \cap Fatal # {} ~> ended # "no"

-----------------------------------------------------------------------------
(* What the comments and the documentation say and the code does not do. *)

=============================================================================
