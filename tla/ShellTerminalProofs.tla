-------------------------- MODULE ShellTerminalProofs --------------------------
(***************************************************************************)
(* Proofs about ShellTerminal for any number of SIGINTs: whatever signals  *)
(* cut in, and wherever, an entry runs in the terminal's own mode, the     *)
(* Kitty levels pushed and popped balance, and one SIGTERM or SIGHUP       *)
(* leaves the terminal usable.                                             *)
(*                                                                         *)
(* The argument: a fatal handler that has looked at g_rawActive dooms the  *)
(* process, since its signal stays pending with the default action until   *)
(* it ends the process (`Fate`).  Hence the main thread only steps in a    *)
(* state no handler has touched, where the terminal is what `pc` says      *)
(* (`Ownership`), and at most one handler ever restores (`Restoring`).     *)
(***************************************************************************)
EXTENDS ShellTerminal, TLAPS

-----------------------------------------------------------------------------
(* The inductive invariant. *)

\* The handler of s is in progress, with p its next step.
At(s, p) == \E i \in 1..Len(frames) : frames[i] = [sig |-> s, at |-> p]

\* The steps between setting g_rawActive and clearing it again.
Marked == {"setRaw", "unmarkFailed", "pasteOn", "probe", "kittyPush", "markKitty", "editing",
           "takeKitty", "kittyPop", "pasteOff", "setCooked", "unmarkRaw"}

\* The steps of a handler that took g_rawActive.
RestoreSteps == {"takeKitty", "kittyPop", "pasteOff", "setCooked"}

\* A handler has taken its first look at g_rawActive, or has finished.
Doomed == /\ pc # "install"
          /\ \E s \in Fatal : s \notin handled \/ \E p \in HandlerSteps \ {"takeRaw"} : At(s, p)

\* Each handler stays in its own code, and none is installed before Install.
HandlersShape ==
    /\ \A p \in HandlerSteps : At("SIGINT", p) => p \in {"testRunning", "return"}
    /\ \A s \in Fatal : ~At(s, "testRunning")
    /\ IF pc = "install" THEN handled = {} /\ frames = <<>> ELSE "SIGINT" \in handled

\* A fatal handler past setDefault has uninstalled itself, and a signal whose
\* handler is gone is about to be raised or is pending.
Fate ==
    /\ \A s \in Fatal : At(s, "raise") \/ At(s, "return") => s \notin handled
    /\ pc # "install" /\ ended = "no" =>
          \A s \in Fatal : s \in handled \/ s \in pending \/ At(s, "raise")

\* g_rawActive is set from MarkRaw on until the main thread clears it or a
\* handler takes it.
Ownership == rawActive <=> pc \in Marked /\ ~Doomed

\* One handler at most restores, what it restores is raw, and the modes are off
\* when nobody is left to put them back.
Restoring ==
    /\ \A s, t \in Fatal, p, q \in RestoreSteps : At(s, p) /\ At(t, q) => s = t
    /\ \A s \in Fatal, p \in RestoreSteps : At(s, p) => pc \in Marked
    /\ \A s \in Fatal : At(s, "setCooked") => ~tty.paste
    /\ ended = "no" /\ ~rawActive /\ (\A s \in Fatal, p \in RestoreSteps : ~At(s, p)) =>
          tty.mode = "cooked" /\ ~tty.paste

\* What the main thread's next step says of the terminal.
ModeByStep ==
    /\ pc \notin Marked \/ pc \in {"setRaw", "unmarkFailed", "unmarkRaw"} => tty = Restored
    /\ pc = "setCooked" => ~tty.paste

\* The level on the terminal is the one g_kittyActive owns, or the one the main
\* thread or a handler is about to record or to pop.
KittyPopping == \E s \in Fatal : At(s, "kittyPop")

KittyAccount ==
    /\ kittyActive \/ KittyPopping => pc \in {"editing", "takeKitty"}
    /\ ~(kittyActive /\ KittyPopping)
    /\ tty.kitty = IF kittyActive \/ KittyPopping \/ pc \in {"markKitty", "kittyPop"}
                   THEN 1 ELSE 0

\* Whoever ends the process, and when.
Endings ==
    /\ programRunning <=> pc \in {"running", "stop"}
    /\ ended = "exited" => pc = "dispatch"
    /\ ended = "interrupted" => programRunning

\* Every signal but SIGINT came from outside.
Causes ==
    /\ pending \subseteq kills \cup {"SIGINT"}
    /\ \A s \in Fatal, p \in HandlerSteps : At(s, p) => s \in kills
    /\ pc # "install" => Fatal \ handled \subseteq kills

Inv == /\ TypeOK
       /\ HandlersShape
       /\ Fate
       /\ Ownership
       /\ Restoring
       /\ ModeByStep
       /\ KittyAccount
       /\ Endings
       /\ Causes
       /\ OneKillRestoresMode

-----------------------------------------------------------------------------
(* The handlers in progress. *)

\* A sequence without its last element keeps the others.
LEMMA Pop ==
    ASSUME NEW S, NEW s \in Seq(S), NEW n \in Nat, Len(s) = n, n > 0,
           NEW b, b = SubSeq(s, 1, n - 1)
    PROVE  /\ b \in Seq(S)
           /\ Len(b) = n - 1
           /\ \A i \in 1..(n - 1) : b[i] = s[i]
  OBVIOUS

\* A handler starts: it joins those in progress, at its first step.
LEMMA PushHandler ==
    ASSUME TypeOK, NEW s \in Signals, NEW q \in HandlerSteps,
           frames' = Append(frames, [sig |-> s, at |-> q])
    PROVE  \A t, x : At(t, x)' <=> At(t, x) \/ (t = s /\ x = q)
  <1>. DEFINE n == Len(frames)
              f == [sig |-> s, at |-> q]
  <1>1. /\ n \in Nat
        /\ Len(frames') = n + 1
        /\ \A i \in 1..n : frames'[i] = frames[i]
        /\ frames'[n + 1] = f
    BY DEF TypeOK
  <1>2. \A i \in 1..(n + 1) : i \in 1..n \/ i = n + 1
    BY <1>1
  <1>3. \A i \in 1..n : i \in 1..(n + 1)
    BY <1>1
  <1>4. n + 1 \in 1..(n + 1)
    BY <1>1
  <1>5. \A t, x : [sig |-> t, at |-> x] = f <=> t = s /\ x = q
    OBVIOUS
  <1>. HIDE DEF n, f
  <1>6. \A t, x : At(t, x) <=> \E i \in 1..n : frames[i] = [sig |-> t, at |-> x]
    BY DEF At, n
  <1>7. \A t, x : At(t, x)' <=> \E i \in 1..(n + 1) : frames'[i] = [sig |-> t, at |-> x]
    BY <1>1 DEF At
  <1>. SUFFICES ASSUME NEW t, NEW x
                PROVE  At(t, x)' <=> At(t, x) \/ (t = s /\ x = q)
    OBVIOUS
  <1>8. At(t, x) => At(t, x)'
    BY <1>1, <1>3, <1>6, <1>7
  <1>9. t = s /\ x = q => At(t, x)'
    BY <1>1, <1>4, <1>5, <1>7
  <1>10. At(t, x)' => At(t, x) \/ (t = s /\ x = q)
    BY <1>1, <1>2, <1>5, <1>6, <1>7
  <1> QED
    BY <1>8, <1>9, <1>10

\* The handler on top is in progress, at its step, and nowhere else.
LEMMA OnTop ==
    ASSUME TypeOK, frames # <<>>
    PROVE  /\ Top.sig \in Signals /\ Top.at \in HandlerSteps
           /\ \A x : At(Top.sig, x) <=> x = Top.at
           /\ Len(frames) \in Nat /\ Len(frames) > 0
           /\ Top = [sig |-> Top.sig, at |-> Top.at]
  <1>. DEFINE H == [sig : Signals, at : HandlerSteps]
  <1>0. frames \in Seq(H)
    BY DEF TypeOK
  <1>1. Len(frames) \in Nat /\ Len(frames) > 0 /\ Len(frames) \in 1..Len(frames)
    BY <1>0
  <1>2. frames[Len(frames)] \in H
    <2>. HIDE DEF H
    <2> QED
      BY <1>0, <1>1
  <1>3. \A i \in 1..Len(frames) : frames[i].sig = Top.sig => i = Len(frames)
    BY <1>1 DEF TypeOK, Top
  <1> QED
    BY <1>1, <1>2, <1>3 DEF At, Top

\* The handlers below it keep their places.
LEMMA OnBelow ==
    ASSUME TypeOK, frames # <<>>
    PROVE  /\ Below \in Seq([sig : Signals, at : HandlerSteps])
           /\ Len(Below) = Len(frames) - 1
           /\ \A i \in 1..(Len(frames) - 1) : Below[i] = frames[i]
  <1>. DEFINE H == [sig : Signals, at : HandlerSteps]
  <1>1. frames \in Seq(H) /\ Len(frames) \in Nat /\ Len(frames) > 0
    BY OnTop DEF TypeOK
  <1>. HIDE DEF H
  <1>2. /\ Below \in Seq(H)
        /\ Len(Below) = Len(frames) - 1
        /\ \A i \in 1..(Len(frames) - 1) : Below[i] = frames[i]
    BY <1>1, Pop DEF Below
  <1> QED
    BY <1>2 DEF H

\* The handler on top moves to another of its steps.
LEMMA MoveHandler ==
    ASSUME TypeOK, frames # <<>>, NEW p \in HandlerSteps, GoTo(p)
    PROVE  \A t, x : At(t, x)' <=> IF t = Top.sig THEN x = p ELSE At(t, x)
  <1>. DEFINE n == Len(frames)
              f == [Top EXCEPT !.at = p]
  <1>1. n \in Nat /\ n > 0 /\ Top.sig \in Signals /\ f = [sig |-> Top.sig, at |-> p]
    BY OnTop
  <1>2. /\ Len(Below) = n - 1
        /\ \A i \in 1..(n - 1) : Below[i] = frames[i]
        /\ Below \in Seq([sig : Signals, at : HandlerSteps])
    BY OnBelow
  <1>3. f \in [sig : Signals, at : HandlerSteps]
    BY <1>1
  <1>4. /\ Len(frames') = n
        /\ \A i \in 1..(n - 1) : frames'[i] = frames[i]
        /\ frames'[n] = f
    BY <1>1, <1>2, <1>3 DEF GoTo
  <1>5. \A i \in 1..n : i \in 1..(n - 1) \/ i = n
    BY <1>1
  <1>6. \A i \in 1..(n - 1) : i \in 1..n /\ frames[i].sig # Top.sig
    BY <1>1 DEF TypeOK, Top
  <1>7. n \in 1..n /\ frames[n] = Top
    BY <1>1 DEF Top
  <1>8. \A t, x : At(t, x) <=> \E i \in 1..n : frames[i] = [sig |-> t, at |-> x]
    BY DEF At
  <1>9. \A t, x : At(t, x)' <=> \E i \in 1..n : frames'[i] = [sig |-> t, at |-> x]
    BY <1>4 DEF At
  <1>10. \A t, x : t = Top.sig => (At(t, x)' <=> x = p)
    <2>. TAKE t, x
    <2>1. \A i \in 1..n : frames'[i] = [sig |-> Top.sig, at |-> x] => i = n
      BY <1>4, <1>5, <1>6
    <2>2. frames'[n] = [sig |-> Top.sig, at |-> x] <=> x = p
      BY <1>1, <1>4
    <2> QED
      BY <1>7, <1>9, <2>1, <2>2
  <1>11. \A t, x : t # Top.sig => (At(t, x)' <=> At(t, x))
    <2>. TAKE t, x
    <2>1. Top.sig # t => frames'[n] # [sig |-> t, at |-> x] /\ frames[n] # [sig |-> t, at |-> x]
      BY <1>1, <1>4, <1>7
    <2> QED
      BY <1>4, <1>5, <1>6, <1>8, <1>9, <2>1
  <1> QED
    BY <1>10, <1>11

\* The handler on top returns.
LEMMA PopHandler ==
    ASSUME TypeOK, frames # <<>>, frames' = Below
    PROVE  \A t, x : At(t, x)' <=> At(t, x) /\ t # Top.sig
  <1>. DEFINE n == Len(frames)
  <1>1. n \in Nat /\ n > 0
    BY OnTop
  <1>2. /\ Len(frames') = n - 1
        /\ \A i \in 1..(n - 1) : frames'[i] = frames[i]
    BY OnBelow
  <1>3. \A i \in 1..n : i \in 1..(n - 1) \/ i = n
    BY <1>1
  <1>4. \A i \in 1..(n - 1) : i \in 1..n /\ frames[i].sig # Top.sig
    BY <1>1 DEF TypeOK, Top
  <1>5. n \in 1..n /\ frames[n] = Top
    BY <1>1 DEF Top
  <1>6. \A t, x : At(t, x) <=> \E i \in 1..n : frames[i] = [sig |-> t, at |-> x]
    BY DEF At
  <1>7. \A t, x : At(t, x)' <=> \E i \in 1..(n - 1) : frames'[i] = [sig |-> t, at |-> x]
    BY <1>2 DEF At
  <1>. SUFFICES ASSUME NEW t, NEW x
                PROVE  At(t, x)' <=> At(t, x) /\ t # Top.sig
    OBVIOUS
  <1>8. \A i \in 1..n : frames[i] = [sig |-> t, at |-> x] => frames[i].sig = t
    OBVIOUS
  <1>. HIDE DEF n
  <1>9. At(t, x)' => At(t, x) /\ t # Top.sig
    BY <1>2, <1>4, <1>6, <1>7, <1>8
  <1>10. At(t, x) /\ t # Top.sig => At(t, x)'
    BY <1>2, <1>3, <1>5, <1>6, <1>7, <1>8
  <1> QED
    BY <1>9, <1>10

\* The frames are frames and no handler is entered twice.
Frames == /\ frames \in Seq([sig : Signals, at : HandlerSteps])
          /\ \A i, j \in 1..Len(frames) : frames[i].sig = frames[j].sig => i = j

\* They stay so when a handler starts that is not in progress, when the one on
\* top moves and when it returns.
LEMMA FramesStay ==
    ASSUME TypeOK
    PROVE  /\ \A s \in Signals, q \in HandlerSteps :
                  ~InProgress(s) /\ frames' = Append(frames, [sig |-> s, at |-> q]) => Frames'
           /\ \A p \in HandlerSteps : frames # <<>> /\ GoTo(p) => Frames'
           /\ frames # <<>> /\ frames' = Below => Frames'
  <1>. DEFINE n == Len(frames)
              H == [sig : Signals, at : HandlerSteps]
  <1>1. /\ frames \in Seq(H)
        /\ n \in Nat
        /\ \A i, j \in 1..n : frames[i].sig = frames[j].sig => i = j
    BY DEF TypeOK
  <1>2. ASSUME NEW s \in Signals, NEW q \in HandlerSteps, ~InProgress(s),
               frames' = Append(frames, [sig |-> s, at |-> q])
        PROVE  Frames'
    <2>1. \A i \in 1..n : frames[i].sig # s
      BY <1>2 DEF InProgress
    <2>2. [sig |-> s, at |-> q] \in H /\ [sig |-> s, at |-> q].sig = s
      OBVIOUS
    <2>. HIDE DEF H
    <2>3. /\ frames' \in Seq(H)
          /\ Len(frames') = n + 1
          /\ \A i \in 1..n : frames'[i] = frames[i]
          /\ frames'[n + 1].sig = s
      BY <1>1, <1>2, <2>2
    <2>4. \A i \in 1..(n + 1) : i \in 1..n \/ i = n + 1
      BY <1>1
    <2>5. \A i, j \in 1..(n + 1) : frames'[i].sig = frames'[j].sig => i = j
      BY <1>1, <2>1, <2>3, <2>4
    <2> QED
      BY <2>3, <2>5 DEF Frames, H
  <1>3. ASSUME frames # <<>>
        PROVE  /\ n > 0
               /\ Below \in Seq(H)
               /\ Len(Below) = n - 1
               /\ \A i \in 1..(n - 1) : Below[i] = frames[i]
               /\ \A i \in 1..(n - 1) : i \in 1..n
               /\ \A i \in 1..(n - 1) : frames[i].sig # Top.sig
    <2>1. n > 0 /\ Len(Below) = n - 1 /\ Below \in Seq(H)
          /\ \A i \in 1..(n - 1) : Below[i] = frames[i]
      BY <1>3, OnTop, OnBelow
    <2>2. \A i \in 1..(n - 1) : i \in 1..n /\ frames[i].sig # frames[n].sig
      BY <1>1, <2>1
    <2> QED
      BY <2>1, <2>2 DEF Top
  <1>4. ASSUME NEW p \in HandlerSteps, frames # <<>>, GoTo(p)
        PROVE  Frames'
    <2>. DEFINE f == [Top EXCEPT !.at = p]
    <2>1. f \in H /\ f.sig = Top.sig
      BY <1>4, OnTop
    <2>. HIDE DEF H, f
    <2>2. frames' = Append(Below, f)
      BY <1>4 DEF GoTo, f
    <2>3. /\ frames' \in Seq(H)
          /\ Len(frames') = n
          /\ \A i \in 1..(n - 1) : frames'[i] = frames[i]
          /\ frames'[n].sig = Top.sig
      BY <1>1, <1>3, <1>4, <2>1, <2>2
    <2>4. \A i \in 1..n : i \in 1..(n - 1) \/ i = n
      BY <1>1
    <2>5. \A i, j \in 1..n : frames'[i].sig = frames'[j].sig => i = j
      BY <1>1, <1>3, <1>4, <2>3, <2>4
    <2> QED
      BY <2>3, <2>5 DEF Frames, H
  <1>5. ASSUME frames # <<>>, frames' = Below
        PROVE  Frames'
    <2>. HIDE DEF H
    <2>1. \A i, j \in 1..(n - 1) : frames'[i].sig = frames'[j].sig => i = j
      BY <1>1, <1>3, <1>5
    <2> QED
      BY <1>3, <1>5, <2>1 DEF Frames, H
  <1> QED
    BY <1>2, <1>4, <1>5

\* A level is popped only where one is known to be on the terminal.
LEMMA PopsOwnLevel ==
    ASSUME TypeOK, KittyAccount,
           pc = "kittyPop" \/ (frames # <<>> /\ Top.sig \in Fatal /\ Top.at = "kittyPop")
    PROVE  tty.kitty = 1
  <1>1. frames # <<>> /\ Top.sig \in Fatal /\ Top.at = "kittyPop" => KittyPopping
    BY OnTop DEF KittyPopping
  <1> QED
    BY <1>1 DEF KittyAccount

\* What an update of the terminal changes and what it keeps.
LEMMA TtyUpdates ==
    ASSUME TypeOK
    PROVE  /\ \A m \in {"cooked", "raw"} :
                  [tty EXCEPT !.mode = m] = [mode |-> m, paste |-> tty.paste, kitty |-> tty.kitty]
           /\ \A b \in BOOLEAN :
                  [tty EXCEPT !.paste = b] = [mode |-> tty.mode, paste |-> b, kitty |-> tty.kitty]
           /\ [tty EXCEPT !.kitty = @ + 1]
                  = [mode |-> tty.mode, paste |-> tty.paste, kitty |-> tty.kitty + 1]
           /\ [tty EXCEPT !.kitty = @ - 1]
                  = [mode |-> tty.mode, paste |-> tty.paste, kitty |-> tty.kitty - 1]
           /\ tty.mode \in {"cooked", "raw"} /\ tty.paste \in BOOLEAN /\ tty.kitty \in Nat
           /\ tty = [mode |-> tty.mode, paste |-> tty.paste, kitty |-> tty.kitty]
  BY DEF TypeOK, TtyState

\* Every step keeps the types.
LEMMA Types == TypeOK /\ KittyAccount /\ [Next]_vars => TypeOK'
  <1>. SUFFICES ASSUME TypeOK, KittyAccount, [Next]_vars
                PROVE  TypeOK'
    OBVIOUS
  <1>. DEFINE Plain == /\ pc \in Steps
                       /\ status \in {"none", "submitted", "cancelled", "eof"}
                       /\ rawActive \in BOOLEAN /\ kittyActive \in BOOLEAN
                       /\ programRunning \in BOOLEAN
                       /\ probed \in BOOLEAN /\ supported \in BOOLEAN
                       /\ tty \in TtyState
                       /\ handled \subseteq Signals
                       /\ pending \subseteq Signals
                       /\ ended \in {"no", "exited", "interrupted", "killed"}
                       /\ interrupts \in 0..MaxInterrupts
                       /\ kills \subseteq Fatal
  <1>1. Plain /\ (UNCHANGED frames => Frames')
    BY DEF TypeOK, Frames
  <1>. SUFFICES Plain' /\ Frames'
    BY DEF TypeOK, Frames
  <1>. USE <1>1 DEF editor, flags, signals, history
  <1>2. CASE Shell
    <2>1. CASE Install
      BY <2>1 DEF Install, Main, Steps, Signals
    <2>2. CASE Edit
      BY <2>2 DEF Edit, Main, Steps
    <2>3. CASE ReadSimple
      BY <2>3 DEF ReadSimple, Main, Steps
    <2>4. CASE Dispatch
      BY <2>4 DEF Dispatch, Main, Steps
    <2>5. CASE Start
      BY <2>5 DEF Start, Main, Steps
    <2>6. CASE RunEntry
      BY <2>6 DEF RunEntry, Main, Steps
    <2>7. CASE Stop
      BY <2>7 DEF Stop, Main, Steps
    <2>8. CASE Prompt
      BY <2>8 DEF Prompt, Main, Steps
    <2>9. CASE MarkRaw
      BY <2>9 DEF MarkRaw, Main, Steps
    <2>10. CASE SetRaw
      BY <2>10, TtyUpdates DEF SetRaw, Main, Steps, TtyState
    <2>11. CASE UnmarkFailed
      BY <2>11 DEF UnmarkFailed, Main, Steps
    <2>12. CASE PasteOn
      BY <2>12, TtyUpdates DEF PasteOn, Main, Steps, TtyState
    <2>13. CASE Probe
      BY <2>13 DEF Probe, Main, Steps
    <2>14. CASE KittyPush
      BY <2>14, TtyUpdates DEF KittyPush, Main, Steps, TtyState
    <2>15. CASE MarkKitty
      BY <2>15 DEF MarkKitty, Main, Steps
    <2>16. CASE TakeKitty
      BY <2>16 DEF TakeKitty, Main, Steps
    <2>17. CASE KittyPop
      BY <2>17, PopsOwnLevel, TtyUpdates DEF KittyPop, Main, Steps, TtyState
    <2>18. CASE PasteOff
      BY <2>18, TtyUpdates DEF PasteOff, Main, Steps, TtyState
    <2>19. CASE SetCooked
      BY <2>19, TtyUpdates DEF SetCooked, Main, Steps, TtyState
    <2>20. CASE UnmarkRaw
      BY <2>20 DEF UnmarkRaw, Main, Steps
    <2> QED
      BY <1>2, <2>1, <2>2, <2>3, <2>4, <2>5, <2>6, <2>7, <2>8, <2>9, <2>10,
         <2>11, <2>12, <2>13, <2>14, <2>15, <2>16, <2>17, <2>18, <2>19, <2>20
      DEF Shell, Enable, Disable
  <1>3. CASE Handling
    <2>1. ASSUME NEW s \in Signals, Deliver(s)
          PROVE  Plain' /\ Frames'
      <3>1. {"testRunning", "takeRaw"} \subseteq HandlerSteps
        BY DEF HandlerSteps
      <3>2. Frames'
        BY <2>1, <3>1, FramesStay DEF Deliver, Deliverable
      <3> QED
        BY <2>1, <3>2 DEF Deliver
    <2>2. CASE TestRunning
      BY <2>2, FramesStay DEF TestRunning, Handler, HandlerSteps
    <2>3. CASE TakeRawInHandler
      BY <2>3, FramesStay DEF TakeRawInHandler, Handler, HandlerSteps
    <2>4. CASE TakeKittyInHandler
      BY <2>4, FramesStay DEF TakeKittyInHandler, Handler, HandlerSteps
    <2>5. CASE RestoreInHandler
      <3>1. Frames'
        BY <2>5, FramesStay DEF RestoreInHandler, Handler, HandlerSteps
      <3>2. tty' \in TtyState
        <4>1. \/ Top.at = "kittyPop" /\ tty' = [tty EXCEPT !.kitty = @ - 1] /\ tty.kitty = 1
              \/ tty' = [tty EXCEPT !.paste = FALSE]
              \/ tty' = [tty EXCEPT !.mode = "cooked"]
          BY <2>5, PopsOwnLevel DEF RestoreInHandler, Handler
        <4>2. Top.at = "kittyPop" /\ tty' = [tty EXCEPT !.kitty = @ - 1] /\ tty.kitty = 1
              => tty' \in TtyState
          BY TtyUpdates DEF TtyState
        <4>3. tty' = [tty EXCEPT !.paste = FALSE] => tty' \in TtyState
          BY TtyUpdates DEF TtyState
        <4>4. tty' = [tty EXCEPT !.mode = "cooked"] => tty' \in TtyState
          BY TtyUpdates DEF TtyState
        <4> QED
          BY <4>1, <4>2, <4>3, <4>4
      <3> QED
        BY <2>5, <3>1, <3>2 DEF RestoreInHandler
    <2>6. CASE SetDefault
      BY <2>6, FramesStay DEF SetDefault, Handler, HandlerSteps
    <2>7. CASE RaiseAgain
      BY <2>7, FramesStay, OnTop DEF RaiseAgain, Handler, HandlerSteps
    <2>8. CASE ReturnFromHandler
      BY <2>8, FramesStay DEF ReturnFromHandler, Handler
    <2> QED
      BY <1>3, <2>1, <2>2, <2>3, <2>4, <2>5, <2>6, <2>7, <2>8 DEF Handling
  <1>4. CASE SendInterrupt
    BY <1>4, InterruptsAssumption DEF SendInterrupt, Signals
  <1>5. ASSUME NEW s \in Fatal, SendFatal(s)
        PROVE  Plain' /\ Frames'
    BY <1>5 DEF SendFatal, Signals
  <1>6. CASE UNCHANGED vars
    BY <1>6 DEF vars
  <1> QED
    BY <1>2, <1>3, <1>4, <1>5, <1>6 DEF Next

-----------------------------------------------------------------------------
(* The main thread. *)

\* A state no handler has touched, as the main thread leaves it.
Calm == /\ TypeOK
        /\ frames = <<>>
        /\ pending = {}
        /\ handled = IF pc = "install" THEN {} ELSE Signals
        /\ rawActive <=> pc \in Marked
        /\ rawActive \/ ended # "no" \/ (tty.mode = "cooked" /\ ~tty.paste)
        /\ ModeByStep
        /\ kittyActive => pc \in {"editing", "takeKitty"}
        /\ tty.kitty = IF kittyActive \/ pc \in {"markKitty", "kittyPop"} THEN 1 ELSE 0
        /\ Endings
        /\ ended \in {"no", "exited"}

\* It is what the invariant says of a state where the main thread may step ...
LEMMA CalmBefore ==
    ASSUME Inv, NEW p, Main(p)
    PROVE  Calm /\ ended = "no" /\ pc = p
  <1>1. \A s, x : ~At(s, x)
    BY DEF Main, At
  <1>2. \A s \in Signals : s \notin pending
    BY DEF Main, Undisturbed, Deliverable, InProgress
  <1>3. pending = {} /\ ended = "no" /\ frames = <<>> /\ pc = p
    BY <1>2 DEF Inv, TypeOK, Main, Undisturbed
  <1>4. pc # "install" => handled = Signals
    BY <1>1, <1>3 DEF Inv, TypeOK, Fate, HandlersShape, Signals
  <1>5. pc = "install" => handled = {}
    BY DEF Inv, HandlersShape
  <1>6. ~Doomed
    BY <1>1, <1>4 DEF Doomed, Signals
  <1>7. ~KittyPopping
    BY <1>1 DEF KittyPopping
  <1>8. rawActive \/ (tty.mode = "cooked" /\ ~tty.paste)
    BY <1>1, <1>3 DEF Inv, Restoring
  <1>9. (rawActive <=> pc \in Marked) /\ ModeByStep /\ Endings
    BY <1>6 DEF Inv, Ownership
  <1>10. /\ kittyActive => pc \in {"editing", "takeKitty"}
         /\ tty.kitty = IF kittyActive \/ pc \in {"markKitty", "kittyPop"} THEN 1 ELSE 0
    BY <1>7 DEF Inv, KittyAccount
  <1>11. handled = IF pc = "install" THEN {} ELSE Signals
    BY <1>4, <1>5
  <1> QED
    BY <1>3, <1>8, <1>9, <1>10, <1>11 DEF Calm, Inv

\* ... and implies the invariant.
LEMMA CalmAfter == Calm => Inv
  <1>. SUFFICES ASSUME Calm
                PROVE  Inv
    OBVIOUS
  <1>1. \A s, x : ~At(s, x)
    BY DEF Calm, At
  <1>2. pc # "install" => Fatal \subseteq handled /\ "SIGINT" \in handled
    BY DEF Calm, Signals
  <1>3. ~Doomed
    BY <1>1, <1>2 DEF Doomed
  <1>4. ~KittyPopping
    BY <1>1 DEF KittyPopping
  <1>5. HandlersShape
    BY <1>1, <1>2 DEF Calm, HandlersShape
  <1>6. Fate
    BY <1>1, <1>2 DEF Calm, Fate
  <1>7. Ownership
    BY <1>3 DEF Calm, Ownership
  <1>8. Restoring
    BY <1>1 DEF Calm, Restoring
  <1>9. KittyAccount
    BY <1>4 DEF Calm, KittyAccount
  <1>10. Causes
    BY <1>1, <1>2 DEF Calm, Causes
  <1>11. OneKillRestoresMode
    BY DEF Calm, OneKillRestoresMode
  <1> QED
    BY <1>5, <1>6, <1>7, <1>8, <1>9, <1>10, <1>11 DEF Calm, Inv

\* A step of the main thread starts and ends in such a state.
LEMMA MainStep == Inv /\ Shell => Inv'
  <1>. SUFFICES ASSUME Inv, Shell
                PROVE  Inv'
    OBVIOUS
  <1>1. TypeOK'
    BY Types DEF Inv, Next
  <1>. DEFINE Rest == /\ frames = <<>>
                      /\ pending = {}
                      /\ handled = IF pc = "install" THEN {} ELSE Signals
                      /\ rawActive <=> pc \in Marked
                      /\ rawActive \/ ended # "no" \/ (tty.mode = "cooked" /\ ~tty.paste)
                      /\ ModeByStep
                      /\ kittyActive => pc \in {"editing", "takeKitty"}
                      /\ tty.kitty = IF kittyActive \/ pc \in {"markKitty", "kittyPop"}
                                     THEN 1 ELSE 0
                      /\ Endings
                      /\ ended \in {"no", "exited"}
  <1>2. Calm' => Inv'
    BY CalmAfter, PTL
  <1>. SUFFICES Rest'
    BY <1>1, <1>2 DEF Calm
  <1>3. ASSUME NEW p, Main(p)
        PROVE  Rest /\ ended = "no" /\ pc = p /\ status \in {"none", "submitted", "cancelled", "eof"}
               /\ TypeOK
    BY <1>3, CalmBefore DEF Calm, TypeOK
  <1>. USE DEF editor, flags, signals, history, ModeByStep, Restored, Endings, Marked
  <1>4. CASE Install
    BY <1>4, <1>3 DEF Install
  <1>5. CASE Edit
    BY <1>5, <1>3 DEF Edit
  <1>6. CASE ReadSimple
    BY <1>6, <1>3 DEF ReadSimple
  <1>7. CASE Dispatch
    BY <1>7, <1>3 DEF Dispatch
  <1>8. CASE Start
    BY <1>8, <1>3 DEF Start
  <1>9. CASE RunEntry
    BY <1>9, <1>3 DEF RunEntry
  <1>10. CASE Stop
    BY <1>10, <1>3 DEF Stop
  <1>11. CASE Prompt
    BY <1>11, <1>3 DEF Prompt
  <1>12. CASE MarkRaw
    BY <1>12, <1>3 DEF MarkRaw
  <1>13. CASE SetRaw
    BY <1>13, <1>3, TtyUpdates DEF SetRaw
  <1>14. CASE UnmarkFailed
    BY <1>14, <1>3 DEF UnmarkFailed
  <1>15. CASE PasteOn
    BY <1>15, <1>3, TtyUpdates DEF PasteOn
  <1>16. CASE Probe
    BY <1>16, <1>3 DEF Probe
  <1>17. CASE KittyPush
    BY <1>17, <1>3, TtyUpdates DEF KittyPush
  <1>18. CASE MarkKitty
    BY <1>18, <1>3 DEF MarkKitty
  <1>19. CASE TakeKitty
    BY <1>19, <1>3 DEF TakeKitty
  <1>20. CASE KittyPop
    BY <1>20, <1>3, TtyUpdates DEF KittyPop
  <1>21. CASE PasteOff
    BY <1>21, <1>3, TtyUpdates DEF PasteOff
  <1>22. CASE SetCooked
    <2>1. ~kittyActive /\ tty.kitty = 0 /\ ~tty.paste
      BY <1>22, <1>3 DEF SetCooked
    <2>2. tty' = Restored
      BY <1>22, <1>3, <2>1, TtyUpdates DEF SetCooked
    <2> QED
      BY <1>22, <1>3, <2>1, <2>2 DEF SetCooked
  <1>23. CASE UnmarkRaw
    BY <1>23, <1>3, TtyUpdates DEF UnmarkRaw
  <1> QED
    BY <1>4, <1>5, <1>6, <1>7, <1>8, <1>9, <1>10, <1>11, <1>12, <1>13,
       <1>14, <1>15, <1>16, <1>17, <1>18, <1>19, <1>20, <1>21, <1>22, <1>23
    DEF Shell, Enable, Disable

-----------------------------------------------------------------------------
(* The signals. *)

LEMMA Kinds == Fatal \subseteq Signals /\ "SIGINT" \notin Fatal /\ "SIGINT" \in Signals
               /\ \A s \in Signals : s = "SIGINT" \/ s \in Fatal
  BY DEF Fatal, Signals

\* A signal is sent.
LEMMA SendStep == Inv /\ (SendInterrupt \/ \E s \in Fatal : SendFatal(s)) => Inv'
  <1>. SUFFICES ASSUME Inv, SendInterrupt \/ \E s \in Fatal : SendFatal(s)
                PROVE  Inv'
    OBVIOUS
  <1>1. TypeOK'
    BY Types DEF Inv, Next
  <1>2. /\ ended = "no"
        /\ UNCHANGED <<pc, editor, flags, tty, handled, frames, ended>>
        /\ pending \subseteq pending' /\ kills \subseteq kills'
        /\ pending' \subseteq kills' \cup {"SIGINT"}
    BY DEF Inv, Causes, SendInterrupt, SendFatal
  <1>3. \A s, x : At(s, x)' <=> At(s, x)
    BY <1>2 DEF At
  <1>. USE <1>2, <1>3 DEF flags, editor
  <1>4. HandlersShape'
    BY DEF Inv, HandlersShape
  <1>5. Fate'
    BY DEF Inv, Fate
  <1>6. Ownership'
    BY DEF Inv, Ownership, Doomed
  <1>7. Restoring'
    BY DEF Inv, Restoring
  <1>8. ModeByStep'
    BY DEF Inv, ModeByStep
  <1>9. KittyAccount'
    BY DEF Inv, KittyAccount, KittyPopping
  <1>10. Endings'
    BY DEF Inv, Endings
  <1>11. Causes'
    BY DEF Inv, Causes
  <1>12. OneKillRestoresMode'
    BY DEF OneKillRestoresMode
  <1> QED
    BY <1>1, <1>4, <1>5, <1>6, <1>7, <1>8, <1>9, <1>10, <1>11, <1>12 DEF Inv

\* The kernel takes the default action: the process ends, and whoever was left
\* to restore the terminal was stopped by another signal than the one at work.
LEMMA KilledStep ==
    ASSUME Inv, NEW s \in Signals, Deliver(s), s \notin handled
    PROVE  Inv'
  <1>1. TypeOK'
    BY Types DEF Inv, Next, Handling
  <1>2. /\ ended = "no" /\ ended' = "killed" /\ s \in pending /\ ~InProgress(s)
        /\ pending' = pending \ {s}
        /\ UNCHANGED <<pc, editor, flags, tty, handled, frames, history>>
    BY DEF Deliver, Deliverable
  <1>3. \A t, x : (At(t, x)' <=> At(t, x)) /\ ~At(s, x)
    BY <1>2 DEF At, InProgress
  <1>. USE <1>2, <1>3 DEF flags, editor, history
  <1>4. HandlersShape'
    BY DEF Inv, HandlersShape
  <1>5. Fate'
    BY DEF Inv, Fate
  <1>6. Ownership'
    BY DEF Inv, Ownership, Doomed
  <1>7. Restoring'
    BY DEF Inv, Restoring
  <1>8. ModeByStep'
    BY DEF Inv, ModeByStep
  <1>9. KittyAccount'
    BY DEF Inv, KittyAccount, KittyPopping
  <1>10. Endings'
    BY DEF Inv, Endings
  <1>11. Causes'
    BY DEF Inv, Causes
  <1>12. OneKillRestoresMode'
    <2>. SUFFICES ASSUME kills \in {{"SIGTERM"}, {"SIGHUP"}}
                  PROVE  tty.mode = "cooked" /\ ~tty.paste
      BY DEF OneKillRestoresMode
    <2>1. CASE pc = "install"
      BY <2>1 DEF Inv, ModeByStep, Marked, Restored
    <2>2. CASE pc # "install"
      <3>1. s \in Fatal /\ s \in kills
        BY <2>2, Kinds DEF Inv, HandlersShape, Causes
      <3>2. ~rawActive
        BY <2>2, <3>1 DEF Inv, Ownership, Doomed
      <3>3. \A t \in Fatal, x \in RestoreSteps : ~At(t, x)
        BY <3>1 DEF Inv, Causes, RestoreSteps, HandlerSteps
      <3> QED
        BY <3>2, <3>3 DEF Inv, Restoring
    <2> QED
      BY <2>1, <2>2
  <1> QED
    BY <1>1, <1>4, <1>5, <1>6, <1>7, <1>8, <1>9, <1>10, <1>11, <1>12 DEF Inv

\* The kernel starts the handler.
LEMMA HandledStep ==
    ASSUME Inv, NEW s \in Signals, Deliver(s), s \in handled
    PROVE  Inv'
  <1>. DEFINE q == IF s = "SIGINT" THEN "testRunning" ELSE "takeRaw"
  <1>1. TypeOK'
    BY Types DEF Inv, Next, Handling
  <1>2. /\ ended = "no" /\ s \in pending /\ ~InProgress(s)
        /\ pending' = pending \ {s}
        /\ frames' = Append(frames, [sig |-> s, at |-> q])
        /\ UNCHANGED <<pc, editor, flags, tty, handled, ended, history>>
    BY DEF Deliver, Deliverable
  <1>3. q \in HandlerSteps
    BY DEF HandlerSteps
  <1>4. \A t, x : At(t, x)' <=> At(t, x) \/ (t = s /\ x = q)
    BY <1>2, <1>3, PushHandler DEF Inv
  <1>5. \A t \in Fatal : \A x : x # "takeRaw" => (At(t, x)' <=> At(t, x))
    BY <1>4, Kinds
  <1>6. pc # "install"
    BY DEF Inv, HandlersShape
  <1>. HIDE DEF q
  <1>. USE <1>2 DEF flags, editor, history
  <1>7. HandlersShape'
    BY <1>4, <1>6, Kinds DEF Inv, HandlersShape, q
  <1>8. Fate'
    BY <1>5 DEF Inv, Fate
  <1>9. Ownership'
    BY <1>5 DEF Inv, Ownership, Doomed
  <1>10. Restoring'
    BY <1>5 DEF Inv, Restoring, RestoreSteps
  <1>11. ModeByStep'
    BY DEF Inv, ModeByStep
  <1>12. KittyAccount'
    BY <1>5 DEF Inv, KittyAccount, KittyPopping
  <1>13. Endings'
    BY DEF Inv, Endings
  <1>14. Causes'
    BY <1>4, Kinds DEF Inv, Causes
  <1>15. OneKillRestoresMode'
    BY DEF OneKillRestoresMode
  <1> QED
    BY <1>1, <1>7, <1>8, <1>9, <1>10, <1>11, <1>12, <1>13, <1>14, <1>15 DEF Inv

-----------------------------------------------------------------------------
(* The handlers. *)

\* Where a handler runs, the process lives and the handlers are installed.
LEMMA Running ==
    ASSUME Inv, NEW S, NEW p, Handler(S, p)
    PROVE  /\ ended = "no" /\ pc # "install" /\ TypeOK
           /\ frames # <<>> /\ Top.sig \in S /\ Top.sig \in Signals
           /\ \A x : At(Top.sig, x) <=> x = p
  BY OnTop DEF Inv, HandlersShape, Handler, Undisturbed

\* sigintHandler.
LEMMA SigintStep == Inv /\ TestRunning => Inv'
  <1>. SUFFICES ASSUME Inv, TestRunning
                PROVE  Inv'
    OBVIOUS
  <1>1. TypeOK'
    BY Types DEF Inv, Next, Handling
  <1>2. /\ ended = "no" /\ pc # "install" /\ TypeOK /\ frames # <<>> /\ Top.sig = "SIGINT"
        /\ UNCHANGED <<pc, editor, flags, tty, handled, pending, history>>
    BY Running DEF TestRunning
  <1>3. \/ UNCHANGED frames /\ programRunning /\ ended' = "interrupted"
        \/ GoTo("return") /\ UNCHANGED ended
    BY DEF TestRunning
  <1>4. \A t \in Fatal : \A x : At(t, x)' <=> At(t, x)
    <2>1. CASE UNCHANGED frames
      BY <2>1 DEF At
    <2>2. CASE GoTo("return")
      BY <1>2, <2>2, MoveHandler, Kinds DEF HandlerSteps
    <2> QED
      BY <1>3, <2>1, <2>2
  <1>5. \A x \in HandlerSteps : At("SIGINT", x)' => x \in {"testRunning", "return"}
    <2>1. CASE UNCHANGED frames
      BY <2>1 DEF At, Inv, HandlersShape
    <2>2. CASE GoTo("return")
      BY <1>2, <2>2, MoveHandler DEF HandlerSteps
    <2> QED
      BY <1>3, <2>1, <2>2
  <1>. USE <1>2, <1>4 DEF flags, editor, history
  <1>6. HandlersShape'
    BY <1>5 DEF Inv, HandlersShape
  <1>7. Fate'
    BY <1>3 DEF Inv, Fate
  <1>8. Ownership'
    BY DEF Inv, Ownership, Doomed
  <1>9. Restoring'
    BY <1>3 DEF Inv, Restoring, RestoreSteps
  <1>10. ModeByStep'
    BY DEF Inv, ModeByStep
  <1>11. KittyAccount'
    BY DEF Inv, KittyAccount, KittyPopping
  <1>12. Endings'
    BY <1>3 DEF Inv, Endings
  <1>13. Causes'
    BY DEF Inv, Causes
  <1>14. OneKillRestoresMode'
    BY <1>3 DEF OneKillRestoresMode
  <1> QED
    BY <1>1, <1>6, <1>7, <1>8, <1>9, <1>10, <1>11, <1>12, <1>13, <1>14 DEF Inv

\* restoreTerminalFromSignal takes g_rawActive: from here on the process is doomed.
LEMMA TakeRawStep == Inv /\ TakeRawInHandler => Inv'
  <1>. SUFFICES ASSUME Inv, TakeRawInHandler
                PROVE  Inv'
    OBVIOUS
  <1>. DEFINE s == Top.sig
              x == IF rawActive THEN "takeKitty" ELSE "setDefault"
  <1>1. TypeOK'
    BY Types DEF Inv, Next, Handling
  <1>2. /\ ended = "no" /\ pc # "install" /\ TypeOK /\ frames # <<>>
        /\ s \in Fatal /\ s \in Signals /\ s # "SIGINT"
        /\ \A y : At(s, y) <=> y = "takeRaw"
        /\ GoTo(x)
        /\ UNCHANGED <<pc, editor, kittyActive, programRunning, tty, handled, pending, ended, history>>
    BY Running, Kinds DEF TakeRawInHandler
  <1>3. \A t, y : At(t, y)' <=> IF t = s THEN y = x ELSE At(t, y)
    BY <1>2, MoveHandler DEF HandlerSteps
  <1>4. rawActive' = FALSE
    BY DEF TakeRawInHandler
  <1>5. Doomed'
    BY <1>2, <1>3 DEF Doomed, HandlerSteps
  <1>. HIDE DEF s
  <1>. USE <1>2, <1>3 DEF flags, editor, history
  <1>10. HandlersShape'
    BY Kinds DEF Inv, HandlersShape
  <1>11. Fate'
    BY DEF Inv, Fate
  <1>12. Ownership'
    BY <1>4, <1>5 DEF Ownership
  <1>13. Restoring'
    BY <1>4 DEF Inv, Restoring, RestoreSteps, Ownership, Doomed, HandlerSteps
  <1>14. ModeByStep'
    BY DEF Inv, ModeByStep
  <1>15. KittyAccount'
    BY DEF Inv, KittyAccount, KittyPopping
  <1>16. Endings'
    BY DEF Inv, Endings
  <1>17. Causes'
    BY DEF Inv, Causes, HandlerSteps
  <1>18. OneKillRestoresMode'
    BY DEF OneKillRestoresMode
  <1> QED
    BY <1>1, <1>10, <1>11, <1>12, <1>13, <1>14, <1>15, <1>16, <1>17, <1>18 DEF Inv

\* It takes g_kittyActive.
LEMMA TakeKittyStep == Inv /\ TakeKittyInHandler => Inv'
  <1>. SUFFICES ASSUME Inv, TakeKittyInHandler
                PROVE  Inv'
    OBVIOUS
  <1>. DEFINE s == Top.sig
              x == IF kittyActive THEN "kittyPop" ELSE "pasteOff"
  <1>1. TypeOK'
    BY Types DEF Inv, Next, Handling
  <1>2. /\ ended = "no" /\ pc # "install" /\ TypeOK /\ frames # <<>>
        /\ s \in Fatal /\ s \in Signals /\ s # "SIGINT"
        /\ \A y : At(s, y) <=> y = "takeKitty"
        /\ GoTo(x)
        /\ UNCHANGED <<pc, editor, rawActive, programRunning, tty, handled, pending, ended, history>>
    BY Running, Kinds DEF TakeKittyInHandler
  <1>3. \A t, y : At(t, y)' <=> IF t = s THEN y = x ELSE At(t, y)
    BY <1>2, MoveHandler DEF HandlerSteps
  <1>4. kittyActive' = FALSE
    BY DEF TakeKittyInHandler
  <1>. HIDE DEF s
  <1>. USE <1>2, <1>3 DEF flags, editor, history
  <1>10. HandlersShape'
    BY Kinds DEF Inv, HandlersShape
  <1>11. Fate'
    BY DEF Inv, Fate
  <1>12. Ownership'
    BY DEF Inv, Ownership, Doomed, HandlerSteps
  <1>13. Restoring'
    BY DEF Inv, Restoring, RestoreSteps
  <1>14. ModeByStep'
    BY DEF Inv, ModeByStep
  <1>15. KittyAccount'
    BY <1>4 DEF Inv, KittyAccount, KittyPopping
  <1>16. Endings'
    BY DEF Inv, Endings
  <1>17. Causes'
    BY DEF Inv, Causes, HandlerSteps
  <1>18. OneKillRestoresMode'
    BY DEF OneKillRestoresMode
  <1> QED
    BY <1>1, <1>10, <1>11, <1>12, <1>13, <1>14, <1>15, <1>16, <1>17, <1>18 DEF Inv

\* It pops the Kitty level it took.
LEMMA KittyPopStep == Inv /\ RestoreInHandler /\ Top.at = "kittyPop" => Inv'
  <1>. SUFFICES ASSUME Inv, RestoreInHandler, Top.at = "kittyPop"
                PROVE  Inv'
    OBVIOUS
  <1>. DEFINE s == Top.sig
  <1>0. /\ Handler(Fatal, "kittyPop") /\ GoTo("pasteOff") /\ TypeOK
        /\ tty' = [tty EXCEPT !.kitty = @ - 1]
    BY DEF RestoreInHandler, Handler, Inv
  <1>1. TypeOK'
    BY Types DEF Inv, Next, Handling
  <1>2. /\ ended = "no" /\ pc # "install" /\ TypeOK /\ frames # <<>>
        /\ s \in Fatal /\ s \in Signals /\ s # "SIGINT"
        /\ \A y : At(s, y) <=> y = "kittyPop"
        /\ GoTo("pasteOff")
        /\ UNCHANGED <<pc, editor, flags, handled, pending, ended, history>>
    BY <1>0, Running, Kinds DEF RestoreInHandler
  <1>3. \A t, y : At(t, y)' <=> IF t = s THEN y = "pasteOff" ELSE At(t, y)
    BY <1>2, MoveHandler DEF HandlerSteps
  <1>4. tty' = [mode |-> tty.mode, paste |-> tty.paste, kitty |-> tty.kitty - 1]
    BY <1>0, TtyUpdates
  <1>5. tty.mode' = tty.mode /\ tty.paste' = tty.paste /\ tty.kitty' = tty.kitty - 1
    BY <1>4
  <1>6. pc \in {"editing", "takeKitty"} /\ tty.kitty = 1 /\ ~kittyActive
    BY <1>2 DEF Inv, KittyAccount, KittyPopping
  <1>7. \A t \in Fatal : At(t, "kittyPop") => t = s
    BY <1>2 DEF Inv, Restoring, RestoreSteps
  <1>. HIDE DEF s
  <1>. USE <1>2, <1>3 DEF flags, editor, history
  <1>10. HandlersShape'
    BY Kinds DEF Inv, HandlersShape
  <1>11. Fate'
    BY DEF Inv, Fate
  <1>12. Ownership'
    BY DEF Inv, Ownership, Doomed, HandlerSteps
  <1>13. Restoring'
    BY <1>5 DEF Inv, Restoring, RestoreSteps
  <1>14. ModeByStep'
    BY <1>6 DEF ModeByStep, Marked
  <1>15. KittyAccount'
    BY <1>5, <1>6, <1>7 DEF KittyAccount, KittyPopping
  <1>16. Endings'
    BY DEF Inv, Endings
  <1>17. Causes'
    BY DEF Inv, Causes, HandlerSteps
  <1>18. OneKillRestoresMode'
    BY DEF OneKillRestoresMode
  <1> QED
    BY <1>1, <1>10, <1>11, <1>12, <1>13, <1>14, <1>15, <1>16, <1>17, <1>18 DEF Inv

\* It switches bracketed paste off.
LEMMA PasteOffStep == Inv /\ RestoreInHandler /\ Top.at = "pasteOff" => Inv'
  <1>. SUFFICES ASSUME Inv, RestoreInHandler, Top.at = "pasteOff"
                PROVE  Inv'
    OBVIOUS
  <1>. DEFINE s == Top.sig
  <1>0. /\ Handler(Fatal, "pasteOff") /\ GoTo("setCooked") /\ TypeOK
        /\ tty' = [tty EXCEPT !.paste = FALSE]
    BY DEF RestoreInHandler, Handler, Inv
  <1>1. TypeOK'
    BY Types DEF Inv, Next, Handling
  <1>2. /\ ended = "no" /\ pc # "install" /\ TypeOK /\ frames # <<>>
        /\ s \in Fatal /\ s \in Signals /\ s # "SIGINT"
        /\ \A y : At(s, y) <=> y = "pasteOff"
        /\ GoTo("setCooked")
        /\ UNCHANGED <<pc, editor, flags, handled, pending, ended, history>>
    BY <1>0, Running, Kinds DEF RestoreInHandler
  <1>3. \A t, y : At(t, y)' <=> IF t = s THEN y = "setCooked" ELSE At(t, y)
    BY <1>2, MoveHandler DEF HandlerSteps
  <1>4. tty' = [mode |-> tty.mode, paste |-> FALSE, kitty |-> tty.kitty]
    BY <1>0, TtyUpdates
  <1>5. tty.mode' = tty.mode /\ tty.paste' = FALSE /\ tty.kitty' = tty.kitty
    BY <1>4
  <1>6. tty = Restored => tty' = Restored
    BY <1>4 DEF Restored
  <1>. HIDE DEF s
  <1>. USE <1>2, <1>3 DEF flags, editor, history
  <1>10. HandlersShape'
    BY Kinds DEF Inv, HandlersShape
  <1>11. Fate'
    BY DEF Inv, Fate
  <1>12. Ownership'
    BY DEF Inv, Ownership, Doomed, HandlerSteps
  <1>13. Restoring'
    BY <1>5 DEF Inv, Restoring, RestoreSteps
  <1>14. ModeByStep'
    BY <1>5, <1>6 DEF Inv, ModeByStep
  <1>15. KittyAccount'
    BY <1>5 DEF Inv, KittyAccount, KittyPopping
  <1>16. Endings'
    BY DEF Inv, Endings
  <1>17. Causes'
    BY DEF Inv, Causes, HandlerSteps
  <1>18. OneKillRestoresMode'
    BY DEF OneKillRestoresMode
  <1> QED
    BY <1>1, <1>10, <1>11, <1>12, <1>13, <1>14, <1>15, <1>16, <1>17, <1>18 DEF Inv

\* It puts the saved mode back.
LEMMA SetCookedStep == Inv /\ RestoreInHandler /\ Top.at = "setCooked" => Inv'
  <1>. SUFFICES ASSUME Inv, RestoreInHandler, Top.at = "setCooked"
                PROVE  Inv'
    OBVIOUS
  <1>. DEFINE s == Top.sig
  <1>0. /\ Handler(Fatal, "setCooked") /\ GoTo("setDefault") /\ TypeOK
        /\ tty' = [tty EXCEPT !.mode = "cooked"]
    BY DEF RestoreInHandler, Handler, Inv
  <1>1. TypeOK'
    BY Types DEF Inv, Next, Handling
  <1>2. /\ ended = "no" /\ pc # "install" /\ TypeOK /\ frames # <<>>
        /\ s \in Fatal /\ s \in Signals /\ s # "SIGINT"
        /\ \A y : At(s, y) <=> y = "setCooked"
        /\ GoTo("setDefault")
        /\ UNCHANGED <<pc, editor, flags, handled, pending, ended, history>>
    BY <1>0, Running, Kinds DEF RestoreInHandler
  <1>3. \A t, y : At(t, y)' <=> IF t = s THEN y = "setDefault" ELSE At(t, y)
    BY <1>2, MoveHandler DEF HandlerSteps
  <1>4. tty' = [mode |-> "cooked", paste |-> tty.paste, kitty |-> tty.kitty]
    BY <1>0, TtyUpdates
  <1>5. tty.mode' = "cooked" /\ tty.paste' = tty.paste /\ tty.kitty' = tty.kitty /\ ~tty.paste
    BY <1>2, <1>4 DEF Inv, Restoring
  <1>6. tty = Restored => tty' = Restored
    BY <1>4 DEF Restored
  <1>. HIDE DEF s
  <1>. USE <1>2, <1>3 DEF flags, editor, history
  <1>10. HandlersShape'
    BY Kinds DEF Inv, HandlersShape
  <1>11. Fate'
    BY DEF Inv, Fate
  <1>12. Ownership'
    BY DEF Inv, Ownership, Doomed, HandlerSteps
  <1>13. Restoring'
    BY <1>5 DEF Inv, Restoring, RestoreSteps
  <1>14. ModeByStep'
    BY <1>5, <1>6 DEF Inv, ModeByStep
  <1>15. KittyAccount'
    BY <1>5 DEF Inv, KittyAccount, KittyPopping
  <1>16. Endings'
    BY DEF Inv, Endings
  <1>17. Causes'
    BY DEF Inv, Causes, HandlerSteps
  <1>18. OneKillRestoresMode'
    BY DEF OneKillRestoresMode
  <1> QED
    BY <1>1, <1>10, <1>11, <1>12, <1>13, <1>14, <1>15, <1>16, <1>17, <1>18 DEF Inv

\* The handler uninstalls itself.
LEMMA SetDefaultStep == Inv /\ SetDefault => Inv'
  <1>. SUFFICES ASSUME Inv, SetDefault
                PROVE  Inv'
    OBVIOUS
  <1>. DEFINE s == Top.sig
  <1>1. TypeOK'
    BY Types DEF Inv, Next, Handling
  <1>2. /\ ended = "no" /\ pc # "install" /\ TypeOK /\ frames # <<>>
        /\ s \in Fatal /\ s \in Signals /\ s # "SIGINT"
        /\ \A y : At(s, y) <=> y = "setDefault"
        /\ GoTo("raise")
        /\ UNCHANGED <<pc, editor, flags, tty, pending, ended, history>>
    BY Running, Kinds DEF SetDefault
  <1>3. \A t, y : At(t, y)' <=> IF t = s THEN y = "raise" ELSE At(t, y)
    BY <1>2, MoveHandler DEF HandlerSteps
  <1>4. handled' = handled \ {s}
    BY DEF SetDefault
  <1>5. Doomed /\ Doomed'
    BY <1>2, <1>3, <1>4 DEF Doomed, HandlerSteps
  <1>6. s \in kills
    BY <1>2 DEF Inv, Causes, HandlerSteps
  <1>. HIDE DEF s
  <1>. USE <1>2, <1>3 DEF flags, editor, history
  <1>10. HandlersShape'
    BY <1>4, Kinds DEF Inv, HandlersShape
  <1>11. Fate'
    BY <1>4 DEF Inv, Fate
  <1>12. Ownership'
    BY <1>5 DEF Inv, Ownership
  <1>13. Restoring'
    BY DEF Inv, Restoring, RestoreSteps
  <1>14. ModeByStep'
    BY DEF Inv, ModeByStep
  <1>15. KittyAccount'
    BY DEF Inv, KittyAccount, KittyPopping
  <1>16. Endings'
    BY DEF Inv, Endings
  <1>17. Causes'
    BY <1>4, <1>6 DEF Inv, Causes
  <1>18. OneKillRestoresMode'
    BY DEF OneKillRestoresMode
  <1> QED
    BY <1>1, <1>10, <1>11, <1>12, <1>13, <1>14, <1>15, <1>16, <1>17, <1>18 DEF Inv

\* It raises its signal again, blocked until it returns.
LEMMA RaiseStep == Inv /\ RaiseAgain => Inv'
  <1>. SUFFICES ASSUME Inv, RaiseAgain
                PROVE  Inv'
    OBVIOUS
  <1>. DEFINE s == Top.sig
  <1>1. TypeOK'
    BY Types DEF Inv, Next, Handling
  <1>2. /\ ended = "no" /\ pc # "install" /\ TypeOK /\ frames # <<>>
        /\ s \in Fatal /\ s \in Signals /\ s # "SIGINT"
        /\ \A y : At(s, y) <=> y = "raise"
        /\ GoTo("return")
        /\ UNCHANGED <<pc, editor, flags, tty, handled, ended, history>>
    BY Running, Kinds DEF RaiseAgain
  <1>3. \A t, y : At(t, y)' <=> IF t = s THEN y = "return" ELSE At(t, y)
    BY <1>2, MoveHandler DEF HandlerSteps
  <1>4. pending' = pending \cup {s}
    BY DEF RaiseAgain
  <1>6. s \in kills
    BY <1>2 DEF Inv, Causes, HandlerSteps
  <1>. HIDE DEF s
  <1>. USE <1>2, <1>3 DEF flags, editor, history
  <1>10. HandlersShape'
    BY Kinds DEF Inv, HandlersShape
  <1>11. Fate'
    BY <1>4 DEF Inv, Fate
  <1>12. Ownership'
    BY DEF Inv, Ownership, Doomed, HandlerSteps
  <1>13. Restoring'
    BY DEF Inv, Restoring, RestoreSteps
  <1>14. ModeByStep'
    BY DEF Inv, ModeByStep
  <1>15. KittyAccount'
    BY DEF Inv, KittyAccount, KittyPopping
  <1>16. Endings'
    BY DEF Inv, Endings
  <1>17. Causes'
    BY <1>4, <1>6 DEF Inv, Causes, HandlerSteps
  <1>18. OneKillRestoresMode'
    BY DEF OneKillRestoresMode
  <1> QED
    BY <1>1, <1>10, <1>11, <1>12, <1>13, <1>14, <1>15, <1>16, <1>17, <1>18 DEF Inv

\* A handler returns: a fatal one leaves its signal pending, not handled.
LEMMA ReturnStep == Inv /\ ReturnFromHandler => Inv'
  <1>. SUFFICES ASSUME Inv, ReturnFromHandler
                PROVE  Inv'
    OBVIOUS
  <1>. DEFINE s == Top.sig
  <1>1. TypeOK'
    BY Types DEF Inv, Next, Handling
  <1>2. /\ ended = "no" /\ pc # "install" /\ TypeOK /\ frames # <<>> /\ s \in Signals
        /\ \A y : At(s, y) <=> y = "return"
        /\ UNCHANGED <<pc, editor, flags, tty, handled, pending, ended, history>>
    BY Running DEF ReturnFromHandler
  <1>3. \A t, y : At(t, y)' <=> At(t, y) /\ t # s
    BY <1>2, PopHandler DEF ReturnFromHandler
  <1>4. s \in Fatal => s \notin handled
    BY <1>2 DEF Inv, Fate
  <1>. HIDE DEF s
  <1>. USE <1>2, <1>3 DEF flags, editor, history
  <1>5. HandlersShape'
    BY DEF Inv, HandlersShape
  <1>6. Fate'
    BY DEF Inv, Fate
  <1>7. Ownership'
    BY <1>4 DEF Inv, Ownership, Doomed
  <1>8. Restoring'
    BY DEF Inv, Restoring, RestoreSteps
  <1>9. ModeByStep'
    BY DEF Inv, ModeByStep
  <1>10. KittyAccount'
    BY DEF Inv, KittyAccount, KittyPopping
  <1>11. Endings'
    BY DEF Inv, Endings
  <1>12. Causes'
    BY DEF Inv, Causes
  <1>13. OneKillRestoresMode'
    BY DEF OneKillRestoresMode
  <1> QED
    BY <1>1, <1>5, <1>6, <1>7, <1>8, <1>9, <1>10, <1>11, <1>12, <1>13 DEF Inv

\* Nothing happens.
LEMMA StutterStep == Inv /\ UNCHANGED vars => Inv'
  <1>. SUFFICES ASSUME Inv, UNCHANGED vars
                PROVE  Inv'
    OBVIOUS
  <1>. USE DEF vars, editor, flags, signals, history
  <1>1. \A t, y : At(t, y)' <=> At(t, y)
    BY DEF At
  <1>2. TypeOK'
    BY Types DEF Inv
  <1>3. HandlersShape' /\ Fate' /\ Ownership'
    BY <1>1 DEF Inv, HandlersShape, Fate, Ownership, Doomed
  <1>4. Restoring' /\ ModeByStep' /\ KittyAccount'
    BY <1>1 DEF Inv, Restoring, ModeByStep, KittyAccount, KittyPopping
  <1>5. Endings' /\ Causes' /\ OneKillRestoresMode'
    BY <1>1 DEF Inv, Endings, Causes, OneKillRestoresMode
  <1> QED
    BY <1>2, <1>3, <1>4, <1>5 DEF Inv

-----------------------------------------------------------------------------
(* Theorems. *)

\* The inductive invariant holds in every reachable state.
THEOREM Invariance == Spec => []Inv
  <1>1. Init => Inv
    <2>1. Init => TypeOK
      <3>1. Init => Frames
        <4>. DEFINE H == [sig : Signals, at : HandlerSteps]
        <4>. HIDE DEF H
        <4>1. <<>> \in Seq(H)
          OBVIOUS
        <4> QED
          BY <4>1 DEF Init, Frames, H
      <3>2. Restored \in TtyState
        BY DEF Restored, TtyState
      <3>3. Init => {rawActive, kittyActive, programRunning, probed, supported} \subseteq BOOLEAN
        BY DEF Init
      <3>4. Init => pc \in Steps /\ interrupts \in 0..MaxInterrupts
        BY InterruptsAssumption DEF Init, Steps
      <3> QED
        BY <3>1, <3>2, <3>3, <3>4 DEF Init, TypeOK, Frames
    <2>2. Init => Calm
      BY <2>1 DEF Init, Calm, Restored, ModeByStep, Endings, Marked
    <2> QED
      BY <2>2, CalmAfter
  <1>2. Inv /\ [Next]_vars => Inv'
    <2>. SUFFICES ASSUME Inv, [Next]_vars
                  PROVE  Inv'
      OBVIOUS
    <2>1. ASSUME NEW s \in Signals, Deliver(s)
          PROVE  Inv'
      BY <2>1, KilledStep, HandledStep
    <2>2. CASE RestoreInHandler
      BY <2>2, KittyPopStep, PasteOffStep, SetCookedStep DEF RestoreInHandler, Handler
    <2> QED
      BY <2>1, <2>2, MainStep, SendStep, SigintStep, TakeRawStep, TakeKittyStep, SetDefaultStep,
         RaiseStep, ReturnStep, StutterStep
      DEF Next, Handling
  <1> QED
    BY <1>1, <1>2, PTL DEF Spec

\* Every variable stays in its range and no handler is entered while it is in
\* progress (the handlers of cli/Terminal.h run with their own signal blocked).
THEOREM TypeCorrect == Spec => []TypeOK
  <1>1. Inv => TypeOK
    BY DEF Inv
  <1> QED
    BY <1>1, Invariance, PTL

\* Whatever signals cut in, in any order and at any step: while executeSource
\* runs an entry, and when sigintHandler or a command ends the shell, the
\* terminal is as the shell found it.
THEOREM NormalModeCorrect == Spec => []RunsInNormalMode
  <1>1. Inv => RunsInNormalMode
    BY DEF Inv, RunsInNormalMode, Endings, ModeByStep, Marked
  <1> QED
    BY <1>1, Invariance, PTL

\* LineEditor and restoreTerminalFromSignal pop, between them, the Kitty level
\* that was pushed, and pop it once.
THEOREM KittyCorrect == Spec => []KittyBalanced
  <1>1. Inv => KittyBalanced
    BY DEF Inv, KittyBalanced, KittyAccount
  <1> QED
    BY <1>1, Invariance, PTL

\* A process that one SIGTERM or one SIGHUP ended, however many SIGINTs came
\* with it, left the terminal cooked and bracketed paste off.
THEOREM OneKillCorrect == Spec => []OneKillRestoresMode
  <1>1. Inv => OneKillRestoresMode
    BY DEF Inv
  <1> QED
    BY <1>1, Invariance, PTL

\* Once a fatal handler has looked at g_rawActive, the main thread takes no
\* step any more: nothing it does can undo or race what the handler restores.
THEOREM DoomedStaysStopped == Spec => [][Doomed => UNCHANGED <<pc, editor, programRunning>>]_vars
  <1>1. ASSUME Inv, [Next]_vars, Doomed
        PROVE  UNCHANGED <<pc, editor, programRunning>>
    <2>1. \A p : ~Main(p)
      <3>. SUFFICES ASSUME NEW p, Main(p)
                    PROVE  FALSE
        OBVIOUS
      <3>1. Calm
        BY <1>1, CalmBefore
      <3>2. Fatal \subseteq handled /\ \A s, x : ~At(s, x)
        BY <1>1, <3>1 DEF Calm, Doomed, Signals, At
      <3> QED
        BY <1>1, <3>2 DEF Doomed
    <2>2. ~Shell
      BY <2>1 DEF Shell, Enable, Disable, Install, Edit, ReadSimple, Dispatch, Start, RunEntry,
                  Stop, Prompt, MarkRaw, SetRaw, UnmarkFailed, PasteOn, Probe, KittyPush, MarkKitty,
                  TakeKitty, KittyPop, PasteOff, SetCooked, UnmarkRaw
    <2>3. CASE Handling
      BY <2>3 DEF Handling, Deliver, TestRunning, TakeRawInHandler, TakeKittyInHandler,
                  RestoreInHandler, SetDefault, RaiseAgain, ReturnFromHandler, editor, flags
    <2>4. CASE SendInterrupt \/ (\E s \in Fatal : SendFatal(s)) \/ UNCHANGED vars
      BY <2>4 DEF SendInterrupt, SendFatal, vars, editor, flags
    <2> QED
      BY <1>1, <2>2, <2>3, <2>4 DEF Next
  <1>2. Inv /\ [Next]_vars => [Doomed => UNCHANGED <<pc, editor, programRunning>>]_vars
    BY <1>1
  <1> QED
    BY <1>2, Invariance, PTL DEF Spec
=============================================================================
