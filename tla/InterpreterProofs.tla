------------------------- MODULE InterpreterProofs -------------------------
(***************************************************************************)
(* Proofs about Interpreter for every value of its constants: however      *)
(* calls, guards, objects and loads nest, and whatever is thrown through   *)
(* them, the flags, the depths and the import marks agree with the frames  *)
(* that are open, and a run that is over has left nothing behind.          *)
(*                                                                         *)
(* The argument: `Shape` says what the stack looks like.  From it, Next is *)
(* reduced to a dozen moves of the stack (`StackMove`), each with what it  *)
(* does to the flags, the depths and the marks; each of the other          *)
(* invariants is then preserved move by move.                              *)
(*                                                                         *)
(* The second half is about the async task queue: no queued call is lost,  *)
(* started twice or kept into another run, however drains nest and         *)
(* whatever unwinds them, and the queue is the one AsyncTasks promises.    *)
(* There the moves of the stack are reduced to what they do to the calls   *)
(* that are running, so that every step is one of a few moves of the tasks *)
(* (`TaskMove`); the accounts are kept, and the promise is, move by move.  *)
(***************************************************************************)
EXTENDS Interpreter, FiniteSetTheorems, TLAPS

-----------------------------------------------------------------------------
(* Types and the shape of the stack. *)

\* Frames are frames, only the outermost is the program's, and only the frames
\* that run an execProgram ever drain the queue.
StackShape(s) ==
    /\ s \in Seq(Frame)
    /\ \A i \in 1..Len(s) : i = 1 <=> s[i].kind = "program"
    /\ \A i \in 1..Len(s) : s[i].draining => s[i].kind \in {"program", "module"}

Shape ==
    /\ mode \in {"idle", "running", "raising"}
    /\ error \in {"none", "recoverable", "fatal"}
    /\ StackShape(stack)
    /\ context \in Context
    /\ mode = "idle" <=> stack = <<>>
    /\ mode = "raising" <=> error # "none"

QueueShape ==
    /\ taskQueue \in Seq(QueuedTask)
    /\ Len(taskQueue) <= MaxQueuedTasks
    /\ nextTask \in 1..(MaxTasks + 1)
    /\ mode = "idle" => taskQueue = <<>>

\* A sequence without its last element keeps the others.
LEMMA Pop ==
    ASSUME NEW S, NEW s \in Seq(S), NEW n \in Nat, Len(s) = n, n > 0,
           NEW b, b = SubSeq(s, 1, n - 1)
    PROVE  /\ b \in Seq(S)
           /\ Len(b) = n - 1
           /\ \A i \in 1..(n - 1) : b[i] = s[i]
  OBVIOUS

\* A sequence with one element more keeps the others.
LEMMA Push ==
    ASSUME NEW S, NEW s \in Seq(S), NEW n \in Nat, Len(s) = n, NEW f \in S
    PROVE  /\ Append(s, f) \in Seq(S)
           /\ Len(Append(s, f)) = n + 1
           /\ \A i \in 1..n : Append(s, f)[i] = s[i]
           /\ Append(s, f)[n + 1] = f
  OBVIOUS

\* Removing, adding and replacing the innermost frame keep the shape.
LEMMA PopShape ==
    ASSUME NEW s, StackShape(s), NEW n \in Nat, Len(s) = n, n > 0
    PROVE  StackShape(SubSeq(s, 1, n - 1))
  BY Pop DEF StackShape

\* Adding a frame keeps the shape, when only the first is the program's.
LEMMA PushShape ==
    ASSUME NEW s, StackShape(s), NEW n \in Nat, Len(s) = n, NEW f \in Frame,
           n = 0 <=> f.kind = "program",
           f.draining => f.kind \in {"program", "module"}
    PROVE  StackShape(Append(s, f))
  <1>. DEFINE t == Append(s, f)
  <1>1. /\ t \in Seq(Frame)
        /\ Len(t) = n + 1
        /\ \A i \in 1..n : t[i] = s[i]
        /\ t[n + 1] = f
    BY Push DEF StackShape
  <1>. HIDE DEF t
  <1>2. \A i \in 1..(n + 1) : i \in 1..n \/ i = n + 1
    OBVIOUS
  <1>3. StackShape(t)
    BY <1>1, <1>2 DEF StackShape
  <1> QED
    BY <1>3 DEF t

\* Replacing the innermost frame by one of the same sort keeps the shape.
LEMMA SwapShape ==
    ASSUME NEW s, StackShape(s), NEW n \in Nat, Len(s) = n, n > 0, NEW f \in Frame,
           f.kind = "program" <=> s[n].kind = "program",
           f.draining => f.kind \in {"program", "module"}
    PROVE  StackShape(Append(SubSeq(s, 1, n - 1), f))
  <1>. DEFINE b == SubSeq(s, 1, n - 1)
  <1>1. StackShape(b) /\ Len(b) = n - 1 /\ n - 1 \in Nat
    BY PopShape, Pop DEF StackShape
  <1>2. n = 1 <=> s[n].kind = "program"
    BY DEF StackShape
  <1>3. n - 1 = 0 <=> f.kind = "program"
    BY <1>2
  <1>. HIDE DEF b
  <1>4. StackShape(Append(b, f))
    BY <1>1, <1>3, PushShape
  <1> QED
    BY <1>4 DEF b

\* The frames the actions build are frames.
LEMMA FrameTypes ==
    /\ TopContext \in Context
    /\ \A k \in FrameKind : PlainFrame(k) \in Frame
    /\ \A m \in Modules : ModuleFrame(m) \in Frame
    /\ \A c \in Context : DefaultsFrame(c) \in Frame
    /\ \A d \in Decl, t \in TaskId \cup {0}, c \in Context : CallFrame(d, t, c) \in Frame
  <1>1. TopContext \in Context
    BY DEF TopContext, Context
  <1>2. MaxBody \in 0..MaxBody /\ TopDecl \in Decl
    BY BoundsAssumption DEF TopDecl, Decl
  <1>3. \A k \in FrameKind : PlainFrame(k) \in Frame
    BY <1>1, <1>2 DEF PlainFrame, Frame
  <1>4. {"module", "defaults", "call"} \subseteq FrameKind
    BY DEF FrameKind
  <1> QED
    BY <1>1, <1>2, <1>3, <1>4 DEF ModuleFrame, DefaultsFrame, CallFrame, PlainFrame, Frame

\* So are those they change.
LEMMA FrameUpdates ==
    ASSUME NEW f \in Frame
    PROVE  /\ f.todo > 0 => Spent(f) \in Frame
           /\ [f EXCEPT !.draining = TRUE] \in Frame
           /\ [f EXCEPT !.todo = MaxBody] \in Frame
  <1>1. f.todo \in 0..MaxBody /\ MaxBody \in Nat
    BY BoundsAssumption DEF Frame
  <1>2. ASSUME f.todo > 0
        PROVE  Spent(f) \in Frame
    <2>1. f.todo - 1 \in 0..MaxBody
      BY <1>1, <1>2
    <2>2. \A v \in 0..MaxBody : [f EXCEPT !.todo = v] \in Frame
      BY DEF Frame
    <2> QED
      BY <2>1, <2>2 DEF Spent
  <1>3. [f EXCEPT !.draining = TRUE] \in Frame
    BY DEF Frame
  <1>4. [f EXCEPT !.todo = MaxBody] \in Frame
    BY <1>1 DEF Frame
  <1> QED
    BY <1>2, <1>3, <1>4

\* The frame a statement leaves behind when it is spent is the same frame but
\* for its count.
SameFrame(f, g) ==
    /\ f.kind = g.kind /\ f.path = g.path /\ f.decl = g.decl
    /\ f.task = g.task /\ f.saved = g.saved

Kept(s, t, k) == \A i \in 1..k : SameFrame(s[i], t[i])

\* What the operators on the stack return on a stack that is not empty.
LEMMA Ops ==
    ASSUME StackShape(stack), NEW n \in Nat, Len(stack) = n, n > 0
    PROVE  /\ Depth = n
           /\ Top = stack[n] /\ Top \in Frame
           /\ StackShape(Below) /\ Len(Below) = n - 1 /\ Kept(Below, stack, n - 1)
           /\ Top.todo > 0 => /\ StackShape(Rest) /\ Len(Rest) = n
                              /\ Kept(Rest, stack, n)
                              /\ Rest[n].draining = Top.draining
  <1>1. Depth = n /\ Top = stack[n] /\ Top \in Frame
    BY DEF Depth, Top, StackShape
  <1>2. /\ Below \in Seq(Frame)
        /\ Len(Below) = n - 1
        /\ \A i \in 1..(n - 1) : Below[i] = stack[i]
    BY <1>1, Pop DEF Below, StackShape
  <1>3. StackShape(Below)
    BY <1>1, PopShape DEF Below
  <1>4. ASSUME Top.todo > 0
        PROVE  /\ StackShape(Rest) /\ Len(Rest) = n
               /\ Kept(Rest, stack, n)
               /\ Rest[n].draining = Top.draining
    <2>1. Spent(Top) \in Frame
      BY <1>1, <1>4, FrameUpdates
    <2>2. SameFrame(Spent(Top), Top) /\ Spent(Top).draining = Top.draining
      BY <1>1 DEF Spent, SameFrame, Frame
    <2>3. StackShape(Rest)
      <3>1. Top.draining => Top.kind \in {"program", "module"}
        BY <1>1 DEF StackShape
      <3> QED
        BY <1>1, <2>1, <2>2, <3>1, SwapShape DEF Rest, Below, SameFrame
    <2>4. /\ Len(Rest) = n
          /\ \A i \in 1..(n - 1) : Rest[i] = Below[i]
          /\ Rest[n] = Spent(Top)
      <3>1. n - 1 \in Nat /\ n - 1 + 1 = n
        OBVIOUS
      <3> QED
        BY <1>2, <2>1, <3>1, Push DEF Rest
    <2>5. ASSUME NEW i \in 1..n
          PROVE  SameFrame(Rest[i], stack[i])
      <3>1. CASE i = n
        BY <1>1, <2>2, <2>4, <3>1
      <3>2. CASE i \in 1..(n - 1)
        BY <1>2, <2>4, <3>2 DEF SameFrame
      <3> QED
        BY <3>1, <3>2
    <2> QED
      BY <2>2, <2>3, <2>4, <2>5 DEF Kept
  <1> QED
    BY <1>1, <1>2, <1>3, <1>4 DEF Kept, SameFrame

-----------------------------------------------------------------------------
(* The moves of the stack.  n is its depth before the step. *)

Plain == UNCHANGED <<context, callDepth, imports>>

Stay(n)     == Len(stack') = n /\ Kept(stack', stack, n)
Grow(n, k)  == /\ n > 0 /\ Len(stack') = n + 1 /\ Kept(stack', stack, n)
               /\ stack'[n + 1].kind = k
Shrink(n)   == n > 0 /\ Len(stack') = n - 1 /\ Kept(stack', stack, n - 1)
Swap(n, k)  == /\ n > 0 /\ Len(stack') = n /\ Kept(stack', stack, n - 1)
               /\ stack'[n].kind = k

OpenRun(n)  == n = 0 /\ Len(stack') = 1 /\ stack'[1].kind = "program" /\ Plain
CloseRun(n) == n = 1 /\ Len(stack') = 0 /\ Plain /\ stack[1].kind = "program"
Renew(n)    == /\ n = 0 /\ Len(stack') = 0
               /\ context' = TopContext /\ callDepth' = 0
               /\ moduleDepth' = 0 /\ importedPaths' = {} /\ completed' = {}

\* FrameGuard is built at index i from the context c.
CallOpened(i, c) ==
    /\ stack'[i].saved = c
    /\ stack'[i].decl \in Decl
    /\ context' = [inFunctionBody |-> TRUE, pure |-> stack'[i].decl.pure,
                   owner |-> stack'[i].decl.owner]
    /\ callDepth < MaxCallDepth
    /\ callDepth' = callDepth + 1
    /\ UNCHANGED imports

PushCall(n) == Grow(n, "call") /\ CallOpened(n + 1, context)
SwapInit(n) == /\ stack[n].kind = "defaults"
               /\ Swap(n, "call")
               /\ CallOpened(n, Restored(stack[n]))
PopCall(n)  == /\ stack[n].kind = "call"
               /\ Shrink(n)
               /\ context' = stack[n].saved
               /\ callDepth' = callDepth - 1
               /\ UNCHANGED imports

PushDefaults(n) ==
    /\ Grow(n, "defaults")
    /\ stack'[n + 1].saved = context
    /\ context' = [context EXCEPT !.inFunctionBody = FALSE, !.owner = NoOwner]
    /\ UNCHANGED <<callDepth, imports>>
PopDefaults(n) ==
    /\ stack[n].kind = "defaults"
    /\ Shrink(n)
    /\ context' = Restored(stack[n])
    /\ UNCHANGED <<callDepth, imports>>

PushModule(n) ==
    /\ Grow(n, "module")
    /\ stack'[n + 1].path \in Modules \ importedPaths
    /\ importedPaths' = importedPaths \cup {stack'[n + 1].path}
    /\ moduleDepth < MaxImportDepth
    /\ moduleDepth' = moduleDepth + 1
    /\ UNCHANGED <<context, callDepth, completed>>
PopModule(n) ==
    /\ stack[n].kind = "module"
    /\ Shrink(n)
    /\ moduleDepth' = moduleDepth - 1
    /\ \/ /\ completed' = completed \cup {stack[n].path}
          /\ UNCHANGED importedPaths
       \/ /\ importedPaths' = importedPaths \ {stack[n].path}
          /\ UNCHANGED completed
    /\ UNCHANGED <<context, callDepth>>

PushGuard(n) == Grow(n, "try") /\ Plain
SwapGuard(n) == stack[n].kind = "try" /\ Swap(n, "handler") /\ Plain
PopGuard(n)  == stack[n].kind \in {"try", "handler"} /\ Shrink(n) /\ Plain

StackMove(n) ==
    \/ Stay(n) /\ Plain
    \/ OpenRun(n) \/ CloseRun(n) \/ Renew(n)
    \/ PushCall(n) \/ SwapInit(n) \/ PopCall(n)
    \/ PushDefaults(n) \/ PopDefaults(n)
    \/ PushModule(n) \/ PopModule(n)
    \/ PushGuard(n) \/ SwapGuard(n) \/ PopGuard(n)

-----------------------------------------------------------------------------
(* Every step is a move. *)

\* A step that drops the innermost frame.
LEMMA ShrinkStep ==
    ASSUME StackShape(stack), NEW n \in Nat, Len(stack) = n, n > 0, stack' = Below
    PROVE  StackShape(stack') /\ Shrink(n)
  BY Ops DEF Shrink

\* A step that spends a statement of the innermost frame.
LEMMA SpendStay ==
    ASSUME StackShape(stack), NEW n \in Nat, Len(stack) = n, n > 0,
           Top.todo > 0, stack' = Rest
    PROVE  StackShape(stack') /\ Stay(n)
  BY Ops DEF Stay

\* A step that adds the frame f on top of s, which has the frames of the stack.
LEMMA GrowStep ==
    ASSUME NEW s, StackShape(s), NEW n \in Nat, Len(s) = n, n > 0, Kept(s, stack, n),
           NEW f \in Frame, f.kind # "program", ~f.draining, stack' = Append(s, f)
    PROVE  /\ StackShape(stack') /\ Grow(n, f.kind)
           /\ stack'[n + 1] = f
  <1>1. StackShape(stack')
    BY PushShape
  <1>2. /\ Len(stack') = n + 1
        /\ \A i \in 1..n : stack'[i] = s[i]
        /\ stack'[n + 1] = f
    BY Push DEF StackShape
  <1> QED
    BY <1>1, <1>2 DEF Grow, Kept

\* A step that puts f where the innermost frame was.
LEMMA SwapStep ==
    ASSUME StackShape(stack), NEW n \in Nat, Len(stack) = n, n > 0,
           NEW f \in Frame, f.kind = "program" <=> Top.kind = "program",
           f.draining => f.kind \in {"program", "module"},
           stack' = Append(Below, f)
    PROVE  /\ StackShape(stack') /\ Swap(n, f.kind)
           /\ stack'[n] = f
  <1>1. /\ Top = stack[n]
        /\ StackShape(Below) /\ Len(Below) = n - 1 /\ Kept(Below, stack, n - 1)
        /\ n - 1 \in Nat /\ n - 1 + 1 = n
    BY Ops
  <1>2. StackShape(stack')
    BY <1>1, SwapShape, Ops DEF Below
  <1>3. /\ Len(stack') = n
        /\ \A i \in 1..(n - 1) : stack'[i] = Below[i]
        /\ stack'[n] = f
    BY <1>1, Push DEF StackShape
  <1> QED
    BY <1>1, <1>2, <1>3 DEF Swap, Kept

\* What a step must show: the stack it leaves is one, and the step is a move.
Moved(n) == /\ StackShape(stack')
            /\ context' \in Context
            /\ mode' = "idle" <=> Len(stack') = 0
            /\ StackMove(n)

\* A step that leaves the frames alone, or spends one statement of the innermost.
LEMMA PlainSteps ==
    ASSUME Shape, NEW n \in Nat, Len(stack) = n, n > 0, mode' # "idle"
    PROVE  /\ stack' = stack /\ Plain => Moved(n)
           /\ Top.todo > 0 /\ stack' = Rest /\ Plain => Moved(n)
  <1>1. Kept(stack, stack, n)
    BY DEF Kept, SameFrame
  <1>2. ASSUME stack' = stack, Plain
        PROVE  Moved(n)
    BY <1>1, <1>2 DEF Shape, Moved, StackMove, Stay, Plain
  <1>3. ASSUME Top.todo > 0, stack' = Rest, Plain
        PROVE  Moved(n)
    <2>1. StackShape(stack') /\ Stay(n)
      BY <1>3, SpendStay DEF Shape
    <2> QED
      BY <1>3, <2>1 DEF Shape, Moved, StackMove, Stay, Plain
  <1> QED
    BY <1>2, <1>3

\* CallUserFunction by code of the innermost frame, on the frames s of the stack.
LEMMA CallStep ==
    ASSUME Shape, mode = "running", NEW n \in Nat, Len(stack) = n, n > 0,
           NEW s, StackShape(s), Len(s) = n, Kept(s, stack, n),
           NEW d \in Decl, NEW t \in TaskId \cup {0},
           CallUserFunction(d, t, context, s), UNCHANGED imports
    PROVE  Moved(n)
  <1>. DEFINE f == CallFrame(d, t, context)
  <1>1. CASE stack' = s /\ context' = context /\ UNCHANGED callDepth /\ mode' # "idle"
    BY <1>1 DEF Shape, Moved, StackMove, Stay, Plain
  <1>2. CASE /\ stack' = Append(s, f)
             /\ context' = [inFunctionBody |-> TRUE, pure |-> d.pure, owner |-> d.owner]
             /\ callDepth' = callDepth + 1
             /\ callDepth < MaxCallDepth
             /\ mode' # "idle"
    <2>1. f \in Frame /\ context' \in Context
      BY <1>2, FrameTypes DEF Shape, Context, Decl
    <2>2. f.kind = "call" /\ ~f.draining /\ f.decl = d /\ f.saved = context
      BY DEF CallFrame, PlainFrame
    <2>. HIDE DEF f
    <2>3. /\ StackShape(stack') /\ Grow(n, "call") /\ stack'[n + 1] = f
      BY <1>2, <2>1, <2>2, GrowStep
    <2>4. CallOpened(n + 1, context)
      BY <1>2, <2>2, <2>3 DEF CallOpened
    <2>5. Len(stack') # 0
      BY <2>3 DEF Grow
    <2> QED
      BY <1>2, <2>1, <2>3, <2>4, <2>5 DEF Moved, StackMove, PushCall
  <1>3. \/ stack' = s /\ context' = context /\ UNCHANGED callDepth /\ mode' # "idle"
        \/ /\ stack' = Append(s, f)
           /\ context' = [inFunctionBody |-> TRUE, pure |-> d.pure, owner |-> d.owner]
           /\ callDepth' = callDepth + 1
           /\ callDepth < MaxCallDepth
           /\ mode' # "idle"
    BY DEF CallUserFunction, Throw
  <1> QED
    BY <1>1, <1>2, <1>3

\* CallUserFunction of an init, in the place of the frame of the defaults.
LEMMA InitStep ==
    ASSUME Shape, mode = "running", NEW n \in Nat, Len(stack) = n, n > 0,
           Top.kind = "defaults", NEW d \in Decl,
           CallUserFunction(d, 0, Restored(Top), Below), UNCHANGED imports
    PROVE  Moved(n)
  <1>. DEFINE c == Restored(Top)
              f == CallFrame(d, 0, c)
  <1>1. /\ Top = stack[n] /\ Top \in Frame /\ c \in Context
        /\ StackShape(Below) /\ Len(Below) = n - 1
        /\ n > 1
    <2>1. /\ Top = stack[n] /\ Top \in Frame
          /\ StackShape(Below) /\ Len(Below) = n - 1
      BY Ops DEF Shape
    <2>2. c \in Context
      BY <2>1 DEF Shape, Restored, Context, Frame
    <2>3. n # 1
      BY <2>1 DEF Shape, StackShape
    <2> QED
      BY <2>1, <2>2, <2>3
  <1>2. CASE stack' = Below /\ context' = c /\ UNCHANGED callDepth /\ mode' # "idle"
    <2>1. StackShape(stack') /\ Shrink(n) /\ Len(stack') # 0
      BY <1>1, <1>2, ShrinkStep DEF Shape
    <2> QED
      BY <1>1, <1>2, <2>1 DEF Moved, StackMove, PopDefaults
  <1>3. CASE /\ stack' = Append(Below, f)
             /\ context' = [inFunctionBody |-> TRUE, pure |-> d.pure, owner |-> d.owner]
             /\ callDepth' = callDepth + 1
             /\ callDepth < MaxCallDepth
             /\ mode' # "idle"
    <2>1. f \in Frame /\ context' \in Context
      BY <1>1, <1>3, FrameTypes DEF Context, Decl
    <2>2. f.kind = "call" /\ ~f.draining /\ f.decl = d /\ f.saved = c
      BY DEF CallFrame, PlainFrame
    <2>. HIDE DEF f, c
    <2>3. StackShape(stack') /\ Swap(n, "call") /\ stack'[n] = f
      BY <1>3, <2>1, <2>2, SwapStep DEF Shape
    <2>4. CallOpened(n, c)
      BY <1>3, <2>2, <2>3 DEF CallOpened
    <2>5. Len(stack') # 0
      BY <2>3 DEF Swap
    <2> QED
      BY <1>1, <1>3, <2>1, <2>3, <2>4, <2>5 DEF Moved, StackMove, SwapInit, c
  <1>4. \/ stack' = Below /\ context' = c /\ UNCHANGED callDepth /\ mode' # "idle"
        \/ /\ stack' = Append(Below, f)
           /\ context' = [inFunctionBody |-> TRUE, pure |-> d.pure, owner |-> d.owner]
           /\ callDepth' = callDepth + 1
           /\ callDepth < MaxCallDepth
           /\ mode' # "idle"
    BY DEF CallUserFunction, Throw
  <1> QED
    BY <1>2, <1>3, <1>4

\* Every step of the machine is one of the moves.
LEMMA Moves ==
    ASSUME Shape, QueueShape, [Next]_vars, NEW n \in Nat, Len(stack) = n
    PROVE  Moved(n)
  <1>. USE DEF Shape
  <1>1. CASE UNCHANGED vars
    <2>1. stack' = stack /\ Plain /\ UNCHANGED mode
      BY <1>1 DEF vars, control, imports, Plain
    <2> QED
      BY <2>1 DEF Moved, StackMove, Stay, Kept, SameFrame, Plain
  <1>2. CASE Run
    <2>1. PlainFrame("program") \in Frame
      BY FrameTypes DEF FrameKind
    <2>2. StackShape(stack') /\ Len(stack') = 1 /\ stack'[1].kind = "program"
      BY <1>2, <2>1 DEF Run, StackShape, PlainFrame
    <2> QED
      BY <1>2, <2>2 DEF Run, Moved, StackMove, OpenRun, Plain, imports
  <1>3. CASE Reset
    <2>1. n = 0 /\ Len(stack') = 0 /\ StackShape(stack') /\ context' \in Context
      BY <1>3, FrameTypes DEF Reset
    <2> QED
      BY <1>3, <2>1 DEF Reset, Moved, StackMove, Renew
  <1>4. ASSUME mode # "idle"
        PROVE  /\ n > 0 /\ Depth = n /\ Top = stack[n] /\ Top \in Frame
               /\ Kept(stack, stack, n)
               /\ Top.todo > 0 => StackShape(Rest) /\ Len(Rest) = n /\ Kept(Rest, stack, n)
               /\ Top.kind # "program" => n > 1
               /\ Top.kind = "program" => n = 1
    <2>1. n > 0
      BY <1>4
    <2>2. Depth = n /\ Top = stack[n] /\ Top \in Frame
      BY <2>1, Ops
    <2>3. Kept(stack, stack, n)
      BY DEF Kept, SameFrame
    <2>4. Top.todo > 0 => StackShape(Rest) /\ Len(Rest) = n /\ Kept(Rest, stack, n)
      BY <2>1, Ops
    <2>5. n = 1 <=> stack[n].kind = "program"
      BY <2>1 DEF StackShape
    <2> QED
      BY <2>1, <2>2, <2>3, <2>4, <2>5
  <1>5. CASE BeginDrain
    <2>1. [Top EXCEPT !.draining = TRUE] \in Frame
      BY <1>4, <1>5, FrameUpdates DEF BeginDrain
    <2>2. SameFrame([Top EXCEPT !.draining = TRUE], Top)
      BY <1>4, <1>5 DEF BeginDrain, SameFrame, Frame
    <2>3. StackShape(stack') /\ Swap(n, Top.kind) /\ SameFrame(stack'[n], stack[n])
      <3>. DEFINE f == [Top EXCEPT !.draining = TRUE]
      <3>1. f \in Frame /\ f.kind = Top.kind /\ SameFrame(f, Top)
        BY <2>1, <2>2 DEF SameFrame
      <3>2. mode # "idle" /\ stack' = Append(Below, f) /\ f.kind \in {"program", "module"}
        BY <1>5, <3>1 DEF BeginDrain
      <3>. HIDE DEF f
      <3> QED
        BY <1>4, <3>1, <3>2, SwapStep
    <2>4. Stay(n)
      BY <1>4, <1>5, <2>3 DEF BeginDrain, Stay, Swap, Kept
    <2> QED
      BY <1>4, <1>5, <2>3, <2>4 DEF BeginDrain, Moved, StackMove, Stay, Plain, imports
  <1>6. CASE EndRun \/ AbortRun
    <2>1. mode # "idle" /\ Top.kind = "program" /\ stack' = <<>>
      BY <1>6 DEF EndRun, AbortRun
    <2>2. StackShape(<<>>)
      BY DEF StackShape
    <2>3. n = 1 /\ Len(stack') = 0 /\ StackShape(stack') /\ stack[1].kind = "program"
      BY <1>4, <2>1, <2>2
    <2> QED
      BY <1>6, <2>3 DEF EndRun, AbortRun, Moved, StackMove, CloseRun, Plain, imports
  <1>7. CASE Call \/ Display
    <2>1. PICK d \in Decl : CallUserFunction(d, 0, context, Rest)
      BY <1>7 DEF Call, Display
    <2>2. mode = "running" /\ Top.todo > 0 /\ UNCHANGED imports
      BY <1>7 DEF Call, Display, Executing
    <2> QED
      BY <1>4, <2>1, <2>2, CallStep
  <1>8. CASE RunTask
    <2>1. mode = "running" /\ UNCHANGED imports
      BY <1>8 DEF RunTask
    <2>2. Head(taskQueue) \in QueuedTask
      BY <1>8 DEF RunTask, QueueShape
    <2> QED
      BY <1>4, <1>8, <2>1, <2>2, CallStep DEF RunTask, QueuedTask
  <1>9. CASE Queue
    <2>1. stack' = Rest /\ Plain /\ mode' # "idle" /\ Top.todo > 0
      BY <1>9 DEF Queue, Executing, Throw, Plain
    <2> QED
      BY <1>4, <1>9, <2>1, PlainSteps DEF Queue, Executing
  <1>10. CASE Return \/ UnwindCall
    <2>1. /\ mode # "idle" /\ mode' # "idle" /\ stack' = Below /\ Top.kind = "call"
          /\ context' = Top.saved /\ callDepth' = callDepth - 1 /\ UNCHANGED imports
      BY <1>10 DEF Return, UnwindCall
    <2>2. StackShape(stack') /\ Shrink(n)
      BY <1>4, <2>1, ShrinkStep
    <2> QED
      BY <1>4, <2>1, <2>2 DEF Moved, StackMove, PopCall, Shrink, Frame
  <1>11. CASE LoopPass
    <2>1. mode # "idle" /\ mode' # "idle" /\ Plain
      BY <1>11 DEF LoopPass, Throw, Plain
    <2>2. CASE stack' = stack
      BY <1>4, <2>1, <2>2, PlainSteps
    <2>3. CASE stack' = Append(Below, [Top EXCEPT !.todo = MaxBody])
      <3>1. [Top EXCEPT !.todo = MaxBody] \in Frame
        BY <1>4, <2>1, FrameUpdates
      <3>2. SameFrame([Top EXCEPT !.todo = MaxBody], Top)
        BY <1>4, <2>1 DEF SameFrame, Frame
      <3>3. ~[Top EXCEPT !.todo = MaxBody].draining
        BY <1>4, <1>11, <2>1 DEF LoopPass, Frame
      <3>4. StackShape(stack') /\ Swap(n, Top.kind) /\ SameFrame(stack'[n], stack[n])
        <4>. DEFINE f == [Top EXCEPT !.todo = MaxBody]
        <4>1. f \in Frame /\ f.kind = Top.kind /\ ~f.draining /\ stack' = Append(Below, f)
          BY <2>3, <3>1, <3>2, <3>3 DEF SameFrame
        <4>. HIDE DEF f
        <4>2. /\ StackShape(stack) /\ n > 0
              /\ f.kind = "program" <=> Top.kind = "program"
              /\ f.draining => f.kind \in {"program", "module"}
          BY <1>4, <2>1, <4>1
        <4>3. StackShape(stack') /\ Swap(n, f.kind) /\ stack'[n] = f
          BY <4>1, <4>2, SwapStep
        <4>4. SameFrame(f, stack[n])
          BY <1>4, <2>1, <3>2 DEF f
        <4> QED
          BY <4>1, <4>3, <4>4
      <3>5. Stay(n)
        BY <1>4, <2>1, <3>4 DEF Stay, Swap, Kept
      <3> QED
        BY <1>4, <2>1, <3>4, <3>5 DEF Moved, StackMove, Stay, Plain
    <2> QED
      BY <1>11, <2>2, <2>3 DEF LoopPass
  <1>12. CASE Instantiate
    <2>1. mode # "idle" /\ mode' # "idle" /\ Top.todo > 0 /\ UNCHANGED <<callDepth, imports>>
      BY <1>12 DEF Instantiate, Executing, Throw
    <2>2. CASE stack' = Rest /\ UNCHANGED context
      BY <1>4, <2>1, <2>2, PlainSteps DEF Plain
    <2>3. CASE /\ stack' = Append(Rest, DefaultsFrame(context))
               /\ context' = [context EXCEPT !.inFunctionBody = FALSE, !.owner = NoOwner]
      <3>. DEFINE f == DefaultsFrame(context)
      <3>1. f \in Frame /\ context' \in Context
        BY <2>3, FrameTypes DEF Context
      <3>2. f.kind = "defaults" /\ ~f.draining /\ f.saved = context
        BY DEF DefaultsFrame, PlainFrame
      <3>. HIDE DEF f
      <3>3. StackShape(stack') /\ Grow(n, "defaults") /\ stack'[n + 1] = f
        BY <1>4, <2>1, <2>3, <3>1, <3>2, GrowStep DEF f
      <3> QED
        BY <2>1, <2>3, <3>1, <3>2, <3>3 DEF Moved, StackMove, PushDefaults, Grow
    <2> QED
      BY <1>12, <2>2, <2>3 DEF Instantiate
  <1>13. CASE LeaveDefaults \/ UnwindDefaults
    <2>1. /\ mode # "idle" /\ mode' # "idle" /\ Top.kind = "defaults"
          /\ UNCHANGED imports
      BY <1>13 DEF LeaveDefaults, UnwindDefaults, Throw, CallUserFunction
    <2>2. CASE stack' = Below /\ context' = Restored(Top) /\ UNCHANGED callDepth
      <3>1. StackShape(stack') /\ Shrink(n)
        BY <1>4, <2>1, <2>2, ShrinkStep
      <3>2. context' \in Context
        BY <1>4, <2>1, <2>2 DEF Restored, Context, Frame
      <3> QED
        BY <1>4, <2>1, <2>2, <3>1, <3>2 DEF Moved, StackMove, PopDefaults, Shrink
    <2>3. CASE /\ mode = "running"
               /\ \E d \in Decl : CallUserFunction(d, 0, Restored(Top), Below)
      BY <1>4, <2>1, <2>3, InitStep
    <2> QED
      BY <1>13, <2>2, <2>3 DEF LeaveDefaults, UnwindDefaults
  <1>14. ASSUME NEW m \in Modules, Use(m)
         PROVE  Moved(n)
    <2>1. mode # "idle" /\ mode' # "idle" /\ Top.todo > 0 /\ UNCHANGED <<context, callDepth, completed>>
      BY <1>14 DEF Use, Statements, Executing, Throw
    <2>2. CASE stack' = Rest /\ UNCHANGED <<importedPaths, moduleDepth>>
      BY <1>4, <2>1, <2>2, PlainSteps DEF Plain, imports
    <2>3. CASE /\ m \notin importedPaths /\ moduleDepth < MaxImportDepth
               /\ importedPaths' = importedPaths \cup {m}
               /\ moduleDepth' = moduleDepth + 1
               /\ stack' = Append(Rest, ModuleFrame(m))
      <3>. DEFINE f == ModuleFrame(m)
      <3>1. f \in Frame
        BY FrameTypes
      <3>2. f.kind = "module" /\ ~f.draining /\ f.path = m
        BY DEF ModuleFrame, PlainFrame
      <3>. HIDE DEF f
      <3>3. StackShape(stack') /\ Grow(n, "module") /\ stack'[n + 1] = f
        BY <1>4, <2>1, <2>3, <3>1, <3>2, GrowStep DEF f
      <3> QED
        BY <2>1, <2>3, <3>2, <3>3 DEF Moved, StackMove, PushModule, Grow
    <2> QED
      BY <1>14, <2>2, <2>3 DEF Use
  <1>15. CASE LeaveModule \/ UnwindModule
    <2>1. /\ mode # "idle" /\ mode' # "idle" /\ stack' = Below /\ Top.kind = "module"
          /\ moduleDepth' = moduleDepth - 1 /\ UNCHANGED <<context, callDepth>>
      BY <1>15 DEF LeaveModule, UnwindModule
    <2>2. StackShape(stack') /\ Shrink(n)
      BY <1>4, <2>1, ShrinkStep
    <2> QED
      BY <1>4, <1>15, <2>1, <2>2 DEF LeaveModule, UnwindModule, Moved, StackMove, PopModule, Shrink
  <1>16. CASE EnterGuard
    <2>1. mode # "idle" /\ mode' # "idle" /\ Top.todo > 0 /\ Plain
      BY <1>16 DEF EnterGuard, Statements, Executing, Plain
    <2>2. PlainFrame("try") \in Frame /\ PlainFrame("try").kind = "try" /\ ~PlainFrame("try").draining
      BY FrameTypes DEF FrameKind, PlainFrame
    <2>3. StackShape(stack') /\ Grow(n, "try")
      BY <1>4, <1>16, <2>1, <2>2, GrowStep DEF EnterGuard
    <2> QED
      BY <2>1, <2>3 DEF Moved, StackMove, PushGuard, Grow, Plain
  <1>17. CASE LeaveGuard \/ PassGuard
    <2>1. /\ mode # "idle" /\ mode' # "idle" /\ stack' = Below
          /\ Top.kind \in {"try", "handler"} /\ Plain
      BY <1>17 DEF LeaveGuard, PassGuard, Plain
    <2>2. StackShape(stack') /\ Shrink(n)
      BY <1>4, <2>1, ShrinkStep
    <2> QED
      BY <1>4, <2>1, <2>2 DEF Moved, StackMove, PopGuard, Shrink, Plain
  <1>18. CASE Raise
    BY <1>4, <1>18, PlainSteps DEF Raise, Throw, Plain
  <1>19. CASE Catch
    <2>1. mode # "idle" /\ mode' # "idle" /\ Top.kind = "try" /\ Plain
      BY <1>19 DEF Catch, Plain
    <2>2. /\ PlainFrame("handler") \in Frame /\ PlainFrame("handler").kind = "handler"
          /\ ~PlainFrame("handler").draining
      BY FrameTypes DEF FrameKind, PlainFrame
    <2>3. StackShape(stack') /\ Swap(n, "handler")
      BY <1>4, <1>19, <2>1, <2>2, SwapStep DEF Catch
    <2> QED
      BY <1>4, <2>1, <2>3 DEF Moved, StackMove, SwapGuard, Swap, Plain
  <1> QED
    BY <1>1, <1>2, <1>3, <1>5, <1>6, <1>7, <1>8, <1>9, <1>10, <1>11, <1>12, <1>13, <1>14,
       <1>15, <1>16, <1>17, <1>18, <1>19 DEF Next, Step

-----------------------------------------------------------------------------
(* The flags. *)

\* What each open scope put aside is what the frames below it say.
SavedMatches == \A i \in 1..Depth :
    stack[i].kind \in {"call", "defaults"} => Agrees(stack, i - 1, stack[i].saved)

\* What frames say of a context does not depend on what they have left to do.
LEMMA AgreesKept ==
    ASSUME NEW s, NEW t, NEW k \in Nat, Kept(s, t, k), NEW c, Agrees(t, k, c)
    PROVE  Agrees(s, k, c)
  <1>1. \A i \in 1..k : s[i].kind = t[i].kind /\ s[i].decl = t[i].decl
    BY DEF Kept, SameFrame
  <1>2. \A i, K : Innermost(s, k, i, K) <=> Innermost(t, k, i, K)
    BY <1>1 DEF Innermost
  <1> QED
    BY <1>1, <1>2 DEF Agrees

\* A frame that is no call and no scope of defaults changes nothing.
LEMMA AgreesSkip ==
    ASSUME NEW s, NEW k \in Nat, s[k + 1].kind \notin {"call", "defaults"}, NEW c
    PROVE  Agrees(s, k + 1, c) <=> Agrees(s, k, c)
  <1>1. \A i : i \in 1..(k + 1) <=> i \in 1..k \/ i = k + 1
    OBVIOUS
  <1>2. \A i : Innermost(s, k + 1, i, {"call"}) <=> Innermost(s, k, i, {"call"})
    BY <1>1 DEF Innermost
  <1>3. \A i : Innermost(s, k + 1, i, {"call", "defaults"})
                 <=> Innermost(s, k, i, {"call", "defaults"})
    BY <1>1 DEF Innermost
  <1>4. \A i, K : Innermost(s, k, i, K) => i \in 1..k
    BY DEF Innermost
  <1> QED
    BY <1>1, <1>2, <1>3, <1>4 DEF Agrees

\* The context FrameGuard sets is the one its call asks for.
LEMMA AgreesCall ==
    ASSUME NEW s, NEW k \in Nat, s[k + 1].kind = "call", s[k + 1].decl \in Decl
    PROVE  Agrees(s, k + 1, [inFunctionBody |-> TRUE, pure |-> s[k + 1].decl.pure,
                             owner |-> s[k + 1].decl.owner])
  <1>1. \A i : i \in 1..(k + 1) => i <= k + 1
    OBVIOUS
  <1>2. k + 1 \in 1..(k + 1)
    OBVIOUS
  <1>3. \A i, K : "call" \in K => (Innermost(s, k + 1, i, K) <=> i = k + 1)
    BY <1>1, <1>2 DEF Innermost
  <1>4. \A i : Innermost(s, k + 1, i, {"call"}) <=> i = k + 1
    BY <1>3
  <1>5. \A i : Innermost(s, k + 1, i, {"call", "defaults"}) <=> i = k + 1
    BY <1>3
  <1> QED
    BY <1>2, <1>4, <1>5 DEF Agrees

\* So is the one DefaultValueScope sets.
LEMMA AgreesDefaults ==
    ASSUME NEW s, NEW k \in Nat, s[k + 1].kind = "defaults", NEW c \in Context, Agrees(s, k, c)
    PROVE  Agrees(s, k + 1, [c EXCEPT !.inFunctionBody = FALSE, !.owner = NoOwner])
  <1>1. \A i : i \in 1..(k + 1) <=> i \in 1..k \/ i = k + 1
    OBVIOUS
  <1>2. \A i : Innermost(s, k + 1, i, {"call"}) <=> Innermost(s, k, i, {"call"})
    BY <1>1 DEF Innermost
  <1>3. \A i : Innermost(s, k + 1, i, {"call", "defaults"}) => i = k + 1
    BY <1>1 DEF Innermost
  <1>4. \A i, K : Innermost(s, k, i, K) => i \in 1..k
    BY DEF Innermost
  <1> QED
    BY <1>1, <1>2, <1>3, <1>4 DEF Agrees, Context

\* And what ~DefaultValueScope puts back is what the frames below say, though
\* the purity it leaves alone is that of the code above it.
LEMMA AgreesRestored ==
    ASSUME NEW s, NEW k \in Nat, s[k + 1].kind = "defaults",
           NEW b \in Context, Agrees(s, k, b), NEW c \in Context, Agrees(s, k + 1, c)
    PROVE  Agrees(s, k, [b EXCEPT !.pure = c.pure])
  <1>1. \A i : i \in 1..(k + 1) <=> i \in 1..k \/ i = k + 1
    OBVIOUS
  <1>2. \A i : Innermost(s, k + 1, i, {"call"}) <=> Innermost(s, k, i, {"call"})
    BY <1>1 DEF Innermost
  <1>3. \A i, K : Innermost(s, k, i, K) => i \in 1..k
    BY DEF Innermost
  <1>4. c.pure <=> b.pure
    BY <1>1, <1>2, <1>3 DEF Agrees
  <1>5. [b EXCEPT !.pure = c.pure] = b
    BY <1>4 DEF Context
  <1> QED
    BY <1>5

FlagsMatch == ContextMatchesStack /\ SavedMatches

\* What the step keeps of the frames keeps what they say.
LEMMA SavedKept ==
    ASSUME NEW n \in Nat, Len(stack) = n, SavedMatches, NEW k \in 0..n, Kept(stack', stack, k)
    PROVE  \A i \in 1..k : stack'[i].kind \in {"call", "defaults"}
                              => Agrees(stack', i - 1, stack'[i].saved)
  <1>1. SUFFICES ASSUME NEW i \in 1..k, stack'[i].kind \in {"call", "defaults"}
                 PROVE  Agrees(stack', i - 1, stack'[i].saved)
    OBVIOUS
  <1>2. i - 1 \in Nat /\ Kept(stack', stack, i - 1) /\ i \in 1..n
    BY DEF Kept
  <1>3. stack'[i].kind = stack[i].kind /\ stack'[i].saved = stack[i].saved
    BY DEF Kept, SameFrame
  <1>4. Agrees(stack, i - 1, stack[i].saved)
    BY <1>1, <1>2, <1>3 DEF SavedMatches, Depth
  <1> QED
    BY <1>2, <1>3, <1>4, AgreesKept

\* Every move keeps the flags in agreement with the frames (FrameGuard,
\* DefaultValueScope), and what each frame has put aside with those below it.
LEMMA FlagsStep ==
    ASSUME Shape, NEW n \in Nat, Len(stack) = n, FlagsMatch, Moved(n)
    PROVE  FlagsMatch'
  <1>1. /\ Agrees(stack, n, context) /\ SavedMatches /\ context \in Context
        /\ \A i \in 1..n : stack[i].kind \in {"call", "defaults"}
                               => Agrees(stack, i - 1, stack[i].saved)
        /\ \A i \in 1..n : stack[i] \in Frame
    BY DEF FlagsMatch, ContextMatchesStack, SavedMatches, Depth, Shape, StackShape
  <1>2. ASSUME NEW p \in Nat, Len(stack') = p, Agrees(stack', p, context'),
               \A i \in 1..p : stack'[i].kind \in {"call", "defaults"}
                                 => Agrees(stack', i - 1, stack'[i].saved)
        PROVE  FlagsMatch'
    BY <1>2 DEF FlagsMatch, ContextMatchesStack, SavedMatches, Depth
  <1>3. \A c : c = TopContext => Agrees(stack', 0, c)
    BY DEF Agrees, TopContext
  <1>4. CASE Stay(n) /\ Plain
    <2>1. Agrees(stack', n, context')
      BY <1>1, <1>4, AgreesKept DEF Stay, Plain
    <2> QED
      BY <1>1, <1>2, <1>4, <2>1, SavedKept DEF Stay
  <1>5. CASE OpenRun(n)
    <2>1. Agrees(stack', 0, context')
      BY <1>1, <1>5, AgreesKept DEF OpenRun, Kept, Plain
    <2>2. Agrees(stack', 1, context')
      BY <1>5, <2>1, AgreesSkip DEF OpenRun
    <2> QED
      BY <1>2, <1>5, <2>2 DEF OpenRun
  <1>6. CASE CloseRun(n)
    <2>1. Agrees(stack, 0, context)
      BY <1>1, <1>6, AgreesSkip DEF CloseRun
    <2>2. Agrees(stack', 0, context')
      BY <1>6, <2>1, AgreesKept DEF CloseRun, Kept, Plain
    <2> QED
      BY <1>2, <1>6, <2>2 DEF CloseRun
  <1>7. CASE Renew(n)
    BY <1>2, <1>3, <1>7 DEF Renew
  <1>8. ASSUME NEW k, Grow(n, k), Agrees(stack', n + 1, context'),
               k \in {"call", "defaults"} => Agrees(stack', n, stack'[n + 1].saved)
        PROVE  FlagsMatch'
    <2>1. \A i \in 1..(n + 1) : i \in 1..n \/ (i = n + 1 /\ i - 1 = n)
      OBVIOUS
    <2>2. \A i \in 1..n : stack'[i].kind \in {"call", "defaults"}
                              => Agrees(stack', i - 1, stack'[i].saved)
      BY <1>1, <1>8, SavedKept DEF Grow
    <2> QED
      BY <1>2, <1>8, <2>1, <2>2 DEF Grow
  <1>9. ASSUME NEW k, Swap(n, k), Agrees(stack', n, context'),
               k \in {"call", "defaults"} => Agrees(stack', n - 1, stack'[n].saved)
        PROVE  FlagsMatch'
    <2>1. \A i \in 1..n : i \in 1..(n - 1) \/ i = n
      OBVIOUS
    <2>2. \A i \in 1..(n - 1) : stack'[i].kind \in {"call", "defaults"}
                              => Agrees(stack', i - 1, stack'[i].saved)
      BY <1>1, <1>9, SavedKept DEF Swap
    <2> QED
      BY <1>2, <1>9, <2>1, <2>2 DEF Swap
  <1>10. ASSUME Shrink(n), Agrees(stack, n - 1, context')
         PROVE  FlagsMatch'
    <2>1. n - 1 \in Nat /\ n - 1 \in 0..n
      BY <1>10 DEF Shrink
    <2>2. Agrees(stack', n - 1, context')
      BY <1>10, <2>1, AgreesKept DEF Shrink
    <2> QED
      BY <1>1, <1>2, <1>10, <2>1, <2>2, SavedKept DEF Shrink
  <1>11. ASSUME n > 0
         PROVE  n - 1 \in Nat /\ n - 1 + 1 = n /\ n \in 1..n
    BY <1>11
  <1>12. CASE PushCall(n)
    <2>1. Agrees(stack', n, context)
      BY <1>1, <1>12, AgreesKept DEF PushCall, Grow
    <2>2. Agrees(stack', n + 1, context')
      BY <1>12, AgreesCall DEF PushCall, Grow, CallOpened
    <2> QED
      BY <1>8, <1>12, <2>1, <2>2 DEF PushCall, CallOpened
  <1>13. CASE SwapInit(n)
    <2>1. n > 0
      BY <1>13 DEF SwapInit, Swap
    <2>2. Agrees(stack, n - 1, Restored(stack[n]))
      BY <1>1, <1>11, <1>13, <2>1, AgreesRestored DEF SwapInit, Restored, Frame
    <2>3. Agrees(stack', n - 1, Restored(stack[n]))
      BY <1>11, <1>13, <2>1, <2>2, AgreesKept DEF SwapInit, Swap
    <2>4. Agrees(stack', n, context')
      BY <1>11, <1>13, <2>1, AgreesCall DEF SwapInit, Swap, CallOpened
    <2> QED
      BY <1>9, <1>13, <2>3, <2>4 DEF SwapInit, CallOpened
  <1>14. CASE PopCall(n)
    <2>1. n > 0
      BY <1>14 DEF PopCall, Shrink
    <2> QED
      BY <1>1, <1>10, <1>11, <1>14, <2>1 DEF PopCall
  <1>15. CASE PushDefaults(n)
    <2>1. Agrees(stack', n, context)
      BY <1>1, <1>15, AgreesKept DEF PushDefaults, Grow
    <2>2. Agrees(stack', n + 1, context')
      BY <1>1, <1>15, <2>1, AgreesDefaults DEF PushDefaults, Grow
    <2> QED
      BY <1>8, <1>15, <2>1, <2>2 DEF PushDefaults
  <1>16. CASE PopDefaults(n)
    <2>1. n > 0
      BY <1>16 DEF PopDefaults, Shrink
    <2>2. Agrees(stack, n - 1, Restored(stack[n]))
      BY <1>1, <1>11, <1>16, <2>1, AgreesRestored DEF PopDefaults, Restored, Frame
    <2> QED
      BY <1>10, <1>16, <2>2 DEF PopDefaults
  <1>17. CASE PushModule(n) \/ PushGuard(n)
    <2>1. PICK k \in {"module", "try"} : Grow(n, k)
      BY <1>17 DEF PushModule, PushGuard
    <2>2. Agrees(stack', n, context')
      BY <1>1, <1>17, AgreesKept DEF PushModule, PushGuard, Grow, Plain
    <2>3. Agrees(stack', n + 1, context')
      BY <2>1, <2>2, AgreesSkip DEF Grow
    <2> QED
      BY <1>8, <2>1, <2>3
  <1>18. CASE SwapGuard(n)
    <2>1. n > 0
      BY <1>18 DEF SwapGuard, Swap
    <2>2. Agrees(stack, n - 1, context')
      BY <1>1, <1>11, <1>18, <2>1, AgreesSkip DEF SwapGuard, Plain
    <2>3. Agrees(stack', n - 1, context')
      BY <1>11, <1>18, <2>1, <2>2, AgreesKept DEF SwapGuard, Swap
    <2>4. Agrees(stack', n, context')
      BY <1>11, <1>18, <2>1, <2>3, AgreesSkip DEF SwapGuard, Swap
    <2> QED
      BY <1>9, <1>18, <2>4 DEF SwapGuard
  <1>19. CASE PopModule(n) \/ PopGuard(n)
    <2>1. n > 0 /\ Shrink(n) /\ context' = context /\ stack[n].kind \notin {"call", "defaults"}
      BY <1>19 DEF PopModule, PopGuard, Shrink, Plain
    <2>2. Agrees(stack, n - 1, context')
      BY <1>1, <1>11, <2>1, AgreesSkip
    <2> QED
      BY <1>10, <2>1, <2>2
  <1> QED
    BY <1>4, <1>5, <1>6, <1>7, <1>12, <1>13, <1>14, <1>15, <1>16, <1>17, <1>18, <1>19
       DEF Moved, StackMove

-----------------------------------------------------------------------------
(* The depths. *)

Counts == DepthsMatchStack /\ callDepth \in 0..MaxCallDepth /\ moduleDepth \in 0..MaxImportDepth

\* The frames of a kind can be counted.
LEMMA FramesFinite ==
    ASSUME NEW n \in Nat, Len(stack) = n, NEW K
    PROVE  /\ Frames(K) \subseteq 1..n
           /\ IsFiniteSet(Frames(K)) /\ Cardinality(Frames(K)) \in Nat
  <1>1. Frames(K) \subseteq 1..n /\ IsFiniteSet(1..n)
    BY FS_Interval DEF Frames, Depth
  <1> QED
    BY <1>1, FS_Subset, FS_CardinalityType

\* What a move does to the set of frames of a kind.
LEMMA FramesMove ==
    ASSUME NEW n \in Nat, Len(stack) = n, NEW K
    PROVE  /\ Stay(n) => Frames(K)' = Frames(K)
           /\ \A k : Grow(n, k) =>
                 Frames(K)' = IF k \in K THEN Frames(K) \cup {n + 1} ELSE Frames(K)
           /\ Shrink(n) => Frames(K)' = Frames(K) \ {n}
           /\ \A k : Swap(n, k) =>
                 Frames(K)' = IF k \in K THEN Frames(K) \cup {n} ELSE Frames(K) \ {n}
  <1>1. Frames(K) = {i \in 1..n : stack[i].kind \in K}
    BY DEF Frames, Depth
  <1>2. \A p : Len(stack') = p => Frames(K)' = {i \in 1..p : stack'[i].kind \in K}
    BY DEF Frames, Depth
  <1>3. Stay(n) => Frames(K)' = Frames(K)
    BY <1>1, <1>2 DEF Stay, Kept, SameFrame
  <1>4. ASSUME NEW k, Grow(n, k)
        PROVE  Frames(K)' = IF k \in K THEN Frames(K) \cup {n + 1} ELSE Frames(K)
    <2>1. \A i : i \in 1..(n + 1) <=> i \in 1..n \/ i = n + 1
      OBVIOUS
    <2> QED
      BY <1>1, <1>2, <1>4, <2>1 DEF Grow, Kept, SameFrame
  <1>5. ASSUME Shrink(n)
        PROVE  Frames(K)' = Frames(K) \ {n}
    <2>1. \A i : i \in 1..(n - 1) <=> i \in 1..n /\ i # n
      OBVIOUS
    <2> QED
      BY <1>1, <1>2, <1>5, <2>1 DEF Shrink, Kept, SameFrame
  <1>6. ASSUME NEW k, Swap(n, k)
        PROVE  Frames(K)' = IF k \in K THEN Frames(K) \cup {n} ELSE Frames(K) \ {n}
    <2>1. \A i : i \in 1..(n - 1) <=> i \in 1..n /\ i # n
      OBVIOUS
    <2>2. n \in 1..n
      BY <1>6 DEF Swap
    <2> QED
      BY <1>1, <1>2, <1>6, <2>1, <2>2 DEF Swap, Kept, SameFrame
  <1> QED
    BY <1>3, <1>4, <1>5, <1>6

\* Every move keeps callDepth_ and moduleDepth_ the number of their frames, and
\* within their limits.
LEMMA CountsStep ==
    ASSUME NEW n \in Nat, Len(stack) = n, Counts, Moved(n)
    PROVE  Counts'
  <1>. DEFINE C == Frames({"call"})
              M == Frames({"module"})
  <1>1. /\ callDepth = Cardinality(C) /\ moduleDepth = Cardinality(M)
        /\ callDepth \in 0..MaxCallDepth /\ moduleDepth \in 0..MaxImportDepth
        /\ MaxCallDepth \in Nat /\ MaxImportDepth \in Nat
    BY BoundsAssumption DEF Counts, DepthsMatchStack
  <1>2. IsFiniteSet(C) /\ IsFiniteSet(M) /\ C \subseteq 1..n /\ M \subseteq 1..n
    BY FramesFinite
  <1>3. /\ \A i \in 1..n : i \in C <=> stack[i].kind = "call"
        /\ \A i \in 1..n : i \in M <=> stack[i].kind = "module"
    BY DEF Frames, Depth
  <1>4. n + 1 \notin 1..n
    OBVIOUS
  <1>5. SUFFICES /\ callDepth' = Cardinality(C') /\ moduleDepth' = Cardinality(M')
                 /\ callDepth' \in 0..MaxCallDepth /\ moduleDepth' \in 0..MaxImportDepth
    BY DEF Counts, DepthsMatchStack
  <1>6. /\ Shrink(n) => C' = C \ {n} /\ M' = M \ {n}
        /\ Swap(n, "call") => C' = C \cup {n} /\ M' = M \ {n}
        /\ Swap(n, "handler") => C' = C \ {n} /\ M' = M \ {n}
    BY FramesMove
  <1>7. (n \notin C => C \ {n} = C) /\ (n \notin M => M \ {n} = M)
    OBVIOUS
  <1>8. Cardinality({}) = 0
    BY FS_EmptySet
  <1>9. /\ n \in C => Cardinality(C) # 0 /\ Cardinality(C \ {n}) = Cardinality(C) - 1
        /\ n \in M => Cardinality(M) # 0 /\ Cardinality(M \ {n}) = Cardinality(M) - 1
        /\ n \notin C => Cardinality(C \cup {n}) = Cardinality(C) + 1
        /\ Cardinality(C \cup {n + 1}) = Cardinality(C) + 1
        /\ Cardinality(M \cup {n + 1}) = Cardinality(M) + 1
    <2>1. /\ n \in C => Cardinality(C) # 0
          /\ n \in M => Cardinality(M) # 0
      BY <1>2, FS_EmptySet
    <2>2. /\ n \in C => Cardinality(C \ {n}) = Cardinality(C) - 1
          /\ n \in M => Cardinality(M \ {n}) = Cardinality(M) - 1
      BY <1>2, FS_RemoveElement
    <2>3. n \notin C => Cardinality(C \cup {n}) = Cardinality(C) + 1
      BY <1>2, FS_AddElement
    <2>4. n + 1 \notin C /\ n + 1 \notin M
      BY <1>2, <1>4
    <2>5. /\ Cardinality(C \cup {n + 1}) = Cardinality(C) + 1
          /\ Cardinality(M \cup {n + 1}) = Cardinality(M) + 1
      BY <1>2, <2>4, FS_AddElement
    <2> QED
      BY <2>1, <2>2, <2>3, <2>5
  <1>. HIDE DEF C, M
  <1>10. CASE C' = C /\ M' = M /\ UNCHANGED <<callDepth, moduleDepth>>
    BY <1>1, <1>10
  <1>11. CASE Stay(n) /\ Plain
    BY <1>10, <1>11, FramesMove DEF Plain, imports, C, M
  <1>12. CASE OpenRun(n) \/ CloseRun(n)
    <2>1. /\ C = {} /\ M = {}
      BY <1>2, <1>3, <1>12 DEF OpenRun, CloseRun
    <2>2. C' = {} /\ M' = {}
      BY <1>12 DEF OpenRun, CloseRun, Frames, Depth, C, M
    <2> QED
      BY <1>10, <1>12, <2>1, <2>2 DEF OpenRun, CloseRun, Plain, imports
  <1>13. CASE Renew(n)
    <2>1. C' = {} /\ M' = {}
      BY <1>13 DEF Renew, Frames, Depth, C, M
    <2> QED
      BY <1>1, <1>13, <1>8, <2>1 DEF Renew
  <1>14. CASE PushCall(n)
    <2>1. /\ C' = C \cup {n + 1} /\ M' = M /\ n + 1 \notin C
          /\ callDepth' = callDepth + 1 /\ callDepth < MaxCallDepth /\ moduleDepth' = moduleDepth
      BY <1>2, <1>4, <1>14, FramesMove DEF PushCall, CallOpened, imports, C, M
    <2> QED
      BY <1>1, <1>9, <2>1
  <1>15. CASE SwapInit(n)
    <2>1. n \in 1..n /\ n \notin C /\ n \notin M
      BY <1>3, <1>15 DEF SwapInit, Swap
    <2>2. /\ C' = C \cup {n} /\ M' = M
          /\ callDepth' = callDepth + 1 /\ callDepth < MaxCallDepth /\ moduleDepth' = moduleDepth
      BY <1>15, <1>6, <1>7, <2>1 DEF SwapInit, CallOpened, imports
    <2> QED
      BY <1>1, <1>9, <2>1, <2>2
  <1>16. CASE PopCall(n)
    <2>1. n \in 1..n /\ n \in C /\ n \notin M
      BY <1>3, <1>16 DEF PopCall, Shrink
    <2>2. C' = C \ {n} /\ M' = M /\ callDepth' = callDepth - 1 /\ moduleDepth' = moduleDepth
      BY <1>16, <1>6, <1>7, <2>1 DEF PopCall, imports
    <2> QED
      BY <1>1, <1>9, <2>1, <2>2
  <1>17. CASE PushDefaults(n) \/ PushGuard(n)
    BY <1>10, <1>17, FramesMove DEF PushDefaults, PushGuard, Plain, imports, C, M
  <1>18. CASE PopDefaults(n) \/ PopGuard(n)
    <2>1. n \in 1..n /\ n \notin C /\ n \notin M
      BY <1>3, <1>18 DEF PopDefaults, PopGuard, Shrink
    <2> QED
      BY <1>10, <1>18, <1>6, <1>7, <2>1 DEF PopDefaults, PopGuard, Plain, imports
  <1>19. CASE SwapGuard(n)
    <2>1. n \in 1..n /\ n \notin C /\ n \notin M
      BY <1>3, <1>19 DEF SwapGuard, Swap
    <2> QED
      BY <1>10, <1>19, <1>6, <1>7, <2>1 DEF SwapGuard, Plain, imports
  <1>20. CASE PushModule(n)
    <2>1. /\ M' = M \cup {n + 1} /\ C' = C /\ n + 1 \notin M
          /\ moduleDepth' = moduleDepth + 1 /\ moduleDepth < MaxImportDepth /\ callDepth' = callDepth
      BY <1>2, <1>4, <1>20, FramesMove DEF PushModule, C, M
    <2> QED
      BY <1>1, <1>9, <2>1
  <1>21. CASE PopModule(n)
    <2>1. n \in 1..n /\ n \in M /\ n \notin C
      BY <1>3, <1>21 DEF PopModule, Shrink
    <2>2. M' = M \ {n} /\ C' = C /\ moduleDepth' = moduleDepth - 1 /\ callDepth' = callDepth
      BY <1>21, <1>6, <1>7, <2>1 DEF PopModule
    <2> QED
      BY <1>1, <1>9, <2>1, <2>2
  <1> QED
    BY <1>11, <1>12, <1>13, <1>14, <1>15, <1>16, <1>17, <1>18, <1>19, <1>20, <1>21
       DEF Moved, StackMove

-----------------------------------------------------------------------------
(* The import marks. *)

Marks == MarksMatchStack /\ importedPaths \subseteq Modules

\* What a move does to the set of modules that are loading.
LEMMA LoadingMove ==
    ASSUME NEW n \in Nat, Len(stack) = n, MarksMatchStack
    PROVE  /\ Stay(n) => Loading' = Loading
           /\ \A k : Grow(n, k) => Loading' = Loading \cup
                  (IF k = "module" THEN {stack'[n + 1].path} ELSE {})
           /\ Shrink(n) => Loading' = Loading \
                  (IF stack[n].kind = "module" THEN {stack[n].path} ELSE {})
           /\ \A k : Swap(n, k) /\ k # "module" /\ stack[n].kind # "module"
                  => Loading' = Loading
           /\ Stay(n) \/ Shrink(n) \/ (\E k : (Grow(n, k) \/ Swap(n, k)) /\ k # "module")
                 => \A i, j \in Frames({"module"})' :
                       stack'[i].path = stack'[j].path => i = j
  <1>. DEFINE M == Frames({"module"})
  <1>1. /\ Loading = {stack[i].path : i \in M} /\ Loading' = {stack'[i].path : i \in M'}
        /\ \A i \in M : i \in 1..n
        /\ \A i \in 1..n : i \in M <=> stack[i].kind = "module"
        /\ \A i, j \in M : stack[i].path = stack[j].path => i = j
    BY DEF Loading, MarksMatchStack, Frames, Depth
  <1>2. /\ Stay(n) => M' = M
        /\ \A k : Grow(n, k) => M' = IF k = "module" THEN M \cup {n + 1} ELSE M
        /\ Shrink(n) => M' = M \ {n}
        /\ \A k : Swap(n, k) => M' = IF k = "module" THEN M \cup {n} ELSE M \ {n}
    <2>1. \A k : k \in {"module"} <=> k = "module"
      OBVIOUS
    <2>2. /\ Stay(n) => M' = M
          /\ \A k : Grow(n, k) => M' = IF k \in {"module"} THEN M \cup {n + 1} ELSE M
          /\ Shrink(n) => M' = M \ {n}
          /\ \A k : Swap(n, k) => M' = IF k \in {"module"} THEN M \cup {n} ELSE M \ {n}
      BY FramesMove
    <2>. HIDE DEF M
    <2> QED
      BY <2>1, <2>2
  <1>. HIDE DEF M
  <1>3. ASSUME Stay(n)
        PROVE  M' = M /\ \A i \in M : stack'[i].path = stack[i].path
    BY <1>1, <1>2, <1>3 DEF Stay, Kept, SameFrame
  <1>4. ASSUME NEW k, Grow(n, k)
        PROVE  /\ M' = IF k = "module" THEN M \cup {n + 1} ELSE M
               /\ \A i \in M : stack'[i].path = stack[i].path
    BY <1>1, <1>2, <1>4 DEF Grow, Kept, SameFrame
  <1>5. ASSUME Shrink(n)
        PROVE  M' = M \ {n} /\ \A i \in M' : stack'[i].path = stack[i].path
    <2>1. \A i \in M \ {n} : i \in 1..(n - 1)
      BY <1>1
    <2> QED
      BY <1>2, <1>5, <2>1 DEF Shrink, Kept, SameFrame
  <1>6. ASSUME NEW k, Swap(n, k), k # "module"
        PROVE  M' = M \ {n} /\ \A i \in M' : stack'[i].path = stack[i].path
    <2>1. \A i \in M \ {n} : i \in 1..(n - 1)
      BY <1>1
    <2> QED
      BY <1>2, <1>6, <2>1 DEF Swap, Kept, SameFrame
  <1>7. Stay(n) => Loading' = Loading
    BY <1>1, <1>3
  <1>8. ASSUME NEW k, Grow(n, k)
        PROVE  Loading' = Loading \cup (IF k = "module" THEN {stack'[n + 1].path} ELSE {})
    BY <1>1, <1>4, <1>8
  <1>9. ASSUME Shrink(n)
        PROVE  Loading' = Loading \ (IF stack[n].kind = "module" THEN {stack[n].path} ELSE {})
    <2>1. n \in 1..n
      BY <1>9 DEF Shrink
    <2> QED
      BY <1>1, <1>5, <1>9, <2>1
  <1>10. ASSUME NEW k, Swap(n, k), k # "module", stack[n].kind # "module"
         PROVE  Loading' = Loading
    <2>1. n \in 1..n
      BY <1>10 DEF Swap
    <2> QED
      BY <1>1, <1>6, <1>10, <2>1
  <1>11. ASSUME Stay(n) \/ Shrink(n) \/ (\E k : (Grow(n, k) \/ Swap(n, k)) /\ k # "module")
         PROVE  \A i, j \in M' : stack'[i].path = stack'[j].path => i = j
    <2>1. M' \subseteq M /\ \A i \in M' : stack'[i].path = stack[i].path
      BY <1>3, <1>4, <1>5, <1>6, <1>11
    <2> QED
      BY <1>1, <2>1
  <1> QED
    BY <1>7, <1>8, <1>9, <1>10, <1>11 DEF M

\* Every move keeps the marks of ImportMark on the modules loading and loaded.
LEMMA MarksStep ==
    ASSUME Shape, NEW n \in Nat, Len(stack) = n, Marks, Moved(n)
    PROVE  Marks'
  <1>1. /\ importedPaths = completed \cup Loading /\ completed \cap Loading = {}
        /\ importedPaths \subseteq Modules /\ MarksMatchStack
        /\ \A i, j \in Frames({"module"}) : stack[i].path = stack[j].path => i = j
    BY DEF Marks, MarksMatchStack
  <1>2. SUFFICES /\ importedPaths' = completed' \cup Loading'
                 /\ completed' \cap Loading' = {}
                 /\ \A i, j \in Frames({"module"})' : stack'[i].path = stack'[j].path => i = j
                 /\ importedPaths' \subseteq Modules
    BY DEF Marks, MarksMatchStack
  <1>3. CASE /\ Loading' = Loading /\ UNCHANGED <<importedPaths, completed>>
             /\ \A i, j \in Frames({"module"})' : stack'[i].path = stack'[j].path => i = j
    BY <1>1, <1>3
  <1>4. CASE (Stay(n) /\ Plain) \/ PushCall(n) \/ PushDefaults(n) \/ PushGuard(n)
    <2>1. UNCHANGED <<importedPaths, completed>>
      BY <1>4 DEF Plain, imports, PushCall, CallOpened, PushDefaults, PushGuard
    <2>2. Stay(n) \/ \E k : Grow(n, k) /\ k # "module"
      BY <1>4 DEF PushCall, PushDefaults, PushGuard
    <2> QED
      BY <1>1, <1>3, <2>1, <2>2, LoadingMove
  <1>5. CASE PopCall(n) \/ PopDefaults(n) \/ PopGuard(n)
    <2>1. /\ UNCHANGED <<importedPaths, completed>>
          /\ Shrink(n) /\ stack[n].kind # "module"
      BY <1>5 DEF Plain, imports, PopCall, PopDefaults, PopGuard
    <2> QED
      BY <1>1, <1>3, <2>1, LoadingMove
  <1>6. CASE SwapInit(n) \/ SwapGuard(n)
    <2>1. /\ UNCHANGED <<importedPaths, completed>>
          /\ stack[n].kind # "module"
          /\ \E k : Swap(n, k) /\ k # "module"
      BY <1>6 DEF Plain, imports, SwapInit, CallOpened, SwapGuard
    <2> QED
      BY <1>1, <1>3, <2>1, LoadingMove
  <1>7. ASSUME NEW p \in Nat, Len(stack') = p, \A i \in 1..p : stack'[i].kind # "module"
        PROVE  Frames({"module"})' = {} /\ Loading' = {}
    BY <1>7 DEF Frames, Depth, Loading
  <1>8. CASE OpenRun(n) \/ CloseRun(n)
    <2>1. Loading = {}
      BY <1>8 DEF OpenRun, CloseRun, Loading, Frames, Depth
    <2>2. Frames({"module"})' = {} /\ Loading' = {}
      <3>1. CASE OpenRun(n)
        <4>1. Len(stack') = 1 /\ \A i \in 1..1 : stack'[i].kind # "module"
          BY <3>1 DEF OpenRun
        <4> QED
          BY ONLY <1>7, <4>1
      <3>2. CASE CloseRun(n)
        <4>1. Len(stack') = 0 /\ \A i \in 1..0 : stack'[i].kind # "module"
          BY <3>2 DEF CloseRun
        <4> QED
          BY ONLY <1>7, <4>1
      <3> QED
        BY <1>8, <3>1, <3>2
    <2> QED
      BY <1>1, <1>8, <2>1, <2>2 DEF OpenRun, CloseRun, Plain, imports
  <1>9. CASE Renew(n)
    <2>1. Frames({"module"})' = {} /\ Loading' = {}
      <3>1. Len(stack') = 0 /\ \A i \in 1..0 : stack'[i].kind # "module"
        BY <1>9 DEF Renew
      <3> QED
        BY ONLY <1>7, <3>1
    <2> QED
      BY <1>9, <2>1 DEF Renew
  <1>10. CASE PushModule(n)
    <2>. DEFINE m == stack'[n + 1].path
    <2>1. /\ m \in Modules /\ m \notin importedPaths /\ Grow(n, "module")
          /\ importedPaths' = importedPaths \cup {m} /\ completed' = completed
      BY <1>10 DEF PushModule
    <2>2. Loading' = Loading \cup {m}
      BY <1>1, <2>1, LoadingMove
    <2>3. Frames({"module"})' = Frames({"module"}) \cup {n + 1}
      BY <2>1, FramesMove
    <2>4. \A i \in Frames({"module"}) : stack'[i].path = stack[i].path /\ stack'[i].path # m
      <3>1. \A i \in Frames({"module"}) : i \in 1..n /\ stack[i].path \in Loading
        BY DEF Frames, Depth, Loading
      <3> QED
        BY <1>1, <2>1, <3>1 DEF Grow, Kept, SameFrame
    <2> QED
      BY <1>1, <2>1, <2>2, <2>3, <2>4
  <1>11. CASE PopModule(n)
    <2>. DEFINE m == stack[n].path
    <2>1. n > 0 /\ Shrink(n) /\ stack[n].kind = "module"
      BY <1>11 DEF PopModule, Shrink
    <2>2. m \in Loading
      <3>1. n \in Frames({"module"})
        BY <2>1 DEF Frames, Depth
      <3> QED
        BY <3>1 DEF Loading
    <2>3. /\ Loading' = Loading \ {m}
          /\ \A i, j \in Frames({"module"})' : stack'[i].path = stack'[j].path => i = j
      BY <1>1, <2>1, LoadingMove
    <2>4. \/ completed' = completed \cup {m} /\ importedPaths' = importedPaths
          \/ completed' = completed /\ importedPaths' = importedPaths \ {m}
      BY <1>11 DEF PopModule
    <2>. HIDE DEF m
    <2> QED
      BY <1>1, <2>2, <2>3, <2>4
  <1> QED
    BY <1>4, <1>5, <1>6, <1>8, <1>9, <1>10, <1>11 DEF Moved, StackMove

-----------------------------------------------------------------------------
(* The step budget, the queue and the rest of the shape. *)

Budget == stepsLeft \in 0..MaxSteps /\ BudgetIsFinal

\* Every step keeps the budget in its range, and fatal once it is spent (tick).
LEMMA BudgetStep ==
    ASSUME Shape, Budget, [Next]_vars
    PROVE  Budget'
  <1>. USE DEF Shape, Budget, BudgetIsFinal
  <1>1. MaxSteps \in Nat /\ stepsLeft \in 0..MaxSteps
    BY BoundsAssumption
  <1>2. ASSUME mode = "running"
        PROVE  /\ SpendStep => stepsLeft' \in 0..MaxSteps
               /\ SpendStep /\ ~LastStep => MaxSteps = 0 \/ stepsLeft' # 0
               /\ MaxSteps = 0 \/ stepsLeft # 0
    BY <1>1, <1>2 DEF SpendStep, LastStep
  <1>3. CASE /\ mode = "running"
             /\ \/ UNCHANGED stepsLeft
                \/ SpendStep /\ ~LastStep
                \/ SpendStep /\ mode' = "raising" /\ error' = "fatal"
    BY <1>1, <1>2, <1>3
  <1>4. CASE UNCHANGED vars
    BY <1>1, <1>4 DEF vars, control
  <1>5. CASE Run \/ Reset
    BY <1>1, <1>5 DEF Run, Reset
  <1>6. CASE BeginDrain \/ EndRun \/ Queue \/ Return \/ LeaveModule \/ EnterGuard \/ LeaveGuard \/ Raise
    BY <1>3, <1>6 DEF BeginDrain, EndRun, Queue, Executing, Return, LeaveModule, EnterGuard,
       Statements, LeaveGuard, Raise
  <1>7. ASSUME NEW d, NEW t, NEW c, NEW s, CallUserFunction(d, t, c, s), mode = "running"
        PROVE  Budget'
    BY <1>3, <1>7 DEF CallUserFunction, Throw
  <1>8. CASE Call \/ Display \/ RunTask
    BY <1>7, <1>8 DEF Call, Display, RunTask, Executing
  <1>9. CASE LoopPass \/ Instantiate
    BY <1>3, <1>9 DEF LoopPass, Instantiate, Executing, Throw
  <1>10. CASE LeaveDefaults
    BY <1>3, <1>7, <1>10 DEF LeaveDefaults
  <1>11. CASE \E m \in Modules : Use(m)
    BY <1>3, <1>11 DEF Use, Statements, Executing
  <1>12. CASE Catch \/ PassGuard \/ UnwindCall \/ UnwindDefaults \/ UnwindModule \/ AbortRun
    BY <1>1, <1>12 DEF Catch, PassGuard, UnwindCall, UnwindDefaults, UnwindModule, AbortRun
  <1> QED
    BY <1>4, <1>5, <1>6, <1>8, <1>9, <1>10, <1>11, <1>12 DEF Next, Step

\* Every step keeps the queue within its limit, and empty between runs.
LEMMA QueueStep ==
    ASSUME Shape, QueueShape, [Next]_vars
    PROVE  QueueShape'
  <1>. USE DEF QueueShape
  <1>1. CASE UNCHANGED taskQueue /\ UNCHANGED nextTask /\ (mode' = "idle" => mode = "idle" \/ taskQueue = <<>>)
    BY <1>1
  <1>2. CASE UNCHANGED vars
    BY <1>1, <1>2 DEF vars, control, tasks
  <1>3. CASE Run \/ Reset \/ AbortRun
    <2>1. <<>> \in Seq(QueuedTask) /\ Len(<<>>) = 0
      OBVIOUS
    <2>2. 1 \in 1..(MaxTasks + 1) /\ 0 <= MaxQueuedTasks
      BY BoundsAssumption
    <2>3. taskQueue' = <<>> /\ (nextTask' = 1 \/ UNCHANGED nextTask)
      BY <1>3 DEF Run, Reset, AbortRun
    <2> QED
      BY <2>1, <2>2, <2>3
  <1>4. CASE Queue
    <2>1. CASE UNCHANGED <<taskQueue, nextTask>>
      BY <1>4, <2>1 DEF Queue, Executing, Throw
    <2>2. ASSUME NEW d \in Decl, Len(taskQueue) < MaxQueuedTasks,
                 taskQueue' = Append(taskQueue, [id |-> nextTask, decl |-> d]),
                 nextTask' = nextTask + 1, mode' = mode
          PROVE  QueueShape'
      <3>1. [id |-> nextTask, decl |-> d] \in QueuedTask
        BY <1>4 DEF Queue, QueuedTask, TaskId
      <3>2. PICK q \in Nat : Len(taskQueue) = q
        OBVIOUS
      <3>3. taskQueue' \in Seq(QueuedTask) /\ Len(taskQueue') = q + 1
        BY <2>2, <3>1, <3>2, Push
      <3>4. q + 1 <= MaxQueuedTasks /\ nextTask' \in 1..(MaxTasks + 1)
        BY <1>4, <2>2, <3>2, BoundsAssumption DEF Queue
      <3> QED
        BY <1>4, <2>2, <3>3, <3>4 DEF Queue, Executing
    <2> QED
      BY <1>4, <2>1, <2>2 DEF Queue
  <1>5. CASE RunTask
    <2>1. PICK q \in Nat : Len(taskQueue) = q
      OBVIOUS
    <2>2. Tail(taskQueue) \in Seq(QueuedTask) /\ Len(Tail(taskQueue)) = q - 1 /\ q > 0
      BY <1>5, <2>1 DEF RunTask
    <2>3. mode' # "idle"
      BY <1>5 DEF RunTask, CallUserFunction, Throw
    <2> QED
      BY <1>5, <2>1, <2>2, <2>3, BoundsAssumption DEF RunTask
  <1>6. CASE BeginDrain \/ EndRun \/ Call \/ Display \/ Return \/ LoopPass \/ Instantiate
             \/ LeaveDefaults \/ (\E m \in Modules : Use(m)) \/ LeaveModule \/ EnterGuard
             \/ LeaveGuard \/ Raise \/ Catch \/ PassGuard \/ UnwindCall \/ UnwindDefaults
             \/ UnwindModule
    <2>1. UNCHANGED taskQueue /\ UNCHANGED nextTask
      BY <1>6 DEF BeginDrain, EndRun, Call, Display, Return, LoopPass, Instantiate, LeaveDefaults,
         Use, LeaveModule, EnterGuard, LeaveGuard, Raise, Catch, PassGuard, UnwindCall,
         UnwindDefaults, UnwindModule, tasks
    <2>2. mode' = "idle" => mode = "idle" \/ taskQueue = <<>>
      BY <1>6 DEF BeginDrain, EndRun, Call, Display, Return, LoopPass, Instantiate, LeaveDefaults,
         Use, LeaveModule, EnterGuard, LeaveGuard, Raise, Catch, PassGuard, UnwindCall,
         UnwindDefaults, UnwindModule, CallUserFunction, Throw, Executing, Statements
    <2> QED
      BY <1>1, <2>1, <2>2
  <1> QED
    BY <1>2, <1>3, <1>4, <1>5, <1>6 DEF Next, Step

\* The modes and the errors go together.
LEMMA ModeStep ==
    ASSUME Shape, [Next]_vars
    PROVE  /\ mode' \in {"idle", "running", "raising"}
           /\ error' \in {"none", "recoverable", "fatal"}
           /\ mode' = "raising" <=> error' # "none"
  <1>1. CASE UNCHANGED <<mode, error>>
    BY <1>1 DEF Shape
  <1>2. CASE UNCHANGED vars
    BY <1>1, <1>2 DEF vars, control
  <1>3. CASE Run \/ Reset \/ BeginDrain \/ EndRun \/ Return \/ LeaveModule \/ EnterGuard \/ LeaveGuard
             \/ Raise \/ Queue \/ LoopPass \/ Instantiate \/ (\E m \in Modules : Use(m))
    BY <1>3 DEF Shape, Run, Reset, BeginDrain, EndRun, Return, LeaveModule, EnterGuard, LeaveGuard,
       Raise, Queue, LoopPass, Instantiate, Use, Executing, Statements, Throw
  <1>4. CASE Call \/ Display \/ RunTask \/ LeaveDefaults
    <2>1. \/ UNCHANGED <<mode, error>>
          \/ mode' = "raising" /\ error' \in {"recoverable", "fatal"}
      BY <1>4 DEF Call, Display, RunTask, LeaveDefaults, CallUserFunction, Throw
    <2> QED
      BY <1>1, <2>1
  <1>5. CASE Catch \/ PassGuard \/ UnwindCall \/ UnwindDefaults \/ UnwindModule \/ AbortRun
    BY <1>5 DEF Shape, Catch, PassGuard, UnwindCall, UnwindDefaults, UnwindModule, AbortRun
  <1> QED
    BY <1>2, <1>3, <1>4, <1>5 DEF Next, Step

History ==
    /\ finished \subseteq TaskId
    /\ failed \subseteq TaskId
    /\ outcome \in {"none", "ok", "recoverable", "fatal"}
    /\ completed \subseteq Modules

\* Every step keeps the history variables in their ranges.
LEMMA HistoryStep ==
    ASSUME Shape, QueueShape, Marks', History, [Next]_vars
    PROVE  History'
  <1>. USE DEF History
  <1>1. completed' \subseteq Modules
    BY DEF Marks, MarksMatchStack
  <1>2. CASE UNCHANGED <<finished, failed, outcome>>
    BY <1>1, <1>2
  <1>3. CASE UNCHANGED vars
    BY <1>2, <1>3 DEF vars, tasks
  <1>4. CASE Run \/ EndRun \/ AbortRun
    BY <1>1, <1>4 DEF Run, EndRun, AbortRun, Shape, tasks
  <1>5. CASE Reset \/ BeginDrain \/ Call \/ Display \/ Queue \/ LoopPass \/ Instantiate
             \/ LeaveDefaults \/ (\E m \in Modules : Use(m)) \/ LeaveModule \/ EnterGuard
             \/ LeaveGuard \/ Raise \/ Catch \/ PassGuard \/ UnwindDefaults \/ UnwindModule
    BY <1>2, <1>5 DEF Reset, BeginDrain, Call, Display, Queue, LoopPass, Instantiate, LeaveDefaults,
       Use, LeaveModule, EnterGuard, LeaveGuard, Raise, Catch, PassGuard, UnwindDefaults,
       UnwindModule, tasks
  <1>6. CASE RunTask
    <2>1. Head(taskQueue) \in QueuedTask
      BY <1>6 DEF RunTask, QueueShape
    <2>2. Head(taskQueue).id \in TaskId
      BY <2>1 DEF QueuedTask
    <2> QED
      BY <1>1, <1>6, <2>2 DEF RunTask
  <1>7. CASE Return \/ UnwindCall
    <2>1. PICK n \in Nat : Len(stack) = n
      BY DEF Shape, StackShape
    <2>2. n > 0
      BY <1>7, <2>1 DEF Return, UnwindCall, Shape, StackShape
    <2>3. Top.task \in TaskId \cup {0}
      BY <2>1, <2>2, Ops DEF Shape, Frame
    <2> QED
      BY <1>1, <1>7, <2>3 DEF Return, UnwindCall
  <1> QED
    BY <1>3, <1>4, <1>5, <1>6, <1>7 DEF Next, Step

-----------------------------------------------------------------------------
(* The theorems. *)

Inv == Shape /\ QueueShape /\ FlagsMatch /\ Counts /\ Marks /\ Budget /\ History

\* The initial state satisfies the inductive invariant.
LEMMA InitInv == Init => Inv
  <1>. SUFFICES ASSUME Init PROVE Inv
    OBVIOUS
  <1>. USE DEF Init
  <1>1. Len(stack) = 0 /\ \A i \in 1..Len(stack) : FALSE
    OBVIOUS
  <1>2. \A K : Frames(K) = {}
    BY <1>1 DEF Frames, Depth
  <1>3. Shape
    BY <1>1, FrameTypes DEF Shape, StackShape
  <1>4. QueueShape /\ Budget
    BY BoundsAssumption DEF QueueShape, Budget, BudgetIsFinal
  <1>5. FlagsMatch
    BY <1>1 DEF FlagsMatch, ContextMatchesStack, SavedMatches, Agrees, TopContext, Depth
  <1>6. Counts
    <2>1. Cardinality({}) = 0
      BY FS_EmptySet
    <2>2. 0 \in 0..MaxCallDepth /\ 0 \in 0..MaxImportDepth
      BY BoundsAssumption
    <2>3. callDepth = Cardinality(Frames({"call"})) /\ moduleDepth = Cardinality(Frames({"module"}))
      BY <1>2, <2>1
    <2> QED
      BY <2>2, <2>3 DEF Counts, DepthsMatchStack
  <1>7. Marks /\ History
    BY <1>2 DEF Marks, MarksMatchStack, Loading, History
  <1> QED
    BY <1>3, <1>4, <1>5, <1>6, <1>7 DEF Inv

\* Every step keeps the inductive invariant.
LEMMA NextInv == Inv /\ [Next]_vars => Inv'
  <1>. SUFFICES ASSUME Inv, [Next]_vars PROVE Inv'
    OBVIOUS
  <1>. USE DEF Inv
  <1>1. PICK n \in Nat : Len(stack) = n
    BY DEF Shape, StackShape
  <1>2. Moved(n)
    BY <1>1, Moves
  <1>3. Shape'
    <2>1. stack' = <<>> <=> Len(stack') = 0
      BY <1>2 DEF Moved, StackShape
    <2> QED
      BY <1>2, <2>1, ModeStep DEF Shape, Moved
  <1>4. QueueShape' /\ Budget'
    BY QueueStep, BudgetStep
  <1>5. FlagsMatch' /\ Counts' /\ Marks'
    BY <1>1, <1>2, FlagsStep, CountsStep, MarksStep
  <1>6. History'
    BY <1>5, HistoryStep
  <1> QED
    BY <1>3, <1>4, <1>5, <1>6

\* The inductive invariant.
THEOREM Invariance == Spec => []Inv
  BY InitInv, NextInv, PTL DEF Spec

\* Every variable stays in its range: the depths never pass their limits and
\* never go below zero, however calls and loads end.
THEOREM TypeCorrect == Spec => []TypeOK
  <1>1. Inv => TypeOK
    BY DEF Inv, Shape, StackShape, QueueShape, Counts, Marks, Budget, History, TypeOK
  <1> QED
    BY <1>1, Invariance, PTL

\* The flags are those of the calls that are open.
THEOREM FlagsCorrect == Spec => []ContextMatchesStack
  <1>1. Inv => ContextMatchesStack
    BY DEF Inv, FlagsMatch
  <1> QED
    BY <1>1, Invariance, PTL

\* The depths count the calls and the loads that are open.
THEOREM DepthsCorrect == Spec => []DepthsMatchStack
  <1>1. Inv => DepthsMatchStack
    BY DEF Inv, Counts
  <1> QED
    BY <1>1, Invariance, PTL

\* A module is marked while it loads and once it has loaded, and loads once.
THEOREM MarksCorrect == Spec => []MarksMatchStack
  <1>1. Inv => MarksMatchStack
    BY DEF Inv, Marks
  <1> QED
    BY <1>1, Invariance, PTL

\* Nothing runs on a spent step budget.
THEOREM BudgetCorrect == Spec => []BudgetIsFinal
  <1>1. Inv => BudgetIsFinal
    BY DEF Inv, Budget
  <1> QED
    BY <1>1, Invariance, PTL

\* A run that is over has left nothing behind.
THEOREM Quiescence == Spec => []QuiescentWhenIdle
  <1>1. ASSUME Inv, mode = "idle"
        PROVE  /\ stack = <<>> /\ error = "none" /\ context = TopContext
               /\ callDepth = 0 /\ moduleDepth = 0 /\ taskQueue = <<>>
               /\ importedPaths = completed
    <2>1. stack = <<>> /\ error = "none" /\ taskQueue = <<>> /\ context \in Context
      BY <1>1 DEF Inv, Shape, QueueShape
    <2>2. Depth = 0 /\ \A i \in 1..Depth : FALSE
      BY <2>1 DEF Depth
    <2>3. \A K : Frames(K) = {}
      BY <2>2 DEF Frames
    <2>4. callDepth = 0 /\ moduleDepth = 0
      BY <1>1, <2>3, FS_EmptySet DEF Inv, Counts, DepthsMatchStack
    <2>5. importedPaths = completed
      BY <1>1, <2>3 DEF Inv, Marks, MarksMatchStack, Loading
    <2>6. ~context.inFunctionBody /\ ~context.pure /\ context.owner = NoOwner
      BY <1>1, <2>2 DEF Inv, FlagsMatch, ContextMatchesStack, Agrees
    <2>7. context = TopContext
      BY <2>1, <2>6 DEF Context, TopContext
    <2> QED
      BY <2>1, <2>4, <2>5, <2>7
  <1>2. Inv => QuiescentWhenIdle
    BY <1>1 DEF QuiescentWhenIdle
  <1> QED
    BY <1>2, Invariance, PTL

-----------------------------------------------------------------------------
(* The calls that are running. *)

\* No two frames run the same queued call.
Once == \A i, j \in Frames({"call"}) :
            stack[i].task = stack[j].task => i = j \/ stack[i].task = 0

\* Whether frame i of the stack runs the queued call t.
LEMMA RunningDef ==
    ASSUME NEW n \in Nat, Len(stack) = n
    PROVE  /\ Frames({"call"}) = {i \in 1..n : stack[i].kind = "call"}
           /\ \A t : t \in RunningTasks <=>
                 t # 0 /\ \E i \in 1..n : stack[i].kind = "call" /\ stack[i].task = t
  BY DEF RunningTasks, Frames, Depth

LEMMA RunningDefNext ==
    ASSUME NEW n \in Nat, Len(stack') = n
    PROVE  /\ Frames({"call"})' = {i \in 1..n : stack'[i].kind = "call"}
           /\ \A t : t \in RunningTasks' <=>
                 t # 0 /\ \E i \in 1..n : stack'[i].kind = "call" /\ stack'[i].task = t
  BY DEF RunningTasks, Frames, Depth

\* What a move does to the calls that are running.
LEMMA RunningStay ==
    ASSUME NEW n \in Nat, Len(stack) = n, Once, Stay(n)
    PROVE  RunningTasks' = RunningTasks /\ Once'
  <1>1. /\ Len(stack') = n
        /\ \A i \in 1..n : stack'[i].kind = stack[i].kind /\ stack'[i].task = stack[i].task
    BY DEF Stay, Kept, SameFrame
  <1>2. \A t : t \in RunningTasks' <=> t \in RunningTasks
    BY <1>1, RunningDef, RunningDefNext
  <1>3. Once'
    BY <1>1, RunningDef, RunningDefNext DEF Once
  <1> QED
    BY <1>2, <1>3

LEMMA RunningGrow ==
    ASSUME NEW n \in Nat, Len(stack) = n, Once, NEW k, Grow(n, k)
    PROVE  /\ k # "call" \/ stack'[n + 1].task = 0 => RunningTasks' = RunningTasks /\ Once'
           /\ k = "call" /\ stack'[n + 1].task \notin RunningTasks \cup {0} =>
                 RunningTasks' = RunningTasks \cup {stack'[n + 1].task} /\ Once'
  <1>1. /\ Len(stack') = n + 1
        /\ \A i \in 1..n : stack'[i].kind = stack[i].kind /\ stack'[i].task = stack[i].task
        /\ stack'[n + 1].kind = k
    BY DEF Grow, Kept, SameFrame
  <1>2. \A i : i \in 1..(n + 1) <=> i \in 1..n \/ i = n + 1
    OBVIOUS
  <1>. DEFINE u == stack'[n + 1].task
  <1>3. \A t : t \in RunningTasks' <=> t \in RunningTasks \/ (k = "call" /\ t = u /\ u # 0)
    BY <1>1, <1>2, RunningDef, RunningDefNext
  <1>4. \A i \in 1..n : stack[i].kind = "call" /\ stack[i].task # 0 => stack[i].task \in RunningTasks
    BY RunningDef
  <1>5. Frames({"call"})' = {i \in 1..(n + 1) : stack'[i].kind = "call"}
    BY <1>1, RunningDefNext
  <1>. HIDE DEF u
  <1>6. ASSUME k # "call" \/ u = 0
        PROVE  RunningTasks' = RunningTasks /\ Once'
    <2>1. RunningTasks' = RunningTasks
      BY <1>3, <1>6
    <2>2. Once'
      BY <1>1, <1>2, <1>5, <1>6, RunningDef DEF Once, u
    <2> QED
      BY <2>1, <2>2
  <1>7. ASSUME k = "call", u \notin RunningTasks \cup {0}
        PROVE  RunningTasks' = RunningTasks \cup {u} /\ Once'
    <2>1. RunningTasks' = RunningTasks \cup {u}
      BY <1>3, <1>7
    <2>2. Once'
      BY <1>1, <1>2, <1>4, <1>5, <1>7, RunningDef DEF Once, u
    <2> QED
      BY <2>1, <2>2
  <1> QED
    BY <1>6, <1>7 DEF u

LEMMA RunningShrink ==
    ASSUME NEW n \in Nat, Len(stack) = n, Once, Shrink(n)
    PROVE  /\ stack[n].kind # "call" \/ stack[n].task = 0 => RunningTasks' = RunningTasks
           /\ stack[n].kind = "call" /\ stack[n].task # 0 =>
                 /\ stack[n].task \in RunningTasks
                 /\ RunningTasks' = RunningTasks \ {stack[n].task}
           /\ Once'
  <1>1. /\ Len(stack') = n - 1 /\ n - 1 \in Nat /\ n \in 1..n
        /\ \A i \in 1..(n - 1) : stack'[i].kind = stack[i].kind /\ stack'[i].task = stack[i].task
    BY DEF Shrink, Kept, SameFrame
  <1>2. \A i : i \in 1..n <=> i \in 1..(n - 1) \/ i = n
    BY <1>1
  <1>3. \A i \in 1..(n - 1) : i # n
    OBVIOUS
  <1>4. /\ Frames({"call"})' = {i \in 1..(n - 1) : stack'[i].kind = "call"}
        /\ \A t : t \in RunningTasks' <=>
              t # 0 /\ \E i \in 1..(n - 1) : stack'[i].kind = "call" /\ stack'[i].task = t
    BY <1>1, RunningDefNext
  <1>5. Once'
    BY <1>1, <1>2, <1>4, RunningDef DEF Once
  <1>6. ASSUME stack[n].kind # "call" \/ stack[n].task = 0
        PROVE  RunningTasks' = RunningTasks
    <2>1. \A t : t \in RunningTasks' <=> t \in RunningTasks
      BY <1>1, <1>2, <1>4, <1>6, RunningDef
    <2> QED
      BY <2>1
  <1>7. ASSUME stack[n].kind = "call", stack[n].task # 0
        PROVE  /\ stack[n].task \in RunningTasks
               /\ RunningTasks' = RunningTasks \ {stack[n].task}
    <2>1. stack[n].task \in RunningTasks
      BY <1>1, <1>7, RunningDef
    <2>2. \A i \in 1..(n - 1) : stack[i].kind = "call" => stack[i].task # stack[n].task
      BY <1>1, <1>2, <1>3, <1>7, RunningDef DEF Once
    <2>3. \A t : t \in RunningTasks' <=> t \in RunningTasks /\ t # stack[n].task
      BY <1>1, <1>2, <1>4, <2>2, RunningDef
    <2> QED
      BY <2>1, <2>3
  <1> QED
    BY <1>5, <1>6, <1>7

LEMMA RunningSwap ==
    ASSUME NEW n \in Nat, Len(stack) = n, Once, NEW k, Swap(n, k),
           k # "call" \/ stack'[n].task = 0, stack[n].kind # "call"
    PROVE  RunningTasks' = RunningTasks /\ Once'
  <1>1. /\ Len(stack') = n
        /\ \A i \in 1..(n - 1) : stack'[i].kind = stack[i].kind /\ stack'[i].task = stack[i].task
        /\ stack'[n].kind = k
    BY DEF Swap, Kept, SameFrame
  <1>2. \A i : i \in 1..n <=> i \in 1..(n - 1) \/ i = n
    BY DEF Swap
  <1>3. \A t : t \in RunningTasks' <=> t \in RunningTasks
    BY <1>1, <1>2, RunningDef, RunningDefNext
  <1>4. Once'
    BY <1>1, <1>2, RunningDef, RunningDefNext DEF Once
  <1> QED
    BY <1>3, <1>4

\* Where the stack is empty or one frame of the program's, no call is running.
LEMMA NoneRunning ==
    /\ \A n \in Nat : Len(stack) = n /\ (\A i \in 1..n : stack[i].kind # "call")
          => RunningTasks = {} /\ Once
    /\ \A n \in Nat : Len(stack') = n /\ (\A i \in 1..n : stack'[i].kind # "call")
          => RunningTasks' = {} /\ Once'
  BY DEF RunningTasks, Frames, Depth, Once

\* A move that leaves callDepth_ alone leaves the running calls alone.
LEMMA QuietMove ==
    ASSUME NEW n \in Nat, Len(stack) = n, Counts, Once, Moved(n), UNCHANGED callDepth
    PROVE  RunningTasks' = RunningTasks /\ Once'
  <1>1. callDepth \in Int /\ callDepth' # callDepth + 1 /\ callDepth' # callDepth - 1
    BY DEF Counts
  <1>2. CASE Stay(n)
    BY <1>2, RunningStay
  <1>3. CASE OpenRun(n) \/ CloseRun(n) \/ Renew(n)
    <2>1. \A i \in 1..n : stack[i].kind # "call"
      BY <1>3 DEF OpenRun, CloseRun, Renew
    <2>2. RunningTasks = {}
      BY <2>1, NoneRunning
    <2>3. CASE OpenRun(n)
      <3>1. Len(stack') = 1 /\ \A i \in 1..1 : stack'[i].kind # "call"
        BY <2>3 DEF OpenRun
      <3> QED
        BY <2>2, <3>1, NoneRunning
    <2>4. CASE CloseRun(n) \/ Renew(n)
      <3>1. Len(stack') = 0 /\ \A i \in 1..0 : stack'[i].kind # "call"
        BY <2>4 DEF CloseRun, Renew
      <3> QED
        BY <2>2, <3>1, NoneRunning
    <2> QED
      BY <1>3, <2>3, <2>4
  <1>4. CASE PushDefaults(n) \/ PushModule(n) \/ PushGuard(n)
    BY <1>4, RunningGrow DEF PushDefaults, PushModule, PushGuard
  <1>5. CASE PopDefaults(n) \/ PopModule(n) \/ PopGuard(n)
    BY <1>5, RunningShrink DEF PopDefaults, PopModule, PopGuard
  <1>6. CASE SwapGuard(n)
    BY <1>6, RunningSwap DEF SwapGuard
  <1>7. ~PushCall(n) /\ ~SwapInit(n) /\ ~PopCall(n)
    BY <1>1 DEF PushCall, SwapInit, PopCall, CallOpened
  <1> QED
    BY <1>2, <1>3, <1>4, <1>5, <1>6, <1>7 DEF Moved, StackMove

-----------------------------------------------------------------------------
(* The moves of the tasks. *)

Busy == mode # "idle" /\ mode' # "idle"

FirstTask == Head(taskQueue).id

Steady == /\ UNCHANGED <<tasks, outcome>> /\ RunningTasks' = RunningTasks
          /\ mode = "idle" <=> mode' = "idle"
Joins  == /\ Busy /\ nextTask <= MaxTasks
          /\ \E d \in Decl : taskQueue' = Append(taskQueue, [id |-> nextTask, decl |-> d])
          /\ nextTask' = nextTask + 1
          /\ RunningTasks' = RunningTasks /\ UNCHANGED <<finished, failed>>
Starts == /\ Busy /\ taskQueue # <<>> /\ taskQueue' = Tail(taskQueue)
          /\ RunningTasks' = RunningTasks \cup {FirstTask}
          /\ UNCHANGED <<nextTask, finished, failed>>
IsRefused == /\ Busy /\ taskQueue # <<>> /\ taskQueue' = Tail(taskQueue)
             /\ failed' = failed \cup {FirstTask}
             /\ RunningTasks' = RunningTasks /\ UNCHANGED <<nextTask, finished>>
Finishes(t) == /\ Busy /\ t \in RunningTasks /\ RunningTasks' = RunningTasks \ {t}
               /\ finished' = finished \cup {t} /\ UNCHANGED <<taskQueue, nextTask, failed>>
Fails(t)    == /\ Busy /\ t \in RunningTasks /\ RunningTasks' = RunningTasks \ {t}
               /\ failed' = failed \cup {t} /\ UNCHANGED <<taskQueue, nextTask, finished>>
Begins == /\ mode = "idle" /\ mode' # "idle" /\ RunningTasks' = {}
          /\ taskQueue' = <<>> /\ nextTask' = 1 /\ finished' = {} /\ failed' = {}
Ends   == /\ mode # "idle" /\ mode' = "idle" /\ RunningTasks = {} /\ RunningTasks' = {}
          /\ taskQueue = <<>> /\ UNCHANGED tasks
Aborts == /\ mode # "idle" /\ mode' = "idle" /\ RunningTasks = {} /\ RunningTasks' = {}
          /\ taskQueue' = <<>> /\ outcome' # "ok" /\ UNCHANGED <<nextTask, finished, failed>>

TaskMove == \/ Steady \/ Joins \/ Starts \/ IsRefused
            \/ \E t \in TaskId : Finishes(t) \/ Fails(t)
            \/ Begins \/ Ends \/ Aborts

\* The queue holds the numbers that come next.
LEMMA QueueNumbers ==
    ASSUME QueueShape, TasksAccountedFor, NEW q \in Nat, Len(taskQueue) = q
    PROVE  /\ \A i \in 1..q : taskQueue[i] \in QueuedTask /\ taskQueue[i].id \in TaskId
           /\ \A i \in 1..q : taskQueue[i].id = nextTask - q - 1 + i
           /\ nextTask \in Nat /\ q < nextTask
           /\ q > 0 => FirstTask = nextTask - q /\ FirstTask \in TaskId
           /\ mode # "idle" => FirstTask \notin RunningTasks \/ q = 0
  <1>1. \A i \in 1..q : taskQueue[i] \in QueuedTask /\ taskQueue[i].id \in TaskId
    <2>1. \A i \in 1..q : taskQueue[i] \in QueuedTask
      BY DEF QueueShape
    <2>2. \A e \in QueuedTask : e.id \in TaskId
      BY DEF QueuedTask
    <2> QED
      BY <2>1, <2>2
  <1>2. \A i \in 1..q : taskQueue[i].id = nextTask - q - 1 + i
    BY DEF TasksAccountedFor
  <1>3. nextTask \in Nat /\ nextTask > 0
    BY DEF QueueShape
  <1>4. ASSUME q > 0
        PROVE  FirstTask = nextTask - q /\ FirstTask \in TaskId
    <2>1. 1 \in 1..q /\ FirstTask = taskQueue[1].id
      BY <1>4 DEF QueueShape, FirstTask
    <2> QED
      BY <1>1, <1>2, <1>3, <2>1
  <1>5. q < nextTask
    BY <1>3, <1>4 DEF TaskId
  <1>6. ASSUME mode # "idle", q > 0
        PROVE  FirstTask \notin RunningTasks
    <2>1. RunningTasks \subseteq 1..(nextTask - 1 - q)
      BY <1>6 DEF TasksAccountedFor
    <2> QED
      BY <1>3, <1>4, <1>6, <2>1
  <1> QED
    BY <1>1, <1>2, <1>3, <1>4, <1>5, <1>6

\* CallUserFunction starts the call it is asked for, or none.
LEMMA CallRunning ==
    ASSUME Shape, Counts, Once, mode = "running", NEW n \in Nat, Len(stack) = n, n > 0,
           NEW s, StackShape(s), Len(s) = n, Kept(s, stack, n),
           NEW d \in Decl, NEW t \in TaskId \cup {0}, t \notin RunningTasks,
           CallUserFunction(d, t, context, s), UNCHANGED imports
    PROVE  /\ Once' /\ mode' \in {"running", "raising"}
           /\ \/ mode' = "raising" /\ RunningTasks' = RunningTasks
              \/ mode' = "running" /\ RunningTasks' = RunningTasks \cup ({t} \ {0})
  <1>1. Moved(n)
    BY CallStep
  <1>2. CASE mode' = "raising" /\ UNCHANGED callDepth
    BY <1>1, <1>2, QuietMove
  <1>3. CASE mode' = "running" /\ stack' = Append(s, CallFrame(d, t, context))
    <2>. DEFINE f == CallFrame(d, t, context)
    <2>1. f \in Frame
      BY FrameTypes DEF Shape
    <2>2. f.kind = "call" /\ ~f.draining /\ f.task = t
      BY DEF CallFrame, PlainFrame
    <2>. HIDE DEF f
    <2>3. Grow(n, "call") /\ stack'[n + 1] = f
      BY <1>3, <2>1, <2>2, GrowStep DEF f
    <2>4. t = 0 => RunningTasks' = RunningTasks /\ Once'
      BY <2>2, <2>3, RunningGrow
    <2>5. t # 0 => RunningTasks' = RunningTasks \cup {t} /\ Once'
      BY <2>2, <2>3, RunningGrow
    <2> QED
      BY <1>3, <2>4, <2>5
  <1>4. \/ mode' = "raising" /\ UNCHANGED callDepth
        \/ mode' = "running" /\ stack' = Append(s, CallFrame(d, t, context))
    BY DEF CallUserFunction, Throw
  <1> QED
    BY <1>2, <1>3, <1>4

\* Every step is one of these moves.
LEMMA TaskMoves ==
    ASSUME Inv, TasksAccountedFor, [Next]_vars
    PROVE  TaskMove /\ Once'
  <1>. USE DEF Inv
  <1>1. PICK n \in Nat : Len(stack) = n
    BY DEF Shape, StackShape
  <1>2. Moved(n) /\ Once
    BY <1>1, Moves DEF TasksAccountedFor, Once
  <1>3. PICK q \in Nat : Len(taskQueue) = q
    BY DEF QueueShape
  <1>4. UNCHANGED callDepth => RunningTasks' = RunningTasks /\ Once'
    BY <1>1, <1>2, QuietMove
  <1>5. CASE UNCHANGED vars
    BY <1>4, <1>5 DEF vars, control, TaskMove, Steady
  <1>6. ASSUME mode # "idle"
        PROVE  /\ n > 0 /\ Depth = n /\ Top = stack[n] /\ Top \in Frame
               /\ Kept(stack, stack, n)
               /\ Top.todo > 0 => StackShape(Rest) /\ Len(Rest) = n /\ Kept(Rest, stack, n)
    <2>1. n > 0
      BY <1>1, <1>6 DEF Shape, StackShape
    <2>2. Kept(stack, stack, n)
      BY DEF Kept, SameFrame
    <2> QED
      BY <1>1, <2>1, <2>2, Ops DEF Shape
  <1>7. CASE Run
    <2>1. Len(stack') = 1 /\ \A i \in 1..1 : stack'[i].kind # "call"
      BY <1>7 DEF Run, PlainFrame
    <2>2. RunningTasks' = {} /\ Once'
      BY <2>1, NoneRunning
    <2> QED
      BY <1>7, <2>2 DEF Run, QueueShape, TaskMove, Begins
  <1>8. CASE Reset
    <2>1. n = 0 /\ Len(stack') = 0 /\ taskQueue' = taskQueue
      BY <1>1, <1>8 DEF Reset, Shape, StackShape, QueueShape
    <2>2. (\A i \in 1..0 : stack[i].kind # "call") /\ (\A i \in 1..0 : stack'[i].kind # "call")
      OBVIOUS
    <2>3. RunningTasks' = RunningTasks /\ Once'
      BY <1>1, <2>1, <2>2, NoneRunning
    <2> QED
      BY <1>8, <2>1, <2>3 DEF Reset, tasks, TaskMove, Steady
  <1>9. CASE EndRun \/ AbortRun
    <2>1. mode # "idle" /\ Top.kind = "program" /\ stack' = <<>> /\ UNCHANGED callDepth
      BY <1>9 DEF EndRun, AbortRun
    <2>2. RunningTasks' = RunningTasks /\ Once' /\ RunningTasks' = {}
      <3>1. Len(stack') = 0 /\ \A i \in 1..0 : stack'[i].kind # "call"
        BY <2>1
      <3> QED
        BY <1>4, <2>1, <3>1, NoneRunning
    <2>3. EndRun => Ends
      BY <2>1, <2>2 DEF EndRun, Ends
    <2>4. AbortRun => Aborts
      BY <2>1, <2>2 DEF AbortRun, Aborts, Shape
    <2> QED
      BY <1>9, <2>2, <2>3, <2>4 DEF TaskMove
  <1>10. CASE BeginDrain \/ LoopPass \/ Instantiate \/ (\E m \in Modules : Use(m)) \/ LeaveModule
              \/ EnterGuard \/ LeaveGuard \/ Raise \/ Catch \/ PassGuard \/ UnwindDefaults
              \/ UnwindModule
    <2>1. UNCHANGED callDepth
      BY <1>10 DEF BeginDrain, LoopPass, Instantiate, Use, LeaveModule, EnterGuard, LeaveGuard,
         Raise, Catch, PassGuard, UnwindDefaults, UnwindModule
    <2>2. UNCHANGED <<tasks, outcome>>
      BY <1>10 DEF BeginDrain, LoopPass, Instantiate, Use, LeaveModule, EnterGuard, LeaveGuard,
         Raise, Catch, PassGuard, UnwindDefaults, UnwindModule, tasks
    <2>3. mode # "idle" /\ mode' # "idle"
      BY <1>10 DEF BeginDrain, LoopPass, Instantiate, Use, LeaveModule, EnterGuard, LeaveGuard,
         Raise, Catch, PassGuard, UnwindDefaults, UnwindModule, Statements, Executing, Throw
    <2> QED
      BY <1>4, <2>1, <2>2, <2>3 DEF TaskMove, Steady
  <1>11. CASE Queue
    <2>1. UNCHANGED <<callDepth, finished, failed, outcome>> /\ nextTask <= MaxTasks
      BY <1>11 DEF Queue
    <2>2. Busy
      BY <1>11 DEF Queue, Executing, Throw, Busy
    <2>3. \/ UNCHANGED <<taskQueue, nextTask>>
          \/ /\ \E d \in Decl : taskQueue' = Append(taskQueue, [id |-> nextTask, decl |-> d])
             /\ nextTask' = nextTask + 1
      BY <1>11 DEF Queue
    <2> QED
      BY <1>4, <2>1, <2>2, <2>3 DEF TaskMove, Steady, Joins, Busy, tasks
  <1>12. 0 \notin RunningTasks
    BY DEF RunningTasks
  <1>13. CASE Call \/ Display
    <2>1. PICK d \in Decl : CallUserFunction(d, 0, context, Rest)
      BY <1>13 DEF Call, Display
    <2>2. mode = "running" /\ Top.todo > 0 /\ UNCHANGED <<imports, tasks, outcome>>
      BY <1>13 DEF Call, Display, Executing
    <2>3. Once' /\ mode' # "idle" /\ RunningTasks' = RunningTasks
      BY <1>1, <1>2, <1>6, <1>12, <2>1, <2>2, CallRunning
    <2> QED
      BY <2>2, <2>3 DEF TaskMove, Steady
  <1>14. CASE RunTask
    <2>1. /\ mode = "running" /\ taskQueue # <<>> /\ taskQueue' = Tail(taskQueue)
          /\ UNCHANGED <<imports, nextTask, finished, outcome>>
          /\ failed' = IF mode' = "raising" THEN failed \cup {FirstTask} ELSE failed
      BY <1>14 DEF RunTask, FirstTask
    <2>2. q > 0 /\ Head(taskQueue) \in QueuedTask
      BY <1>3, <2>1 DEF QueueShape
    <2>3. FirstTask \in TaskId /\ FirstTask \notin RunningTasks /\ FirstTask # 0
      BY <1>3, <2>1, <2>2, QueueNumbers DEF TaskId
    <2>4. /\ Once' /\ mode' \in {"running", "raising"}
          /\ \/ mode' = "raising" /\ RunningTasks' = RunningTasks
             \/ mode' = "running" /\ RunningTasks' = RunningTasks \cup ({FirstTask} \ {0})
      <3>1. Head(taskQueue).decl \in Decl
        BY <2>2 DEF QueuedTask
      <3>2. CallUserFunction(Head(taskQueue).decl, FirstTask, context, stack)
        BY <1>14 DEF RunTask, FirstTask
      <3> QED
        BY <1>1, <1>2, <1>6, <2>1, <2>3, <3>1, <3>2, CallRunning DEF Shape
    <2> QED
      BY <2>1, <2>3, <2>4 DEF TaskMove, Starts, IsRefused, Busy
  <1>15. CASE Return \/ UnwindCall
    <2>1. /\ mode # "idle" /\ mode' # "idle" /\ stack' = Below /\ Top.kind = "call"
          /\ UNCHANGED <<taskQueue, nextTask, outcome>>
      BY <1>15 DEF Return, UnwindCall
    <2>2. Shrink(n) /\ Top = stack[n] /\ Top.task \in TaskId \cup {0}
      BY <1>1, <1>6, <2>1, ShrinkStep DEF Shape, Frame
    <2>3. /\ Once'
          /\ Top.task = 0 => RunningTasks' = RunningTasks
          /\ Top.task # 0 => /\ Top.task \in RunningTasks
                             /\ RunningTasks' = RunningTasks \ {Top.task}
      BY <1>1, <1>2, <2>1, <2>2, RunningShrink
    <2>4. CASE Return
      BY <2>1, <2>2, <2>3, <2>4 DEF Return, TaskMove, Steady, Finishes, Busy, tasks
    <2>5. CASE UnwindCall
      BY <2>1, <2>2, <2>3, <2>5 DEF UnwindCall, TaskMove, Steady, Fails, Busy, tasks
    <2> QED
      BY <1>15, <2>4, <2>5
  <1>16. CASE LeaveDefaults
    <2>1. mode = "running" /\ Top.kind = "defaults" /\ UNCHANGED <<imports, tasks, outcome>>
      BY <1>16 DEF LeaveDefaults
    <2>2. CASE UNCHANGED callDepth /\ mode' # "idle"
      BY <1>4, <2>1, <2>2 DEF TaskMove, Steady
    <2>3. ASSUME NEW d \in Decl, NEW c \in Context, stack' = Append(Below, CallFrame(d, 0, c)),
                 mode' = "running"
          PROVE  TaskMove /\ Once'
      <3>. DEFINE f == CallFrame(d, 0, c)
      <3>1. f \in Frame
        BY FrameTypes
      <3>2. f.kind = "call" /\ ~f.draining /\ f.task = 0
        BY DEF CallFrame, PlainFrame
      <3>. HIDE DEF f
      <3>3. Swap(n, "call") /\ stack'[n] = f
        BY <1>1, <1>6, <2>1, <2>3, <3>1, <3>2, SwapStep DEF Shape, f
      <3>4. RunningTasks' = RunningTasks /\ Once'
        BY <1>1, <1>2, <1>6, <2>1, <3>2, <3>3, RunningSwap
      <3> QED
        BY <2>1, <2>3, <3>4 DEF TaskMove, Steady
    <2>4. Restored(Top) \in Context
      BY <1>6, <2>1 DEF Shape, Restored, Context, Frame
    <2>5. \/ UNCHANGED callDepth /\ mode' # "idle"
          \/ \E d \in Decl : /\ stack' = Append(Below, CallFrame(d, 0, Restored(Top)))
                             /\ mode' = "running"
      BY <1>16, <2>1 DEF LeaveDefaults, CallUserFunction, Throw
    <2> QED
      BY <2>2, <2>3, <2>4, <2>5
  <1> QED
    BY <1>5, <1>7, <1>8, <1>9, <1>10, <1>11, <1>13, <1>14, <1>15, <1>16 DEF Next, Step

-----------------------------------------------------------------------------
(* The accounts. *)

\* Every move keeps the accounts.
LEMMA AccountsStep ==
    ASSUME QueueShape, QueueShape', TasksAccountedFor, TaskMove, Once', mode = "idle" => taskQueue = <<>>
    PROVE  TasksAccountedFor'
  <1>. DEFINE Numbered == \A i \in 1..Len(taskQueue) :
                              taskQueue[i].id = nextTask - Len(taskQueue) - 1 + i
              Apart    == RunningTasks \cap (finished \cup failed) = {} /\ finished \cap failed = {}
              Complete == RunningTasks \cup finished \cup failed
                              = 1..(nextTask - 1 - Len(taskQueue))
  <1>1. PICK q \in Nat : Len(taskQueue) = q
    BY DEF QueueShape
  <1>2. /\ Numbered /\ Apart /\ (mode # "idle" => Complete)
        /\ nextTask \in Nat /\ q < nextTask
        /\ q > 0 => FirstTask = nextTask - q
    BY <1>1, QueueNumbers DEF TasksAccountedFor
  <1>. SUFFICES Numbered' /\ Apart' /\ (mode' # "idle" \/ outcome' = "ok" => Complete')
    BY DEF TasksAccountedFor, Once, QueueShape
  <1>3. CASE Steady
    BY <1>3 DEF TasksAccountedFor, Steady, tasks
  <1>4. CASE Joins
    <2>1. PICK d \in Decl : taskQueue' = Append(taskQueue, [id |-> nextTask, decl |-> d])
      BY <1>4 DEF Joins
    <2>. DEFINE e == [id |-> nextTask, decl |-> d]
    <2>2. nextTask \in TaskId
      BY <1>4 DEF Joins, QueueShape, TaskId
    <2>3. e \in QueuedTask /\ e.id = nextTask
      BY <2>2 DEF QueuedTask
    <2>. HIDE DEF e
    <2>4. /\ Len(taskQueue') = q + 1
          /\ \A i \in 1..q : taskQueue'[i] = taskQueue[i]
          /\ taskQueue'[q + 1] = e
      BY <1>1, <2>1, <2>3, Push DEF QueueShape, e
    <2>5. \A i \in 1..(q + 1) : i \in 1..q \/ i = q + 1
      OBVIOUS
    <2>6. Numbered'
      <3>1. nextTask' = nextTask + 1
        BY <1>4 DEF Joins
      <3>2. \A i \in 1..q : taskQueue'[i].id = nextTask - q - 1 + i
        BY <1>1, <1>2, <2>4
      <3>3. taskQueue'[q + 1].id = nextTask
        BY <2>3, <2>4
      <3>4. \A i \in 1..(q + 1) : taskQueue'[i].id = nextTask' - (q + 1) - 1 + i
        <4>. TAKE i \in 1..(q + 1)
        <4>1. nextTask' - (q + 1) - 1 + i = nextTask - q - 1 + i
          BY <1>2, <3>1
        <4>2. CASE i \in 1..q
          BY <3>2, <4>1, <4>2
        <4>3. CASE i = q + 1
          BY <1>2, <3>3, <4>1, <4>3
        <4> QED
          BY <2>5, <4>2, <4>3
      <3> QED
        BY <2>4, <3>4
    <2>7. nextTask' - 1 - Len(taskQueue') = nextTask - 1 - Len(taskQueue)
      <3>1. nextTask' = nextTask + 1 /\ Len(taskQueue') = q + 1
        BY <1>4, <2>4 DEF Joins
      <3>2. nextTask \in Nat
        BY <1>2
      <3> QED
        BY <1>1, <3>1, <3>2
    <2> QED
      BY <1>2, <1>4, <2>6, <2>7 DEF Joins, Busy
  <1>5. CASE Starts \/ IsRefused
    <2>1. /\ Busy /\ taskQueue # <<>> /\ taskQueue' = Tail(taskQueue) /\ nextTask' = nextTask
          /\ finished' = finished
      BY <1>5 DEF Starts, IsRefused
    <2>2. /\ q > 0 /\ Len(taskQueue') = q - 1
          /\ \A i \in 1..(q - 1) : taskQueue'[i] = taskQueue[i + 1]
      BY <1>1, <2>1 DEF QueueShape
    <2>3. Numbered'
      <3>1. \A i \in 1..(q - 1) : /\ i + 1 \in 1..q
                                    /\ nextTask - q - 1 + (i + 1) = nextTask - (q - 1) - 1 + i
        BY <1>1, <1>2
      <3>2. \A i \in 1..(q - 1) : taskQueue[i + 1].id = nextTask - q - 1 + (i + 1)
        BY <1>1, <1>2, <3>1
      <3>3. \A i \in 1..(q - 1) : taskQueue'[i].id = nextTask' - (q - 1) - 1 + i
        <4>. TAKE i \in 1..(q - 1)
        <4>1. taskQueue'[i] = taskQueue[i + 1]
          BY <2>2
        <4>2. taskQueue[i + 1].id = nextTask - (q - 1) - 1 + i
          BY <3>1, <3>2
        <4> QED
          BY <2>1, <4>1, <4>2
      <3>4. Len(taskQueue') = q - 1
        BY <2>2
      <3> QED
        BY <3>3, <3>4
    <2>4. \A t : t \in 1..(nextTask' - 1 - Len(taskQueue'))
                 <=> t \in 1..(nextTask - 1 - Len(taskQueue)) \/ t = FirstTask
      BY <1>1, <1>2, <2>1, <2>2
    <2>5. FirstTask \notin RunningTasks \cup finished \cup failed
      BY <1>1, <1>2, <2>1, <2>2 DEF Busy
    <2>6. Complete
      BY <1>2, <2>1 DEF Busy
    <2>7. Apart' /\ Complete'
      <3>1. CASE Starts
        <4>1. RunningTasks' = RunningTasks \cup {FirstTask} /\ failed' = failed
          BY <3>1 DEF Starts
        <4> QED
          BY <1>2, <2>1, <2>4, <2>5, <2>6, <4>1
      <3>2. CASE IsRefused
        <4>1. RunningTasks' = RunningTasks /\ failed' = failed \cup {FirstTask}
          BY <3>2 DEF IsRefused
        <4> QED
          BY <1>2, <2>1, <2>4, <2>5, <2>6, <4>1
      <3> QED
        BY <1>5, <3>1, <3>2
    <2> QED
      BY <2>3, <2>7
  <1>6. ASSUME NEW t \in TaskId, Finishes(t) \/ Fails(t)
        PROVE  Numbered' /\ Apart' /\ Complete'
    <2>1. /\ Busy /\ t \in RunningTasks /\ RunningTasks' = RunningTasks \ {t}
          /\ UNCHANGED <<taskQueue, nextTask>>
          /\ \/ finished' = finished \cup {t} /\ failed' = failed
             \/ finished' = finished /\ failed' = failed \cup {t}
      BY <1>6 DEF Finishes, Fails
    <2> QED
      BY <1>2, <2>1 DEF Busy
  <1>7. CASE Begins
    <2>1. Len(taskQueue') = 0 /\ nextTask' = 1
      BY <1>7 DEF Begins
    <2>2. 1..(nextTask' - 1 - Len(taskQueue')) = {}
      BY <2>1
    <2> QED
      BY <1>7, <2>1, <2>2 DEF Begins
  <1>8. CASE Ends
    BY <1>2, <1>8 DEF Ends, tasks
  <1>9. CASE Aborts
    <2>1. Len(taskQueue') = 0 /\ mode' = "idle" /\ outcome' # "ok"
      BY <1>9 DEF Aborts
    <2> QED
      BY <1>2, <1>9, <2>1 DEF Aborts
  <1> QED
    BY <1>3, <1>4, <1>5, <1>6, <1>7, <1>8, <1>9 DEF TaskMove

\* Every call queued in a run is at one place: waiting in the order it was
\* queued, running once, finished or failed; a run that ends well has left none
\* waiting.
THEOREM TasksCorrect == Spec => []TasksAccountedFor
  <1>1. Init => TasksAccountedFor
    <2>. SUFFICES ASSUME Init PROVE TasksAccountedFor
      OBVIOUS
    <2>1. Len(stack) = 0 /\ \A i \in 1..0 : stack[i].kind # "call"
      BY DEF Init
    <2>2. RunningTasks = {} /\ Once
      BY <2>1, NoneRunning
    <2>3. Len(taskQueue) = 0
      BY DEF Init
    <2> QED
      BY <2>2, <2>3, BoundsAssumption DEF Init, TasksAccountedFor, Once
  <1>2. Inv /\ Inv' /\ TasksAccountedFor /\ [Next]_vars => TasksAccountedFor'
    BY TaskMoves, AccountsStep DEF Inv, QueueShape
  <1> QED
    BY <1>1, <1>2, Invariance, PTL DEF Spec

-----------------------------------------------------------------------------
(* The promise. *)

fates == [t \in TaskId |-> FateOf(t)]

\* What FateOf says of each number, in a run.
FatesRead ==
    \A t \in TaskId :
        /\ fates[t] \in {"unborn", "queued", "running", "finished", "failed"}
        /\ fates[t] = "unborn" <=> t >= nextTask
        /\ fates[t] = "finished" <=> t \in finished
        /\ fates[t] = "failed" <=> t \in failed
        /\ fates[t] = "running" <=> t \in RunningTasks
        /\ fates[t] = "queued" <=> nextTask - Len(taskQueue) <= t /\ t < nextTask

LEMMA FatesInRun ==
    QueueShape /\ TasksAccountedFor /\ mode # "idle" => FatesRead
  <1>. SUFFICES ASSUME QueueShape, TasksAccountedFor, mode # "idle", NEW t \in TaskId
                PROVE  /\ FateOf(t) \in {"unborn", "queued", "running", "finished", "failed"}
                       /\ FateOf(t) = "unborn" <=> t >= nextTask
                       /\ FateOf(t) = "finished" <=> t \in finished
                       /\ FateOf(t) = "failed" <=> t \in failed
                       /\ FateOf(t) = "running" <=> t \in RunningTasks
                       /\ FateOf(t) = "queued" <=> nextTask - Len(taskQueue) <= t /\ t < nextTask
    BY DEF FatesRead, fates
  <1>1. PICK q \in Nat : Len(taskQueue) = q
    BY DEF QueueShape
  <1>2. nextTask \in Nat /\ q < nextTask /\ t \in Nat /\ t > 0
    BY <1>1, QueueNumbers DEF TaskId
  <1>3. /\ RunningTasks \cup finished \cup failed = 1..(nextTask - 1 - q)
        /\ RunningTasks \cap (finished \cup failed) = {} /\ finished \cap failed = {}
    BY <1>1 DEF TasksAccountedFor
  <1>4. t \in Queued <=> nextTask - q <= t /\ t < nextTask
    <2>1. \A i \in 1..q : taskQueue[i].id = nextTask - q - 1 + i
      BY <1>1 DEF TasksAccountedFor
    <2>2. ASSUME t \in Queued PROVE nextTask - q <= t /\ t < nextTask
      <3>1. PICK i \in 1..q : t = taskQueue[i].id
        BY <1>1, <2>2 DEF Queued
      <3>2. t = nextTask - q - 1 + i
        BY <2>1, <3>1
      <3> QED
        BY <1>2, <3>2
    <2>3. ASSUME nextTask - q <= t, t < nextTask PROVE t \in Queued
      <3>. DEFINE i == t - (nextTask - q - 1)
      <3>1. i \in 1..q /\ nextTask - q - 1 + i = t
        BY <1>2, <2>3
      <3>. HIDE DEF i
      <3>2. taskQueue[i].id = t
        BY <2>1, <3>1
      <3> QED
        BY <1>1, <3>1, <3>2 DEF Queued
    <2> QED
      BY <2>2, <2>3
  <1>5. t \in 1..(nextTask - 1 - q) <=> t < nextTask - q
    BY <1>2
  <1>6. /\ t >= nextTask <=> ~(t < nextTask)
        /\ t < nextTask - q => t < nextTask
        /\ nextTask - q <= t <=> ~(t < nextTask - q)
    BY <1>2
  <1> QED
    BY <1>1, <1>3, <1>4, <1>5, <1>6 DEF FateOf

LEMMA FatesInNext ==
    QueueShape' /\ TasksAccountedFor' /\ mode' # "idle" => FatesRead'
  <1>1. (QueueShape /\ TasksAccountedFor /\ mode # "idle" => FatesRead)'
    BY FatesInRun, PTL
  <1> QED
    BY <1>1

\* A function on the numbers that differs from the fates at one of them.
LEMMA OneFate ==
    ASSUME NEW t \in TaskId, NEW f, fates'[t] = f,
           \A u \in TaskId : u # t => fates'[u] = fates[u]
    PROVE  fates' = [fates EXCEPT ![t] = f]
  BY DEF fates

\* Every move of the tasks is a step of AsyncTasks, or none.
LEMMA PromiseStep ==
    ASSUME QueueShape, TasksAccountedFor, QueueShape', TasksAccountedFor', TaskMove
    PROVE  [Promise!Next]_<<mode # "idle", fates>>
  <1>1. nextTask \in Nat /\ MaxTasks \in Nat
    BY BoundsAssumption DEF QueueShape
  <1>2. PICK q \in Nat : Len(taskQueue) = q
    BY DEF QueueShape
  <1>3. TaskId = Promise!Task /\ \A t \in TaskId : t \in Nat /\ t > 0
    BY DEF TaskId, Promise!Task
  <1>4. ASSUME UNCHANGED tasks, RunningTasks' = RunningTasks
        PROVE  fates' = fates
    BY <1>4 DEF fates, FateOf, Queued, tasks
  <1>5. ASSUME Busy PROVE FatesRead /\ FatesRead' /\ (mode # "idle") = TRUE /\ (mode' # "idle") = TRUE
    BY <1>5, FatesInRun, FatesInNext DEF Busy
  <1>6. CASE Steady
    BY <1>4, <1>6 DEF Steady
  <1>7. CASE Joins
    <2>1. /\ Busy /\ nextTask \in TaskId /\ nextTask' = nextTask + 1 /\ Len(taskQueue') = q + 1
          /\ RunningTasks' = RunningTasks /\ finished' = finished /\ failed' = failed
      BY <1>1, <1>2, <1>7 DEF Joins, TaskId, QueueShape
    <2>2. fates'[nextTask] = "queued"
      BY <1>1, <1>2, <1>5, <2>1 DEF FatesRead
    <2>3. \A u \in TaskId : u # nextTask => fates'[u] = fates[u]
      BY <1>1, <1>2, <1>3, <1>5, <2>1 DEF FatesRead
    <2>4. \A u \in TaskId : fates[u] = "unborn" <=> nextTask <= u
      BY <1>1, <1>3, <1>5, <2>1 DEF FatesRead
    <2>5. fates' = [fates EXCEPT ![nextTask] = "queued"]
      BY <2>1, <2>2, <2>3, OneFate
    <2>6. /\ nextTask \in Promise!Is({"unborn"})
          /\ \A u \in Promise!Is({"unborn"}) : nextTask <= u
      <3>1. nextTask <= nextTask
        BY <1>1
      <3> QED
        BY <1>3, <2>1, <2>4, <3>1 DEF Promise!Is, fates
    <2>7. Promise!Queue(nextTask)
      BY <1>5, <2>1, <2>5, <2>6 DEF Promise!Queue, Promise!Oldest, Promise!Becomes, fates
    <2> QED
      BY <1>3, <2>1, <2>7 DEF Promise!Next
  <1>8. CASE Starts \/ IsRefused
    <2>. DEFINE t == FirstTask
    <2>1. /\ Busy /\ nextTask' = nextTask /\ finished' = finished
          /\ q > 0 /\ Len(taskQueue') = q - 1
          /\ t \in TaskId /\ t = nextTask - q
      <3>1. Busy /\ taskQueue # <<>> /\ taskQueue' = Tail(taskQueue) /\ UNCHANGED <<nextTask, finished>>
        BY <1>8 DEF Starts, IsRefused
      <3>2. q > 0 /\ Len(taskQueue') = q - 1
        BY <1>2, <3>1 DEF QueueShape
      <3> QED
        BY <1>2, <3>1, <3>2, QueueNumbers
    <2>. HIDE DEF t
    <2>2. \A u \in TaskId : fates[u] = "queued" <=> t <= u /\ u < nextTask
      BY <1>1, <1>2, <1>3, <1>5, <2>1 DEF FatesRead
    <2>3. /\ t \in Promise!Is({"queued"})
          /\ \A u \in Promise!Is({"queued"}) : t <= u
      <3>1. t < nextTask /\ t <= t
        BY <1>1, <1>2, <2>1
      <3> QED
        BY <1>3, <2>1, <2>2, <3>1 DEF Promise!Is, fates
    <2>4. CASE Starts
      <3>1. RunningTasks' = RunningTasks \cup {t} /\ failed' = failed
        BY <2>4 DEF Starts, t
      <3>2. fates'[t] = "running"
        BY <1>5, <2>1, <3>1 DEF FatesRead
      <3>3. \A u \in TaskId : u # t => fates'[u] = fates[u]
        BY <1>1, <1>2, <1>3, <1>5, <2>1, <3>1 DEF FatesRead
      <3>4. fates' = [fates EXCEPT ![t] = "running"]
        BY <2>1, <3>2, <3>3, OneFate
      <3>5. Promise!Start(t)
        BY <1>5, <2>1, <2>3, <3>4 DEF Promise!Start, Promise!Oldest, Promise!Becomes, fates
      <3> QED
        BY <1>3, <2>1, <3>5 DEF Promise!Next
    <2>5. CASE IsRefused
      <3>1. RunningTasks' = RunningTasks /\ failed' = failed \cup {t}
        BY <2>5 DEF IsRefused, t
      <3>2. fates'[t] = "failed"
        BY <1>5, <2>1, <3>1 DEF FatesRead
      <3>3. \A u \in TaskId : u # t => fates'[u] = fates[u]
        BY <1>1, <1>2, <1>3, <1>5, <2>1, <3>1 DEF FatesRead
      <3>4. fates' = [fates EXCEPT ![t] = "failed"]
        BY <2>1, <3>2, <3>3, OneFate
      <3>5. Promise!Refuse(t)
        BY <1>5, <2>1, <2>3, <3>4 DEF Promise!Refuse, Promise!Oldest, Promise!Becomes, fates
      <3> QED
        BY <1>3, <2>1, <3>5 DEF Promise!Next
    <2> QED
      BY <1>8, <2>4, <2>5
  <1>9. ASSUME NEW t \in TaskId, Finishes(t) \/ Fails(t)
        PROVE  Promise!Next
    <2>1. /\ Busy /\ t \in RunningTasks /\ RunningTasks' = RunningTasks \ {t}
          /\ UNCHANGED <<taskQueue, nextTask>>
      BY <1>9 DEF Finishes, Fails
    <2>2. t \in Promise!Is({"running"})
      BY <1>3, <1>5, <2>1 DEF FatesRead, Promise!Is, fates
    <2>3. CASE Finishes(t)
      <3>1. finished' = finished \cup {t} /\ failed' = failed
        BY <2>3 DEF Finishes
      <3>2. fates'[t] = "finished" /\ \A u \in TaskId : u # t => fates'[u] = fates[u]
        BY <1>5, <2>1, <3>1 DEF FatesRead
      <3>3. fates' = [fates EXCEPT ![t] = "finished"]
        BY <3>2, OneFate
      <3>4. Promise!Finish(t)
        BY <1>5, <2>1, <2>2, <3>3 DEF Promise!Finish, Promise!Becomes, fates
      <3> QED
        BY <1>3, <3>4 DEF Promise!Next
    <2>4. CASE Fails(t)
      <3>1. finished' = finished /\ failed' = failed \cup {t}
        BY <2>4 DEF Fails
      <3>2. fates'[t] = "failed" /\ \A u \in TaskId : u # t => fates'[u] = fates[u]
        BY <1>5, <2>1, <3>1 DEF FatesRead
      <3>3. fates' = [fates EXCEPT ![t] = "failed"]
        BY <3>2, OneFate
      <3>4. Promise!Fail(t)
        BY <1>5, <2>1, <2>2, <3>3 DEF Promise!Fail, Promise!Becomes, fates
      <3> QED
        BY <1>3, <3>4 DEF Promise!Next
    <2> QED
      BY <1>9, <2>3, <2>4
  <1>10. CASE Begins
    <2>1. FatesRead' /\ nextTask' = 1 /\ mode = "idle" /\ mode' # "idle"
      BY <1>10, FatesInNext DEF Begins
    <2>2. \A t \in TaskId : fates'[t] = "unborn"
      BY <1>3, <2>1 DEF FatesRead
    <2>3. fates' = [t \in Promise!Task |-> "unborn"]
      BY <1>3, <2>2 DEF fates
    <2> QED
      BY <2>1, <2>3 DEF Promise!Next, Promise!Begin, fates
  <1>11. CASE Ends
    <2>1. /\ mode # "idle" /\ mode' = "idle" /\ taskQueue = <<>> /\ RunningTasks = {}
          /\ fates' = fates /\ FatesRead
      BY <1>4, <1>11, FatesInRun DEF Ends
    <2>2. q = 0
      BY <1>2, <2>1
    <2>3. \A t \in TaskId : fates[t] # "queued" /\ fates[t] # "running"
      BY <1>1, <1>2, <1>3, <2>1, <2>2 DEF FatesRead
    <2>4. Promise!Is({"queued", "running"}) = {}
      BY <1>3, <2>3 DEF Promise!Is, fates
    <2> QED
      BY <2>1, <2>4 DEF Promise!Next, Promise!End, fates
  <1>12. CASE Aborts
    <2>1. /\ mode # "idle" /\ mode' = "idle" /\ taskQueue' = <<>>
          /\ RunningTasks = {} /\ RunningTasks' = {}
          /\ UNCHANGED <<nextTask, finished, failed>> /\ FatesRead
      BY <1>12, FatesInRun DEF Aborts
    <2>2. Queued' = {}
      BY <2>1 DEF Queued
    <2>3. \A t \in TaskId : fates'[t] = IF fates[t] = "queued" THEN "dropped" ELSE fates[t]
      <3>. TAKE t \in TaskId
      <3>1. /\ fates[t] \in {"unborn", "queued", "running", "finished", "failed"}
            /\ fates[t] = "unborn" <=> t >= nextTask
            /\ fates[t] = "finished" <=> t \in finished
            /\ fates[t] = "failed" <=> t \in failed
            /\ fates[t] # "running"
        BY <2>1 DEF FatesRead
      <3>2. fates'[t] = FateOf(t)'
        BY DEF fates
      <3>3. FateOf(t)' = CASE t >= nextTask -> "unborn"
                           [] t \in finished -> "finished"
                           [] t \in failed   -> "failed"
                           [] OTHER          -> "dropped"
        BY <2>1, <2>2, <3>1 DEF FateOf
      <3> QED
        BY <3>1, <3>2, <3>3
    <2>4. fates' = [t \in Promise!Task |-> IF fates[t] = "queued" THEN "dropped" ELSE fates[t]]
      BY <1>3, <2>3 DEF fates
    <2>5. Promise!Is({"running"}) = {}
      BY <1>3, <2>1 DEF FatesRead, Promise!Is, fates
    <2> QED
      BY <2>1, <2>4, <2>5 DEF Promise!Next, Promise!Abort, fates
  <1> QED
    BY <1>6, <1>7, <1>8, <1>9, <1>10, <1>11, <1>12 DEF TaskMove, Steady

\* The queue of the interpreter implements the one AsyncTasks promises: nested
\* drains, unwinding and aborted runs never start a queued call twice or out of
\* order, never lose one in a run that ends well, and never carry one into the
\* next run.
THEOREM PromiseKept == Spec => KeepsAsyncPromise
  <1>1. Init => Promise!Init
    <2>. SUFFICES ASSUME Init PROVE Promise!Init
      OBVIOUS
    <2>1. \A t \in TaskId : t >= nextTask
      BY DEF Init, TaskId
    <2>2. \A t \in TaskId : FateOf(t) = "unborn"
      <3>1. RunningTasks = {} /\ Queued = {} /\ finished = {} /\ failed = {}
        BY DEF Init, RunningTasks, Frames, Depth, Queued
      <3> QED
        BY <2>1, <3>1 DEF FateOf
    <2>3. [t \in TaskId |-> FateOf(t)] = [t \in Promise!Task |-> "unborn"]
      BY <2>2 DEF TaskId, Promise!Task
    <2>4. (mode # "idle") = FALSE
      BY DEF Init
    <2> QED
      BY <2>3, <2>4 DEF Promise!Init
  <1>2. ASSUME Inv, TasksAccountedFor, Inv', TasksAccountedFor', [Next]_vars
        PROVE  [Promise!Next]_<<mode # "idle", fates>>
    BY <1>2, TaskMoves, PromiseStep DEF Inv
  <1>3. Inv /\ TasksAccountedFor /\ Inv' /\ TasksAccountedFor' /\ [Next]_vars
           => [Promise!Next]_<<mode # "idle", [t \in TaskId |-> FateOf(t)]>>
    BY <1>2 DEF fates
  <1> QED
    BY <1>1, <1>3, Invariance, TasksCorrect, PTL DEF Spec, KeepsAsyncPromise, Promise!Spec

=============================================================================
