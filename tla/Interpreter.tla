---------------------------- MODULE Interpreter ----------------------------
(***************************************************************************)
(* The control machine of the evaluator (engine/interpreter/Interpreter.h) *)
(* and the session that drives it (engine/Session.h): nested calls,        *)
(* `or_else` guards, object creation, module loading, the async task       *)
(* queue, and what every one of these restores when an error unwinds it.   *)
(*                                                                         *)
(* The C++ call stack is the sequence `stack`, one frame per construct     *)
(* that has something to undo or to catch.  A program is not written down: *)
(* each frame may run any statement next, so a behaviour of this module is *)
(* a run of SOME program, and a property that holds here holds for all of  *)
(* them within the bounds.                                                 *)
(***************************************************************************)
EXTENDS Naturals, Sequences, FiniteSets

CONSTANTS
    Modules,        \* module files that can be named by `use` (canonical paths)
    Owners,         \* classes that write methods
    MaxSteps,       \* Config::maxSteps; 0 means no limit
    MaxCallDepth,   \* limits::kMaxCallDepth
    MaxQueuedTasks, \* limits::kMaxQueuedTasks
    MaxImportDepth, \* limits::kMaxImportDepth
    StackBudget,    \* frames the native stack has room for (planStack, guardStack)
    MaxBody,        \* bound: statements a body runs between two loop passes
    MaxTasks        \* bound: async calls queued in one run

NoModule == "none"
NoOwner  == "none"

ASSUME BoundsAssumption ==
    /\ {MaxSteps, MaxCallDepth, MaxQueuedTasks, MaxImportDepth} \subseteq Nat
    /\ {StackBudget, MaxBody, MaxTasks} \subseteq Nat

ASSUME NamesAssumption == NoModule \notin Modules /\ NoOwner \notin Owners

VARIABLES
    mode,           \* "idle" between runs, "running", or "raising" an exception
    error,          \* the exception in flight: "none", "recoverable", "fatal"
    stack,          \* the frames of the C++ stack, outermost first
    context,        \* inFunctionBody_, currentFunctionPure_, currentSelf_/currentOwner_
    callDepth,      \* callDepth_
    moduleDepth,    \* moduleDepth_
    stepsLeft,      \* stepsLeft_
    importedPaths,  \* importedPaths_
    taskQueue,      \* taskQueue_
    nextTask,       \* history: number of the next async call queued in this run
    finished,       \* history: tasks of this run that ran to their end
    failed,         \* history: tasks of this run that an error ended
    completed,      \* history: modules whose load was committed
    outcome         \* history: how the last run ended

control == <<mode, error, stack, context, callDepth, stepsLeft>>
imports == <<importedPaths, moduleDepth, completed>>
tasks   == <<taskQueue, nextTask, finished, failed>>
vars    == <<control, imports, tasks, outcome>>

-----------------------------------------------------------------------------
(* Contexts, declarations and frames. *)

Context == [inFunctionBody : BOOLEAN, pure : BOOLEAN, owner : Owners \cup {NoOwner}]

\* What a call needs of a FunctionDecl: whether it is pure, and the class that
\* wrote it when it is a method.
Decl == [pure : BOOLEAN, owner : Owners \cup {NoOwner}]

TaskId == 1..MaxTasks

QueuedTask == [id : TaskId, decl : Decl]

TopContext == [inFunctionBody |-> FALSE, pure |-> FALSE, owner |-> NoOwner]

FrameKind == {"program", "module", "call", "defaults", "try", "handler"}

\* task: the queued call a "call" frame is running, 0 for a direct call.
\* saved: what the destructor of FrameGuard or DefaultValueScope puts back.
\* draining: a program's statements are over and drainTaskQueue is running.
\* todo: statements left before the body ends or its loop starts a new pass.
Frame == [kind : FrameKind, path : Modules \cup {NoModule}, decl : Decl,
          task : TaskId \cup {0}, saved : Context, draining : BOOLEAN,
          todo : 0..MaxBody]

TopDecl == [pure |-> FALSE, owner |-> NoOwner]

PlainFrame(k) ==
    [kind |-> k, path |-> NoModule, decl |-> TopDecl, task |-> 0,
     saved |-> TopContext, draining |-> FALSE, todo |-> MaxBody]

ModuleFrame(m)     == [PlainFrame("module") EXCEPT !.path = m]
DefaultsFrame(c)   == [PlainFrame("defaults") EXCEPT !.saved = c]
CallFrame(d, t, c) == [PlainFrame("call") EXCEPT !.decl = d, !.task = t, !.saved = c]

Depth    == Len(stack)
Top      == stack[Depth]
Below    == SubSeq(stack, 1, Depth - 1)
Spent(f) == [f EXCEPT !.todo = @ - 1]

\* The stack once the running frame has spent one statement.
Rest == Append(Below, Spent(Top))

\* The running frame is executing code of the program, not the queue, and the
\* native stack has room for another level (guardStack).
Executing  == /\ mode = "running"
              /\ ~Top.draining
              /\ Top.todo > 0
              /\ Depth < StackBudget
\* Field defaults are expressions: no statement can be reached from one
\* without a call.
Statements == Executing /\ Top.kind # "defaults"

Throw(e) == mode' = "raising" /\ error' = e

\* Mutant of LastStep: the budget is tested before it is decremented.
StepAfterLast == MaxSteps # 0 /\ stepsLeft = 0

SpendStep == stepsLeft' = IF MaxSteps = 0 THEN stepsLeft ELSE stepsLeft - 1
LastStep  == MaxSteps # 0 /\ stepsLeft = 1

-----------------------------------------------------------------------------
(* Runs. *)

Init == /\ mode = "idle"
        /\ error = "none"
        /\ stack = <<>>
        /\ context = TopContext
        /\ callDepth = 0
        /\ moduleDepth = 0
        /\ stepsLeft = MaxSteps
        /\ importedPaths = {}
        /\ taskQueue = <<>>
        /\ nextTask = 1
        /\ finished = {}
        /\ failed = {}
        /\ completed = {}
        /\ outcome = "none"

\* Interpreter::run: a new program starts on the state earlier runs left.
Run == /\ mode = "idle"
       /\ mode' = "running"
       /\ stack' = <<PlainFrame("program")>>
       /\ stepsLeft' = MaxSteps
       /\ nextTask' = 1
       /\ finished' = {}
       /\ failed' = {}
       /\ outcome' = "none"
       /\ UNCHANGED <<error, context, callDepth, imports, taskQueue>>

\* Session::reset: a fresh interpreter replaces the old one.
Reset == /\ mode = "idle"
         /\ importedPaths' = {}
         /\ moduleDepth' = 0
         /\ completed' = {}
         /\ context' = TopContext
         /\ callDepth' = 0
         /\ taskQueue' = <<>>
         /\ UNCHANGED <<mode, error, stack, stepsLeft, nextTask, finished, failed, outcome>>

\* A body's last top-level statement is done: execProgram goes on to the queue.
BeginDrain ==
    /\ mode = "running"
    /\ Top.kind \in {"program", "module"}
    /\ ~Top.draining
    /\ stack' = Append(Below, [Top EXCEPT !.draining = TRUE])
    /\ UNCHANGED <<mode, error, context, callDepth, stepsLeft, imports, tasks, outcome>>

\* The queue is empty and the frame is the program's: the run is over.
EndRun ==
    /\ mode = "running"
    /\ Top.kind = "program"
    /\ Top.draining
    /\ taskQueue = <<>>
    /\ mode' = "idle"
    /\ stack' = <<>>
    /\ outcome' = "ok"
    /\ UNCHANGED <<error, context, callDepth, stepsLeft, imports, tasks>>

-----------------------------------------------------------------------------
(* Calls. *)

\* callUserFunction from the context c onto the frames s: the depth check, the
\* tick, then FrameGuard.  t is the queued call it runs, or 0.
CallUserFunction(d, t, c, s) ==
    \/ /\ callDepth >= MaxCallDepth
       /\ Throw("recoverable")
       /\ stack' = s
       /\ context' = c
       /\ UNCHANGED <<callDepth, stepsLeft>>
    \/ /\ callDepth < MaxCallDepth
       /\ LastStep
       /\ SpendStep
       /\ Throw("fatal")
       /\ stack' = s
       /\ context' = c
       /\ UNCHANGED callDepth
    \/ /\ callDepth < MaxCallDepth
       /\ ~LastStep
       /\ SpendStep
       /\ stack' = Append(s, CallFrame(d, t, c))
       /\ context' = [inFunctionBody |-> TRUE, pure |-> d.pure, owner |-> d.owner]
       /\ callDepth' = callDepth + 1
       /\ UNCHANGED <<mode, error>>

\* checkPureCallAllowed.
PureCallAllowed(d) == context.pure => d.pure

\* A call the program writes: evalCall, invokeAwaited, invokeMethod, evalSuperCall.
Call == /\ Executing
        /\ \E d \in Decl : /\ PureCallAllowed(d)
                           /\ CallUserFunction(d, 0, context, Rest)
        /\ UNCHANGED <<imports, tasks, outcome>>

\* An object is printed by code of the program: display calls the class's
\* to_str, with no purity check.
Display == /\ Executing
           /\ \E d \in {e \in Decl : e.owner # NoOwner} :
                 CallUserFunction(d, 0, context, Rest)
           /\ UNCHANGED <<imports, tasks, outcome>>

\* The call of an async function without `await`: queueTask.
Queue ==
    /\ Executing
    /\ nextTask <= MaxTasks
    /\ \E d \in Decl :
          /\ PureCallAllowed(d)
          /\ \/ /\ Len(taskQueue) >= MaxQueuedTasks
                /\ Throw("recoverable")
                /\ UNCHANGED <<taskQueue, nextTask>>
             \/ /\ Len(taskQueue) < MaxQueuedTasks
                /\ taskQueue' = Append(taskQueue, [id |-> nextTask, decl |-> d])
                /\ nextTask' = nextTask + 1
                /\ UNCHANGED <<mode, error>>
    /\ stack' = Rest
    /\ UNCHANGED <<context, callDepth, stepsLeft, imports, finished, failed, outcome>>

\* Mutants of RunTask: the call is made before its task leaves the queue; the
\* newest task is taken first.
RunTaskThenPop ==
    /\ mode = "running"
    /\ Top.draining
    /\ taskQueue # <<>>
    /\ CallUserFunction(Head(taskQueue).decl, Head(taskQueue).id, context, stack)
    /\ failed' = IF mode' = "raising" THEN failed \cup {Head(taskQueue).id} ELSE failed
    /\ UNCHANGED <<taskQueue, imports, nextTask, finished, outcome>>

RunNewestTask ==
    /\ mode = "running"
    /\ Top.draining
    /\ taskQueue # <<>>
    /\ LET last == taskQueue[Len(taskQueue)]
       IN  /\ CallUserFunction(last.decl, last.id, context, stack)
           /\ failed' = IF mode' = "raising" THEN failed \cup {last.id} ELSE failed
    /\ taskQueue' = SubSeq(taskQueue, 1, Len(taskQueue) - 1)
    /\ UNCHANGED <<imports, nextTask, finished, outcome>>

\* drainTaskQueue: the front task leaves the queue, then it is called.
RunTask ==
    /\ mode = "running"
    /\ Top.draining
    /\ taskQueue # <<>>
    /\ taskQueue' = Tail(taskQueue)
    /\ CallUserFunction(Head(taskQueue).decl, Head(taskQueue).id, context, stack)
    /\ failed' = IF mode' = "raising" THEN failed \cup {Head(taskQueue).id} ELSE failed
    /\ UNCHANGED <<imports, nextTask, finished, outcome>>

\* The body ends or returns: ~FrameGuard.
Return ==
    /\ mode = "running"
    /\ Top.kind = "call"
    /\ stack' = Below
    /\ context' = Top.saved
    /\ callDepth' = callDepth - 1
    /\ finished' = IF Top.task = 0 THEN finished ELSE finished \cup {Top.task}
    /\ UNCHANGED <<mode, error, stepsLeft, imports, taskQueue, nextTask, failed, outcome>>

\* Mutant of LoopPass: a pass costs no step.
FreeLoopPass ==
    /\ mode = "running"
    /\ ~Top.draining
    /\ Top.kind # "defaults"
    /\ stack' = Append(Below, [Top EXCEPT !.todo = MaxBody])
    /\ UNCHANGED <<mode, error, stepsLeft, context, callDepth, imports, tasks, outcome>>

\* One more pass of a loop of the running body (execLoop, execLoopEach).
LoopPass ==
    /\ mode = "running"
    /\ ~Top.draining
    /\ Top.kind # "defaults"
    /\ SpendStep
    /\ \/ /\ LastStep
          /\ Throw("fatal")
          /\ UNCHANGED stack
       \/ /\ ~LastStep
          /\ stack' = Append(Below, [Top EXCEPT !.todo = MaxBody])
          /\ UNCHANGED <<mode, error>>
    /\ UNCHANGED <<context, callDepth, imports, tasks, outcome>>

-----------------------------------------------------------------------------
(* Objects. *)

\* instantiate: the tick, then the field defaults under DefaultValueScope.
Instantiate ==
    /\ Executing
    /\ SpendStep
    /\ \/ /\ LastStep
          /\ Throw("fatal")
          /\ stack' = Rest
          /\ UNCHANGED context
       \/ /\ ~LastStep
          /\ stack' = Append(Rest, DefaultsFrame(context))
          /\ context' = [context EXCEPT !.inFunctionBody = FALSE, !.owner = NoOwner]
          /\ UNCHANGED <<mode, error>>
    /\ UNCHANGED <<callDepth, imports, tasks, outcome>>

\* Mutant of Restored: the owner is not put back.
RestoredWithoutOwner(f) == [context EXCEPT !.inFunctionBody = f.saved.inFunctionBody]

\* ~DefaultValueScope: purity was never changed, so it is not put back either.
Restored(f) == [f.saved EXCEPT !.pure = context.pure]

\* The defaults are done: the object is ready, or the class has an init that
\* the creating code may call.
LeaveDefaults ==
    /\ mode = "running"
    /\ Top.kind = "defaults"
    /\ \/ /\ stack' = Below
          /\ context' = Restored(Top)
          /\ UNCHANGED <<mode, error, callDepth, stepsLeft>>
       \/ \E d \in {e \in Decl : e.owner # NoOwner} :
             \/ /\ ~PureCallAllowed(d)
                /\ Throw("recoverable")
                /\ stack' = Below
                /\ context' = Restored(Top)
                /\ UNCHANGED <<callDepth, stepsLeft>>
             \/ /\ PureCallAllowed(d)
                /\ CallUserFunction(d, 0, Restored(Top), Below)
    /\ UNCHANGED <<imports, tasks, outcome>>

-----------------------------------------------------------------------------
(* Modules. *)

\* loadCustomModule up to the module's first statement.  A missing, unreadable
\* or malformed file is the recoverable outcome of Raise.
Use(m) ==
    /\ Statements
    /\ \/ /\ m \in importedPaths
          /\ stack' = Rest
          /\ UNCHANGED <<mode, error, importedPaths, moduleDepth>>
       \/ /\ m \notin importedPaths
          /\ moduleDepth >= MaxImportDepth
          /\ Throw("recoverable")
          /\ stack' = Rest
          /\ UNCHANGED <<importedPaths, moduleDepth>>
       \/ /\ m \notin importedPaths
          /\ moduleDepth < MaxImportDepth
          /\ importedPaths' = importedPaths \cup {m}
          /\ moduleDepth' = moduleDepth + 1
          /\ stack' = Append(Rest, ModuleFrame(m))
          /\ UNCHANGED <<mode, error>>
    /\ UNCHANGED <<context, callDepth, stepsLeft, completed, tasks, outcome>>

\* The module's execProgram returned: its names are copied, the mark is kept.
LeaveModule ==
    /\ mode = "running"
    /\ Top.kind = "module"
    /\ Top.draining
    /\ taskQueue = <<>>
    /\ moduleDepth' = moduleDepth - 1
    /\ completed' = completed \cup {Top.path}
    /\ stack' = Below
    /\ UNCHANGED <<mode, error, context, callDepth, stepsLeft, importedPaths, tasks, outcome>>

-----------------------------------------------------------------------------
(* Errors. *)

\* execOrElse starts its primary statement.
EnterGuard == /\ Statements
              /\ stack' = Append(Rest, PlainFrame("try"))
              /\ UNCHANGED <<mode, error, context, callDepth, stepsLeft, imports, tasks, outcome>>

\* The primary statement or the fallback ends without an error.
LeaveGuard == /\ mode = "running"
              /\ Top.kind \in {"try", "handler"}
              /\ stack' = Below
              /\ UNCHANGED <<mode, error, context, callDepth, stepsLeft, imports, tasks, outcome>>

\* A statement or an expression fails.  Fatal stands for what no or_else
\* catches: limits of the host, internal errors, std::bad_alloc.
Raise == /\ mode = "running"
         /\ ~Top.draining
         /\ \E e \in {"recoverable", "fatal"} : Throw(e)
         /\ UNCHANGED <<stack, context, callDepth, stepsLeft, imports, tasks, outcome>>

\* Mutant of Catch: or_else stops any error.
CatchAll == /\ mode = "raising"
            /\ Top.kind = "try"
            /\ mode' = "running"
            /\ error' = "none"
            /\ stack' = Append(Below, PlainFrame("handler"))
            /\ UNCHANGED <<context, callDepth, stepsLeft, imports, tasks, outcome>>

\* The catch of execOrElse: only a recoverable error stops here.
Catch == /\ mode = "raising"
         /\ Top.kind = "try"
         /\ error = "recoverable"
         /\ mode' = "running"
         /\ error' = "none"
         /\ stack' = Append(Below, PlainFrame("handler"))
         /\ UNCHANGED <<context, callDepth, stepsLeft, imports, tasks, outcome>>

PassGuard == /\ mode = "raising"
             /\ \/ Top.kind = "handler"
                \/ Top.kind = "try" /\ error = "fatal"
             /\ stack' = Below
             /\ UNCHANGED <<mode, error, context, callDepth, stepsLeft, imports, tasks, outcome>>

\* Mutant of UnwindCall: only Return gives the level back.
UnwindCallKeepingDepth ==
    /\ mode = "raising"
    /\ Top.kind = "call"
    /\ stack' = Below
    /\ context' = Top.saved
    /\ failed' = IF Top.task = 0 THEN failed ELSE failed \cup {Top.task}
    /\ UNCHANGED <<mode, error, callDepth, stepsLeft, imports, taskQueue, nextTask, finished, outcome>>

UnwindCall ==
    /\ mode = "raising"
    /\ Top.kind = "call"
    /\ stack' = Below
    /\ context' = Top.saved
    /\ callDepth' = callDepth - 1
    /\ failed' = IF Top.task = 0 THEN failed ELSE failed \cup {Top.task}
    /\ UNCHANGED <<mode, error, stepsLeft, imports, taskQueue, nextTask, finished, outcome>>

UnwindDefaults ==
    /\ mode = "raising"
    /\ Top.kind = "defaults"
    /\ stack' = Below
    /\ context' = Restored(Top)
    /\ UNCHANGED <<mode, error, callDepth, stepsLeft, imports, tasks, outcome>>

\* Mutant of UnwindModule: a failed load keeps its mark.
UnwindModuleKeepingMark ==
    /\ mode = "raising"
    /\ Top.kind = "module"
    /\ stack' = Below
    /\ moduleDepth' = moduleDepth - 1
    /\ UNCHANGED <<mode, error, context, callDepth, stepsLeft, importedPaths, completed, tasks, outcome>>

\* ~ImportDepthGuard, and ~ImportMark of a load that was not committed.
UnwindModule ==
    /\ mode = "raising"
    /\ Top.kind = "module"
    /\ stack' = Below
    /\ moduleDepth' = moduleDepth - 1
    /\ importedPaths' = importedPaths \ {Top.path}
    /\ UNCHANGED <<mode, error, context, callDepth, stepsLeft, completed, tasks, outcome>>

\* Mutant of AbortRun: the tasks of the failed run stay queued.
AbortRunKeepingQueue ==
    /\ mode = "raising"
    /\ Top.kind = "program"
    /\ mode' = "idle"
    /\ error' = "none"
    /\ stack' = <<>>
    /\ outcome' = error
    /\ UNCHANGED <<context, callDepth, stepsLeft, imports, taskQueue, nextTask, finished, failed>>

\* The catch (...) of run: the queue is thrown away, the error is reported.
AbortRun ==
    /\ mode = "raising"
    /\ Top.kind = "program"
    /\ mode' = "idle"
    /\ error' = "none"
    /\ stack' = <<>>
    /\ taskQueue' = <<>>
    /\ outcome' = error
    /\ UNCHANGED <<context, callDepth, stepsLeft, imports, nextTask, finished, failed>>

-----------------------------------------------------------------------------
Step == \/ BeginDrain \/ EndRun
        \/ Call \/ Display \/ Queue \/ RunTask \/ Return \/ LoopPass
        \/ Instantiate \/ LeaveDefaults
        \/ (\E m \in Modules : Use(m)) \/ LeaveModule
        \/ EnterGuard \/ LeaveGuard \/ Raise
        \/ Catch \/ PassGuard \/ UnwindCall \/ UnwindDefaults \/ UnwindModule
        \/ AbortRun

Next == Run \/ Reset \/ Step

Spec == Init /\ [][Next]_vars

\* The thread that called run keeps executing until run returns.  Nothing
\* makes a session start another run.
FairSpec == Spec /\ WF_vars(Step)
-----------------------------------------------------------------------------
(* What the frames say the state should be. *)

Frames(K) == {i \in 1..Depth : stack[i].kind \in K}

\* Frame i is the innermost of the first n frames of s whose kind is in K.
Innermost(s, n, i, K) ==
    /\ i \in 1..n
    /\ s[i].kind \in K
    /\ \A j \in 1..n : s[j].kind \in K => j <= i

\* The context c is what the first n frames of s say it is: code is in a
\* function exactly when a call is inside every scope of defaults, purity is
\* that of the innermost call, and the owner is the class of the function.
Agrees(s, n, c) ==
    /\ c.inFunctionBody <=> \E i \in 1..n : /\ Innermost(s, n, i, {"call", "defaults"})
                                           /\ s[i].kind = "call"
    /\ c.pure <=> \E i \in 1..n : Innermost(s, n, i, {"call"}) /\ s[i].decl.pure
    /\ ~c.inFunctionBody => c.owner = NoOwner
    /\ \A i \in 1..n :
           Innermost(s, n, i, {"call", "defaults"}) /\ s[i].kind = "call"
           => c.owner = s[i].decl.owner

Loading == {stack[i].path : i \in Frames({"module"})}

RunningTasks == {stack[i].task : i \in Frames({"call"})} \ {0}

Queued == {taskQueue[i].id : i \in 1..Len(taskQueue)}

-----------------------------------------------------------------------------
(* Properties. *)

\* Every variable stays in its range; outside a run there is no frame, and in
\* one the frames stand on the program's.
TypeOK ==
    /\ mode \in {"idle", "running", "raising"}
    /\ error \in {"none", "recoverable", "fatal"}
    /\ stack \in Seq(Frame)
    /\ context \in Context
    /\ callDepth \in 0..MaxCallDepth
    /\ moduleDepth \in 0..MaxImportDepth
    /\ stepsLeft \in 0..MaxSteps
    /\ importedPaths \subseteq Modules
    /\ taskQueue \in Seq(QueuedTask)
    /\ Len(taskQueue) <= MaxQueuedTasks
    /\ nextTask \in 1..(MaxTasks + 1)
    /\ finished \subseteq TaskId
    /\ failed \subseteq TaskId
    /\ completed \subseteq Modules
    /\ outcome \in {"none", "ok", "recoverable", "fatal"}

\* A run leaves nothing behind, however it ended: no frame, no depth, no
\* purity, no owner and no queued call reaches the next entry of a session,
\* and a module is marked as imported exactly when its load was committed.
QuiescentWhenIdle ==
    mode = "idle" =>
        /\ stack = <<>>
        /\ error = "none"
        /\ context = TopContext
        /\ callDepth = 0 /\ moduleDepth = 0
        /\ taskQueue = <<>>
        /\ importedPaths = completed

\* The flags FrameGuard and DefaultValueScope save and restore always agree
\* with the calls that are really open, whatever was thrown through them: no
\* error leaves code running with the purity, the owner or the "in a function"
\* of a call that is over.
ContextMatchesStack == Agrees(stack, Depth, context)

\* callDepth_ and moduleDepth_ count the open calls and the open loads, so no
\* error can leak a level and turn later legal calls into E4-017 or E5-007.
DepthsMatchStack ==
    /\ callDepth = Cardinality(Frames({"call"}))
    /\ moduleDepth = Cardinality(Frames({"module"}))

\* A path is marked exactly while its module loads and once it has loaded; a
\* module that is loading or loaded is never loaded again, and a failed load
\* can be retried.
MarksMatchStack ==
    /\ importedPaths = completed \cup Loading
    /\ completed \cap Loading = {}
    /\ \A i, j \in Frames({"module"}) : stack[i].path = stack[j].path => i = j

\* Every call queued in this run is at one place: waiting in the order it was
\* queued, running once, finished, or failed; a run that ends well has left
\* none waiting.  No more than the limit ever wait, though a call that runs
\* may queue others before the ones behind it have left.
TasksAccountedFor ==
    /\ Len(taskQueue) <= MaxQueuedTasks
    /\ \A i \in 1..Len(taskQueue) :
           taskQueue[i].id = nextTask - Len(taskQueue) - 1 + i
    /\ RunningTasks \cap (finished \cup failed) = {}
    /\ finished \cap failed = {}
    /\ \A i, j \in Frames({"call"}) :
           stack[i].task = stack[j].task => i = j \/ stack[i].task = 0
    /\ mode # "idle" \/ outcome = "ok" =>
           RunningTasks \cup finished \cup failed = 1..(nextTask - 1 - Len(taskQueue))

\* Once the step budget is spent, nothing of the program runs again in that
\* run: the error is fatal and no or_else stops it, so stepsLeft_ is never
\* decremented below zero (where it would wrap to 2^64 - 1 steps).
BudgetIsFinal ==
    MaxSteps # 0 /\ stepsLeft = 0 => mode = "idle" \/ (mode = "raising" /\ error = "fatal")

\* The step budget bounds a run: whatever the program loops or recurses on,
\* run returns (docs/internals/resource-limits.md).
RunEnds == mode # "idle" ~> mode = "idle"

-----------------------------------------------------------------------------
(* The queue this machine keeps is the one AsyncTasks promises. *)

FateOf(t) == CASE t >= nextTask       -> "unborn"
               [] t \in finished      -> "finished"
               [] t \in failed        -> "failed"
               [] t \in RunningTasks  -> "running"
               [] t \in Queued        -> "queued"
               [] OTHER               -> "dropped"

Promise == INSTANCE AsyncTasks WITH open <- mode # "idle",
                                    fate <- [t \in TaskId |-> FateOf(t)]

\* Nested drains, unwinding and aborted runs never start a queued call twice
\* or out of order, never lose one in a run that ends well, and never carry one
\* into the next run.
KeepsAsyncPromise == Promise!Spec

-----------------------------------------------------------------------------
(* What the documentation says and this code does not do. *)

\* docs/reference/language.md:678: calling a user function that is not pure from
\* a pure one raises E4-029: in two calls with no call between them, the inner
\* one is pure if the outer one is.
PureCallsOnlyPure ==
    \A i, j \in Frames({"call"}) :
        /\ i < j
        /\ \A k \in Frames({"call"}) : k <= i \/ k >= j
        /\ stack[i].decl.pure
        => stack[j].decl.pure
=============================================================================
