----------------------------- MODULE AsyncTasks -----------------------------
(***************************************************************************)
(* What the async queue promises a program, with no stack and no modules:  *)
(* calls are numbered as they are queued; each starts at most once and in  *)
(* that order; one that started either finishes or fails; a run that ends  *)
(* well has started all of them and waits for none; a run that ends with   *)
(* an error drops the ones that had not started, and none of them reaches  *)
(* a later run.                                                            *)
(***************************************************************************)
EXTENDS Naturals

CONSTANT MaxTasks

VARIABLES
    open,   \* a run is in progress
    fate    \* what became of each call, by its number

Fates == {"unborn", "queued", "running", "finished", "failed", "dropped"}

Task == 1..MaxTasks

Is(S) == {t \in Task : fate[t] \in S}

Oldest(t, S) == t \in Is(S) /\ \A u \in Is(S) : t <= u

Becomes(t, f) == fate' = [fate EXCEPT ![t] = f]

Init == open = FALSE /\ fate = [t \in Task |-> "unborn"]

Begin == /\ ~open
         /\ open' = TRUE
         /\ fate' = [t \in Task |-> "unborn"]

Queue(t) == open /\ Oldest(t, {"unborn"}) /\ Becomes(t, "queued") /\ UNCHANGED open

Start(t) == open /\ Oldest(t, {"queued"}) /\ Becomes(t, "running") /\ UNCHANGED open

\* The call cannot be made at all: its depth or its step is over the limit.
Refuse(t) == open /\ Oldest(t, {"queued"}) /\ Becomes(t, "failed") /\ UNCHANGED open

Finish(t) == open /\ t \in Is({"running"}) /\ Becomes(t, "finished") /\ UNCHANGED open

Fail(t) == open /\ t \in Is({"running"}) /\ Becomes(t, "failed") /\ UNCHANGED open

End == /\ open
       /\ Is({"queued", "running"}) = {}
       /\ open' = FALSE
       /\ UNCHANGED fate

Abort == /\ open
         /\ Is({"running"}) = {}
         /\ open' = FALSE
         /\ fate' = [t \in Task |-> IF fate[t] = "queued" THEN "dropped" ELSE fate[t]]

Next == \/ Begin \/ End \/ Abort
        \/ \E t \in Task : Queue(t) \/ Start(t) \/ Refuse(t) \/ Finish(t) \/ Fail(t)

Spec == Init /\ [][Next]_<<open, fate>>
=============================================================================
