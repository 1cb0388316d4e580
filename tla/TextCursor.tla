----------------------------- MODULE TextCursor -----------------------------
(***************************************************************************)
(* Text with a cursor in it, as whoever types sees it: the characters      *)
(* before the cursor and those after it (docs/reference/cuffsh.md).        *)
(***************************************************************************)
EXTENDS Naturals, Sequences

CONSTANTS Characters, TabWidth

VARIABLES before, after

Init == before = <<>> /\ after = <<>>

\* What is typed goes in before the cursor.
Type == /\ \/ \E c \in Characters : before' = Append(before, c)
           \/ before' = before \o [i \in 1..TabWidth |-> " "]
        /\ UNCHANGED after

\* Some characters next to the cursor go.
DeleteBefore == \E n \in 0..Len(before) : before' = SubSeq(before, 1, n) /\ UNCHANGED after
DeleteAfter  == \E n \in 1..Len(after) : after' = SubSeq(after, n, Len(after)) /\ UNCHANGED before
DeleteRest   == after' = <<>> /\ UNCHANGED before

Move == before' \o after' = before \o after

Next == Type \/ DeleteBefore \/ DeleteAfter \/ DeleteRest \/ Move

Spec == Init /\ [][Next]_<<before, after>>
=============================================================================
