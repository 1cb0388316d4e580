----------------------------- MODULE OrderedMap -----------------------------
(***************************************************************************)
(* What a map value promises a program (docs/reference/language.md,        *)
(* section 2): string keys to values, kept in the order in which the keys  *)
(* were added.  Giving a key it holds a new value does not move the key.   *)
(***************************************************************************)
EXTENDS Naturals, Sequences

CONSTANTS Keys, Values

VARIABLE entries  \* the key-value pairs, oldest key first

Entry == Keys \X Values

Holds(k) == \E i \in 1..Len(entries) : entries[i][1] = k

Init == entries = <<>>

Add(k, v) == ~Holds(k) /\ entries' = Append(entries, <<k, v>>)

Change(k, v) == \E i \in 1..Len(entries) : /\ entries[i][1] = k
                                           /\ entries' = [entries EXCEPT ![i] = <<k, v>>]

Delete(k) == \E i \in 1..Len(entries) :
                /\ entries[i][1] = k
                /\ entries' = SubSeq(entries, 1, i - 1) \o SubSeq(entries, i + 1, Len(entries))

Next == \/ \E k \in Keys, v \in Values : Add(k, v) \/ Change(k, v)
        \/ \E k \in Keys : Delete(k)

Spec == Init /\ [][Next]_entries
=============================================================================
