------------------------------ MODULE ValueMap ------------------------------
(***************************************************************************)
(* The representation of a map value (ValueMap in interpreter/Value.h):    *)
(* the keys in insertion order, their values beside them, and an index     *)
(* from a key to its position, counted from zero, that removal has to      *)
(* repair in one of two ways.                                              *)
(***************************************************************************)
EXTENDS Naturals, Sequences, FiniteSets, SequencesExt

CONSTANTS
    Keys,       \* the strings used as keys
    Contents,   \* the values stored
    WalkFactor  \* 8 in the code: when walking the index beats looking up the moved keys

ASSUME WalkAssumption == WalkFactor \in Nat

VARIABLES
    order,  \* order_
    values, \* values_
    index   \* index_

mapVars == <<order, values, index>>

Has(k) == k \in DOMAIN index

\* get and getMutable of a key the map has.
Get(k) == values[index[k] + 1]

\* index_.erase.
Forget(k) == [x \in DOMAIN index \ {k} |-> index[x]]

-----------------------------------------------------------------------------
MapInit == order = <<>> /\ values = <<>> /\ index = <<>>

\* set and getMutable of a key the map has.
Overwrite(k, v) ==
    /\ Has(k)
    /\ values' = [values EXCEPT ![index[k] + 1] = v]
    /\ UNCHANGED <<order, index>>

Insert(k, v) ==
    /\ ~Has(k)
    /\ index' = [x \in DOMAIN index \cup {k} |-> IF x = k THEN Len(values) ELSE index[x]]
    /\ order' = Append(order, k)
    /\ values' = Append(values, v)

Set(k, v) == Overwrite(k, v) \/ Insert(k, v)

\* Every key of the sequence o from position p on is given its position.
Rewritten(ix, o, p) ==
    [x \in DOMAIN ix \cup {o[i + 1] : i \in p..(Len(o) - 1)} |->
        IF \E i \in p..(Len(o) - 1) : o[i + 1] = x
        THEN CHOOSE i \in p..(Len(o) - 1) : o[i + 1] = x
        ELSE ix[x]]

\* Mutant of Walked: the comparison takes in the removed position.
WalkedFrom(ix, p) == [x \in DOMAIN ix |-> IF ix[x] > p + 1 THEN ix[x] - 1 ELSE ix[x]]

\* Every position behind p moves down by one.
Walked(ix, p) == [x \in DOMAIN ix |-> IF ix[x] > p THEN ix[x] - 1 ELSE ix[x]]

\* Mutant of RemoveKey: the index is not repaired when few keys moved.
RemoveLeavingTail(k) ==
    /\ Has(k)
    /\ LET idx  == index[k]
           rest == RemoveAt(order, idx + 1)
       IN  /\ order' = rest
           /\ values' = RemoveAt(values, idx + 1)
           /\ index' = IF (Len(rest) - idx) * WalkFactor < Cardinality(DOMAIN Forget(k))
                       THEN Forget(k)
                       ELSE Walked(Forget(k), idx)

RemoveKey(k) ==
    /\ Has(k)
    /\ LET idx  == index[k]
           rest == RemoveAt(order, idx + 1)
       IN  /\ order' = rest
           /\ values' = RemoveAt(values, idx + 1)
           /\ index' = IF (Len(rest) - idx) * WalkFactor < Cardinality(DOMAIN Forget(k))
                       THEN Rewritten(Forget(k), rest, idx)
                       ELSE Walked(Forget(k), idx)

MapNext == \/ \E k \in Keys, v \in Contents : Set(k, v)
           \/ \E k \in Keys : RemoveKey(k)

MapSpec == MapInit /\ [][MapNext]_mapVars
-----------------------------------------------------------------------------
\* The three containers stay in step and the index is exactly the inverse of
\* the order: a stale position would make a later get, set or remove of one key
\* read, change or delete the value of another.
IndexIsInverse ==
    /\ order \in Seq(Keys)
    /\ values \in Seq(Contents)
    /\ Len(order) = Len(values)
    /\ DOMAIN index = {order[i] : i \in 1..Len(order)}
    /\ \A i \in 1..Len(order) : index[order[i]] = i - 1

Abstract == INSTANCE OrderedMap
                WITH Values <- Contents,
                     entries <- [i \in 1..Len(order) |-> <<order[i], values[i]>>]

\* A map never reorders, loses or duplicates a key, whichever way removal
\* repairs the index.
IsOrderedMap == Abstract!Spec
=============================================================================
