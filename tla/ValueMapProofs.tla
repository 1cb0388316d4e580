--------------------------- MODULE ValueMapProofs ---------------------------
(***************************************************************************)
(* The index of a map is right after every sequence of operations, and the *)
(* map is the ordered map it promises to be, for any keys, values and walk *)
(* factor.                                                                 *)
(*                                                                         *)
(* The index being the inverse of the order is inductive as it stands.     *)
(* With it each operation is one step of OrderedMap on the pairs of keys   *)
(* and values: the position the index names is the one that changes.       *)
(***************************************************************************)
EXTENDS ValueMap, SequenceTheorems, TLAPS

(* Removing position i closes the gap and moves nothing else.              *)
LEMMA RemoveAtShape ==
    ASSUME NEW S, NEW s \in Seq(S), NEW n \in Nat, Len(s) = n, NEW i \in 1..n
    PROVE  /\ RemoveAt(s, i) \in Seq(S)
           /\ Len(RemoveAt(s, i)) = n - 1
           /\ \A j \in 1..(n - 1) :
                 RemoveAt(s, i)[j] = IF j < i THEN s[j] ELSE s[j + 1]
<1> DEFINE a == SubSeq(s, 1, i - 1)
           b == SubSeq(s, i + 1, n)
<1>1. a \in Seq(S) /\ Len(a) = i - 1 /\ \A j \in 1..(i - 1) : a[j] = s[j]
  OBVIOUS
<1>2. b \in Seq(S) /\ Len(b) = n - i /\ \A j \in 1..(n - i) : b[j] = s[j + i]
  OBVIOUS
<1>3. RemoveAt(s, i) = a \o b
  BY DEF RemoveAt
<1> HIDE DEF a, b
<1>4. a \o b \in Seq(S) /\ Len(a \o b) = n - 1
  <2>1. a \o b \in Seq(S) /\ Len(a \o b) = Len(a) + Len(b)
    BY <1>1, <1>2, ConcatProperties
  <2> QED
    BY <1>1, <1>2, <2>1
<1>5. ASSUME NEW j \in 1..(n - 1)
      PROVE  (a \o b)[j] = IF j < i THEN s[j] ELSE s[j + 1]
  <2>1. CASE j < i
    BY <1>1, <1>2, <2>1
  <2>2. CASE ~(j < i)
    <3>1. (a \o b)[j] = b[j - (i - 1)]
      BY <1>1, <1>2, <2>2
    <3>2. j - (i - 1) \in 1..(n - i)
      BY <2>2
    <3>3. b[j - (i - 1)] = s[(j - (i - 1)) + i]
      BY <1>2, <3>2
    <3> QED
      BY <2>2, <3>1, <3>3
  <2> QED
    BY <2>1, <2>2
<1> QED
  BY <1>3, <1>4, <1>5

-----------------------------------------------------------------------------
(* The initial map is empty, and so is its index.                          *)
LEMMA InitIndex == MapInit => IndexIsInverse
  BY DEF MapInit, IndexIsInverse

(* Giving a key the map has a new value leaves keys and positions alone.    *)
LEMMA OverwriteIndex ==
    ASSUME IndexIsInverse, NEW k \in Keys, NEW v \in Contents, Overwrite(k, v)
    PROVE  IndexIsInverse'
<1> PICK n \in Nat : Len(order) = n /\ Len(values) = n
  BY DEF IndexIsInverse
<1>1. PICK i \in 1..n : order[i] = k /\ index[k] + 1 = i
  BY DEF IndexIsInverse, Overwrite, Has
<1>2. values' = [values EXCEPT ![i] = v]
  BY <1>1 DEF Overwrite
<1>3. values' \in Seq(Contents) /\ Len(values') = n
  BY <1>2 DEF IndexIsInverse
<1> QED
  BY <1>3 DEF IndexIsInverse, Overwrite

(* A new key takes the first free position.                                *)
LEMMA InsertIndex ==
    ASSUME IndexIsInverse, NEW k \in Keys, NEW v \in Contents, Insert(k, v)
    PROVE  IndexIsInverse'
<1> PICK n \in Nat : Len(order) = n /\ Len(values) = n
  BY DEF IndexIsInverse
<1>1. /\ order' \in Seq(Keys) /\ values' \in Seq(Contents)
      /\ Len(order') = n + 1 /\ Len(values') = n + 1
      /\ order'[n + 1] = k
      /\ \A i \in 1..n : order'[i] = order[i]
  BY DEF IndexIsInverse, Insert
<1>2. /\ DOMAIN index' = DOMAIN index \cup {k}
      /\ index'[k] = n
      /\ \A x \in DOMAIN index : index'[x] = index[x]
  BY DEF Insert, Has
<1>3. DOMAIN index' = {order'[i] : i \in 1..(n + 1)}
  <2>1. DOMAIN index = {order[i] : i \in 1..n}
    BY DEF IndexIsInverse
  <2> QED
    BY <1>1, <1>2, <2>1
<1>4. ASSUME NEW i \in 1..(n + 1)
      PROVE  index'[order'[i]] = i - 1
  <2>1. CASE i = n + 1
    BY <1>1, <1>2, <2>1
  <2>2. CASE i \in 1..n
    <3>1. order[i] \in DOMAIN index /\ index[order[i]] = i - 1
      BY <2>2 DEF IndexIsInverse
    <3> QED
      BY <1>1, <1>2, <2>2, <3>1
  <2> QED
    BY <2>1, <2>2
<1> QED
  BY <1>1, <1>3, <1>4 DEF IndexIsInverse

(* Removing a key leaves the index right, whichever way it is repaired.    *)
LEMMA RemoveIndex ==
    ASSUME IndexIsInverse, NEW k \in Keys, RemoveKey(k)
    PROVE  IndexIsInverse'
<1>1. PICK n \in Nat : Len(order) = n /\ Len(values) = n
  BY DEF IndexIsInverse
<1>2. /\ DOMAIN index = {order[i] : i \in 1..n}
      /\ \A i \in 1..n : index[order[i]] = i - 1
  BY <1>1 DEF IndexIsInverse
<1>3. PICK p \in 1..n : order[p] = k /\ index[k] = p - 1
  BY <1>2 DEF RemoveKey, Has
<1> DEFINE rest == RemoveAt(order, p)
<1>4. /\ rest \in Seq(Keys) /\ Len(rest) = n - 1
      /\ \A j \in 1..(n - 1) : rest[j] = IF j < p THEN order[j] ELSE order[j + 1]
  <2>1. order \in Seq(Keys)
    BY DEF IndexIsInverse
  <2>2. Len(order) = n
    BY <1>1
  <2>3. rest \in Seq(Keys)
    BY ONLY <2>1, <2>2, RemoveAtShape
  <2>4. Len(rest) = n - 1
    BY ONLY <2>1, <2>2, RemoveAtShape
  <2>5. \A j \in 1..(n - 1) : rest[j] = IF j < p THEN order[j] ELSE order[j + 1]
    BY ONLY <2>1, <2>2, RemoveAtShape
  <2> QED
    BY <2>3, <2>4, <2>5
<1>5. RemoveAt(values, p) \in Seq(Contents) /\ Len(RemoveAt(values, p)) = n - 1
  <2>1. values \in Seq(Contents) /\ Len(values) = n
    BY <1>1 DEF IndexIsInverse
  <2>2. RemoveAt(values, p) \in Seq(Contents)
    BY ONLY <2>1, RemoveAtShape
  <2>3. Len(RemoveAt(values, p)) = n - 1
    BY ONLY <2>1, RemoveAtShape
  <2> QED
    BY <2>2, <2>3
<1>6. /\ order' = rest
      /\ values' = RemoveAt(values, p)
      /\ \/ index' = Rewritten(Forget(k), rest, p - 1)
         \/ index' = Walked(Forget(k), p - 1)
  <2>1. (p - 1) + 1 = p
    OBVIOUS
  <2> QED
    BY <1>3, <2>1 DEF RemoveKey
<1> HIDE DEF rest
<1>7. DOMAIN Forget(k) = {rest[j] : j \in 1..(n - 1)}
  <2>1. DOMAIN Forget(k) = {order[i] : i \in 1..n} \ {order[p]}
    BY <1>2, <1>3 DEF Forget
  <2>2. ASSUME NEW j \in 1..(n - 1)
        PROVE  rest[j] \in {order[i] : i \in 1..n} \ {order[p]}
    <3>1. CASE j < p
      <4>1. j \in 1..n /\ j # p /\ rest[j] = order[j]
        BY <1>4, <3>1
      <4> QED
        BY <1>2, <4>1
    <3>2. CASE ~(j < p)
      <4>1. j + 1 \in 1..n /\ j + 1 # p /\ rest[j] = order[j + 1]
        BY <1>4, <3>2
      <4> QED
        BY <1>2, <4>1
    <3> QED
      BY <3>1, <3>2
  <2>3. ASSUME NEW i \in 1..n, order[i] # order[p]
        PROVE  \E j \in 1..(n - 1) : rest[j] = order[i]
    <3>1. CASE i < p
      BY <1>4, <3>1
    <3>2. CASE ~(i < p)
      <4>1. i # p
        BY <2>3
      <4>2. i - 1 \in 1..(n - 1) /\ ~(i - 1 < p) /\ (i - 1) + 1 = i
        BY <3>2, <4>1
      <4> QED
        BY <1>4, <4>2
    <3> QED
      BY <3>1, <3>2
  <2> QED
    BY <2>1, <2>2, <2>3
<1>8. \A j \in 1..(n - 1) :
        Forget(k)[rest[j]] = IF j < p THEN j - 1 ELSE j
  <2> SUFFICES ASSUME NEW j \in 1..(n - 1)
               PROVE  Forget(k)[rest[j]] = IF j < p THEN j - 1 ELSE j
    OBVIOUS
  <2>1. rest[j] \in DOMAIN index \ {k}
    BY <1>7 DEF Forget
  <2>2. Forget(k)[rest[j]] = index[rest[j]]
    BY <2>1 DEF Forget
  <2>3. CASE j < p
    <3>1. j \in 1..n /\ rest[j] = order[j]
      BY <1>4, <2>3
    <3> QED
      BY <1>2, <2>2, <2>3, <3>1
  <2>4. CASE ~(j < p)
    <3>1. j + 1 \in 1..n /\ rest[j] = order[j + 1] /\ (j + 1) - 1 = j
      BY <1>4, <2>4
    <3> QED
      BY <1>2, <2>2, <2>4, <3>1
  <2> QED
    BY <2>3, <2>4
<1>9. \A i, j \in 1..(n - 1) : rest[i] = rest[j] => i = j
  BY <1>8
<1>10. /\ DOMAIN index' = {rest[j] : j \in 1..(n - 1)}
       /\ \A j \in 1..(n - 1) : index'[rest[j]] = j - 1
  <2>1. CASE index' = Walked(Forget(k), p - 1)
    <3>1. DOMAIN index' = {rest[j] : j \in 1..(n - 1)}
      BY <1>7, <2>1 DEF Walked
    <3>2. ASSUME NEW j \in 1..(n - 1)
          PROVE  index'[rest[j]] = j - 1
      <4>1. index'[rest[j]] = IF Forget(k)[rest[j]] > p - 1 THEN Forget(k)[rest[j]] - 1
                              ELSE Forget(k)[rest[j]]
        BY <1>7, <2>1 DEF Walked
      <4> QED
        BY <1>8, <4>1
    <3> QED
      BY <3>1, <3>2
  <2>2. CASE index' = Rewritten(Forget(k), rest, p - 1)
    <3>1. \A i : i \in (p - 1)..(Len(rest) - 1) <=> i + 1 \in p..(n - 1) /\ i \in Nat
      BY <1>4
    <3>2. DOMAIN index' = {rest[j] : j \in 1..(n - 1)}
      <4>1. \A i \in (p - 1)..(Len(rest) - 1) : i + 1 \in 1..(n - 1)
        BY <1>4
      <4> QED
        BY <1>7, <2>2, <4>1 DEF Rewritten
    <3>3. ASSUME NEW j \in 1..(n - 1)
          PROVE  index'[rest[j]] = j - 1
      <4> DEFINE Moved == (p - 1)..(Len(rest) - 1)
      <4>1. index'[rest[j]] = IF \E i \in Moved : rest[i + 1] = rest[j]
                              THEN CHOOSE i \in Moved : rest[i + 1] = rest[j]
                              ELSE Forget(k)[rest[j]]
        BY <1>7, <2>2 DEF Rewritten
      <4>2. \A i \in Moved : i + 1 \in 1..(n - 1) /\ i + 1 >= p /\ i \in Nat
        BY <1>4
      <4>3. CASE j < p
        <5>1. ~ \E i \in Moved : rest[i + 1] = rest[j]
          BY <1>9, <4>2, <4>3
        <5> QED
          BY <1>8, <4>1, <4>3, <5>1
      <4>4. CASE ~(j < p)
        <5>1. j - 1 \in Moved /\ rest[(j - 1) + 1] = rest[j]
          BY <1>4, <4>4
        <5>2. \A i \in Moved : rest[i + 1] = rest[j] => i = j - 1
          BY <1>9, <4>2
        <5> HIDE DEF Moved
        <5> QED
          BY <4>1, <5>1, <5>2
      <4> QED
        BY <4>3, <4>4
    <3> QED
      BY <3>2, <3>3
  <2> QED
    BY <1>6, <2>1, <2>2
<1> QED
  BY <1>4, <1>5, <1>6, <1>10 DEF IndexIsInverse

-----------------------------------------------------------------------------
(* After every sequence of operations the containers of a map are in step   *)
(* and the index is the inverse of the order, for every walk factor.        *)
THEOREM IndexCorrect == MapSpec => []IndexIsInverse
<1>1. MapInit => IndexIsInverse
  BY InitIndex
<1>2. IndexIsInverse /\ [MapNext]_mapVars => IndexIsInverse'
  <2> SUFFICES ASSUME IndexIsInverse, [MapNext]_mapVars PROVE IndexIsInverse'
    OBVIOUS
  <2>1. ASSUME NEW k \in Keys, NEW v \in Contents, Set(k, v) PROVE IndexIsInverse'
    BY <2>1, OverwriteIndex, InsertIndex DEF Set
  <2>2. ASSUME NEW k \in Keys, RemoveKey(k) PROVE IndexIsInverse'
    BY <2>2, RemoveIndex
  <2>3. CASE UNCHANGED mapVars
    BY <2>3 DEF IndexIsInverse, mapVars
  <2> QED
    BY <2>1, <2>2, <2>3 DEF MapNext
<1> QED
  BY <1>1, <1>2, PTL DEF MapSpec

-----------------------------------------------------------------------------
(* The refinement: the pairs of keys and values. *)

Pairs == [i \in 1..Len(order) |-> <<order[i], values[i]>>]

\* The pairs are a sequence as long as the order.
LEMMA PairsShape ==
    ASSUME NEW o \in Seq(Keys), NEW v \in Seq(Contents), NEW n \in Nat, Len(o) = n, Len(v) = n,
           NEW p, p = [i \in 1..Len(o) |-> <<o[i], v[i]>>]
    PROVE  /\ p \in Seq(Keys \X Contents)
           /\ Len(p) = n
           /\ \A i \in 1..n : p[i] = <<o[i], v[i]>>
<1>1. \A i \in 1..n : <<o[i], v[i]>> \in Keys \X Contents
  OBVIOUS
<1>2. p \in [1..n -> Keys \X Contents]
  BY <1>1
<1> QED
  BY <1>2, IsASeq

\* What holds of the pairs before and after every step.
LEMMA PairsBeforeAndAfter ==
    ASSUME IndexIsInverse, IndexIsInverse'
    PROVE  /\ Pairs \in Seq(Keys \X Contents)
           /\ Len(Pairs) = Len(order)
           /\ \A i \in 1..Len(order) : Pairs[i] = <<order[i], values[i]>>
           /\ Pairs' \in Seq(Keys \X Contents)
           /\ Len(Pairs') = Len(order')
           /\ \A i \in 1..Len(order') : Pairs'[i] = <<order'[i], values'[i]>>
<1>1. /\ order \in Seq(Keys) /\ values \in Seq(Contents) /\ Len(order) = Len(values)
      /\ Len(order) \in Nat
  BY DEF IndexIsInverse
<1>2. /\ order' \in Seq(Keys) /\ values' \in Seq(Contents) /\ Len(order') = Len(values')
      /\ Len(order') \in Nat
  BY DEF IndexIsInverse
<1> QED
  BY <1>1, <1>2, PairsShape DEF Pairs

\* set on a key the map has is a change of its value.
LEMMA OverwriteChanges ==
    ASSUME IndexIsInverse, IndexIsInverse', NEW k \in Keys, NEW v \in Contents, Overwrite(k, v)
    PROVE  Abstract!Change(k, v)
<1> PICK n \in Nat : Len(order) = n /\ Len(values) = n
  BY DEF IndexIsInverse
<1>1. PICK p \in 1..n : order[p] = k /\ index[k] + 1 = p
  <2>1. k \in DOMAIN index
    BY DEF Overwrite, Has
  <2>2. /\ DOMAIN index = {order[i] : i \in 1..n}
        /\ \A i \in 1..n : index[order[i]] = i - 1
    BY DEF IndexIsInverse
  <2> QED
    BY <2>1, <2>2
<1>2. /\ order' = order
      /\ \A i \in 1..n : values'[i] = IF i = p THEN v ELSE values[i]
  BY <1>1 DEF Overwrite, IndexIsInverse
<1>3. /\ Pairs \in Seq(Keys \X Contents) /\ Len(Pairs) = n
      /\ \A i \in 1..n : Pairs[i] = <<order[i], values[i]>>
      /\ Pairs' \in Seq(Keys \X Contents) /\ Len(Pairs') = n
      /\ \A i \in 1..n : Pairs'[i] = <<order[i], values'[i]>>
  BY <1>2, PairsBeforeAndAfter
<1> DEFINE e == [Pairs EXCEPT ![p] = <<k, v>>]
<1>4. e \in Seq(Keys \X Contents) /\ Len(e) = n
  BY <1>3, ExceptSeq
<1>5. \A i \in 1..n : e[i] = IF i = p THEN <<k, v>> ELSE Pairs[i]
  BY <1>3
<1>6. \A i \in 1..n : e[i] = Pairs'[i]
  BY <1>1, <1>2, <1>3, <1>5
<1>7. e = Pairs'
  <2> HIDE DEF e
  <2> QED
    BY <1>3, <1>4, <1>6, SeqEqual
<1>8. Pairs[p][1] = k
  BY <1>1, <1>3
<1> QED
  BY <1>3, <1>7, <1>8 DEF Abstract!Change, Pairs

\* set on a new key adds it at the end.
LEMMA InsertAdds ==
    ASSUME IndexIsInverse, IndexIsInverse', NEW k \in Keys, NEW v \in Contents, Insert(k, v)
    PROVE  Abstract!Add(k, v)
<1> PICK n \in Nat : Len(order) = n /\ Len(values) = n
  BY DEF IndexIsInverse
<1>1. \A i \in 1..n : order[i] # k
  BY DEF IndexIsInverse, Insert, Has
<1>2. /\ Len(order') = n + 1
      /\ order'[n + 1] = k /\ values'[n + 1] = v
      /\ \A i \in 1..n : order'[i] = order[i] /\ values'[i] = values[i]
  BY DEF IndexIsInverse, Insert
<1>3. /\ Pairs \in Seq(Keys \X Contents) /\ Len(Pairs) = n
      /\ \A i \in 1..n : Pairs[i] = <<order[i], values[i]>>
      /\ Pairs' \in Seq(Keys \X Contents) /\ Len(Pairs') = n + 1
      /\ \A i \in 1..(n + 1) : Pairs'[i] = <<order'[i], values'[i]>>
  BY <1>2, PairsBeforeAndAfter
<1> DEFINE e == Append(Pairs, <<k, v>>)
<1>4. <<k, v>> \in Keys \X Contents
  OBVIOUS
<1>5. /\ e \in Seq(Keys \X Contents) /\ Len(e) = n + 1
      /\ e[n + 1] = <<k, v>>
      /\ \A i \in 1..n : e[i] = Pairs[i]
  BY <1>3, <1>4, AppendProperties
<1>6. \A i \in 1..(n + 1) : e[i] = Pairs'[i]
  <2>1. \A i \in 1..(n + 1) : i \in 1..n \/ i = n + 1
    OBVIOUS
  <2> HIDE DEF e
  <2> QED
    BY <1>2, <1>3, <1>5, <2>1
<1>7. e = Pairs'
  <2> HIDE DEF e
  <2> QED
    BY <1>3, <1>5, <1>6, SeqEqual
<1>8. \A i \in 1..n : Pairs[i][1] # k
  BY <1>1, <1>3
<1> QED
  BY <1>3, <1>7, <1>8 DEF Abstract!Add, Abstract!Holds, Pairs

\* remove takes out the pair of the key and no other.
LEMMA RemoveDeletes ==
    ASSUME IndexIsInverse, IndexIsInverse', NEW k \in Keys, RemoveKey(k)
    PROVE  Abstract!Delete(k)
<1> PICK n \in Nat : Len(order) = n /\ Len(values) = n
  BY DEF IndexIsInverse
<1>1. PICK p \in 1..n : order[p] = k /\ index[k] + 1 = p
  BY DEF IndexIsInverse, RemoveKey, Has
<1>2. order' = RemoveAt(order, p) /\ values' = RemoveAt(values, p)
  BY <1>1 DEF RemoveKey
<1>3. /\ Len(order') = n - 1
      /\ \A j \in 1..(n - 1) : order'[j] = IF j < p THEN order[j] ELSE order[j + 1]
      /\ \A j \in 1..(n - 1) : values'[j] = IF j < p THEN values[j] ELSE values[j + 1]
  <2>1. order \in Seq(Keys) /\ Len(order) = n
    BY DEF IndexIsInverse
  <2>2. values \in Seq(Contents) /\ Len(values) = n
    BY DEF IndexIsInverse
  <2>3. Len(RemoveAt(order, p)) = n - 1
    BY ONLY <2>1, RemoveAtShape
  <2>4. \A j \in 1..(n - 1) :
              RemoveAt(order, p)[j] = IF j < p THEN order[j] ELSE order[j + 1]
    BY ONLY <2>1, RemoveAtShape
  <2>5. \A j \in 1..(n - 1) :
              RemoveAt(values, p)[j] = IF j < p THEN values[j] ELSE values[j + 1]
    BY ONLY <2>2, RemoveAtShape
  <2> QED
    BY <1>2, <2>3, <2>4, <2>5
<1>4. /\ Pairs \in Seq(Keys \X Contents) /\ Len(Pairs) = n
      /\ \A i \in 1..n : Pairs[i] = <<order[i], values[i]>>
      /\ Pairs' \in Seq(Keys \X Contents) /\ Len(Pairs') = n - 1
      /\ \A i \in 1..(n - 1) : Pairs'[i] = <<order'[i], values'[i]>>
  BY <1>3, PairsBeforeAndAfter
<1> DEFINE e == RemoveAt(Pairs, p)
<1>5. /\ e \in Seq(Keys \X Contents) /\ Len(e) = n - 1
      /\ \A j \in 1..(n - 1) : e[j] = IF j < p THEN Pairs[j] ELSE Pairs[j + 1]
  <2> DEFINE S == Keys \X Contents
  <2>1. Pairs \in Seq(S) /\ Len(Pairs) = n
    BY <1>4
  <2> HIDE DEF S
  <2>2. e \in Seq(S)
    BY ONLY <2>1, RemoveAtShape
  <2>3. Len(e) = n - 1
    BY ONLY <2>1, RemoveAtShape
  <2>4. \A j \in 1..(n - 1) : e[j] = IF j < p THEN Pairs[j] ELSE Pairs[j + 1]
    BY ONLY <2>1, RemoveAtShape
  <2> QED
    BY <2>2, <2>3, <2>4 DEF S
<1>6. ASSUME NEW j \in 1..(n - 1)
      PROVE  e[j] = Pairs'[j]
  <2> HIDE DEF e
  <2>1. CASE j < p
    <3>1. j \in 1..n
      OBVIOUS
    <3> QED
      BY <1>3, <1>4, <1>5, <2>1, <3>1
  <2>2. CASE ~(j < p)
    <3>1. j + 1 \in 1..n
      OBVIOUS
    <3> QED
      BY <1>3, <1>4, <1>5, <2>2, <3>1
  <2> QED
    BY <2>1, <2>2
<1>7. e = Pairs'
  <2> HIDE DEF e
  <2> QED
    BY <1>4, <1>5, <1>6, SeqEqual
<1>8. Pairs[p][1] = k
  BY <1>1, <1>4
<1> QED
  BY <1>4, <1>7, <1>8 DEF Abstract!Delete, Pairs, RemoveAt

\* Whichever way removal repairs the index, and in every sequence of set,
\* getMutable and remove, a map is an ordered map: each operation is the one of
\* OrderedMap, and no other pair moves, changes or is lost.
THEOREM MapRefines == MapSpec => IsOrderedMap
<1>1. MapInit => Abstract!Init
  BY DEF MapInit, Abstract!Init
<1>2. IndexIsInverse /\ IndexIsInverse' /\ [MapNext]_mapVars => [Abstract!Next]_(Pairs)
  <2> SUFFICES ASSUME IndexIsInverse, IndexIsInverse', [MapNext]_mapVars
               PROVE  Abstract!Next \/ UNCHANGED Pairs
    OBVIOUS
  <2>1. ASSUME NEW k \in Keys, NEW v \in Contents, Set(k, v)
        PROVE  Abstract!Next
    BY <2>1, OverwriteChanges, InsertAdds DEF Set, Abstract!Next
  <2>2. ASSUME NEW k \in Keys, RemoveKey(k)
        PROVE  Abstract!Next
    BY <2>2, RemoveDeletes DEF Abstract!Next
  <2>3. CASE UNCHANGED mapVars
    BY <2>3 DEF mapVars, Pairs
  <2> QED
    BY <2>1, <2>2, <2>3 DEF MapNext
<1> QED
  BY <1>1, <1>2, IndexCorrect, PTL DEF MapSpec, IsOrderedMap, Abstract!Spec, Pairs
=============================================================================
