-------------------------- MODULE DeclarationProofs --------------------------
(***************************************************************************)
(* Proofs about what a program declares, for every value of the constants: *)
(* its variables (Environment) and its classes (ClassTable).               *)
(*                                                                         *)
(* The first part: the lists, indexes, pools and pointers of the scopes    *)
(* are an implementation of the scopes of the language (IsScopes), and the *)
(* slot a `change` statement found stays where its variable lives until    *)
(* the new value is known (SlotsStay).                                     *)
(*                                                                         *)
(* One environment: the search by scan or by index finds the one variable  *)
(* of a name (`Coherent`), so that storing, declaring and the folds over   *)
(* declarations do to the names what the language says (`Rebinds`,         *)
(* `Extends`).                                                             *)
(*                                                                         *)
(* The stack: statements in evaluation are in environments further and     *)
(* further in, and what one of them waits for is always a call             *)
(* (`Nesting`).  A call starts an environment of its own, and what happens *)
(* in it reaches the environments below only by `change` or by an error    *)
(* that ends it.  So every action keeps all that a search sees in the      *)
(* environments 1 to j, where j bounds the statements that stay in         *)
(* evaluation (`SlotsKept`), and at the end the name of a `change` still   *)
(* denotes what was found at the start (`Pending`).                        *)
(*                                                                         *)
(* The second part: whatever texts are loaded, the table of classes is     *)
(* coherent (ClassesCoherent).  Each class built is well formed for good   *)
(* (`WellFormed'), as the classes it extends stay what they are.  That it  *)
(* extends the version of its parent that its own text declares needs      *)
(* that no name is built twice in one load (`Versions', `ThisLoad') and    *)
(* that a parent of the same text is built first (`Ready'), which is what  *)
(* the lineage of a class, read from the oldest on, is for.  The limit on  *)
(* classes holds at the end as the names still new to the table are as     *)
(* many as were counted before the first one was built (`Text').           *)
(***************************************************************************)
EXTENDS Environment, ClassTable, FiniteSetTheorems, SequenceTheorems, SequenceLemmas

-----------------------------------------------------------------------------
(* What an environment is. *)

Value == Values \cup {Empty}
Variable == [name : Names, value : Value]
Indexes == UNION {[D -> Nat] : D \in SUBSET Names}
EnvRecord == [kind : {"global", "function", "module", "block"}, vars : Seq(Variable),
              constants : SUBSET Names, bridged : SUBSET Names, index : Indexes, with : BOOLEAN]

\* A name has one variable, the index knows each at its place, and constants are variables.
Coherent(e) ==
    /\ \A i, j \in 1..Len(e.vars) : e.vars[i].name = e.vars[j].name => i = j
    /\ e.index # NoIndex =>
          /\ \A i \in 1..Len(e.vars) : e.vars[i].name \in DOMAIN e.index
          /\ \A n \in DOMAIN e.index : e.index[n] \in 1..Len(e.vars) /\ e.vars[e.index[n]].name = n
    /\ \A n \in e.constants : \E i \in 1..Len(e.vars) : e.vars[i].name = n

Env == {e \in EnvRecord : Coherent(e)}

-----------------------------------------------------------------------------
(* One environment. *)

LEMMA MinOf ==
    ASSUME NEW T, T \subseteq Nat, T # {}
    PROVE  Min(T) \in T
  BY Least DEF Min

LEMMA EnvParts ==
    ASSUME NEW e \in Env
    PROVE  /\ e \in EnvRecord /\ Coherent(e) /\ e.vars \in Seq(Variable) /\ Len(e.vars) \in Nat
           /\ \A i \in 1..Len(e.vars) : e.vars[i] \in Variable /\ e.vars[i].name \in Names
  <1>1. e \in EnvRecord /\ Coherent(e)
    BY DEF Env
  <1>2. e.vars \in Seq(Variable)
    BY <1>1 DEF EnvRecord
  <1>3. \A i \in 1..Len(e.vars) : e.vars[i] \in Variable
    BY <1>2
  <1>4. \A x \in Variable : x.name \in Names
    BY DEF Variable
  <1> QED
    BY <1>1, <1>2, <1>3, <1>4

\* A search, by scan or by index, finds the one variable of the name, or 0.
LEMMA Found ==
    ASSUME NEW e \in Env, NEW n
    PROVE  /\ FindLocal(e, n) \in 0..Len(e.vars)
           /\ FindLocal(e, n) # 0 => e.vars[FindLocal(e, n)].name = n
           /\ \A i \in 1..Len(e.vars) : e.vars[i].name = n => FindLocal(e, n) = i
  <1>1. /\ Len(e.vars) \in Nat
        /\ \A i, j \in 1..Len(e.vars) : e.vars[i].name = e.vars[j].name => i = j
    BY EnvParts DEF Coherent
  <1>2. CASE e.index # NoIndex
    <2>1. /\ \A i \in 1..Len(e.vars) : e.vars[i].name \in DOMAIN e.index
          /\ \A m \in DOMAIN e.index : e.index[m] \in 1..Len(e.vars) /\ e.vars[e.index[m]].name = m
      BY <1>2, EnvParts DEF Coherent
    <2>2. FindLocal(e, n) = IF n \in DOMAIN e.index THEN e.index[n] ELSE 0
      BY <1>2 DEF FindLocal
    <2>3. CASE n \in DOMAIN e.index
      <3>1. FindLocal(e, n) \in 1..Len(e.vars) /\ e.vars[FindLocal(e, n)].name = n
        BY <2>1, <2>2, <2>3
      <3> QED
        BY <1>1, <3>1
    <2>4. CASE n \notin DOMAIN e.index
      <3>1. FindLocal(e, n) = 0 /\ \A i \in 1..Len(e.vars) : e.vars[i].name # n
        BY <2>1, <2>2, <2>4
      <3> QED
        BY <1>1, <3>1
    <2> QED
      BY <2>3, <2>4
  <1>3. CASE e.index = NoIndex
    <2>. DEFINE I == {i \in 1..Len(e.vars) : e.vars[i].name = n}
    <2>1. I \subseteq Nat
      OBVIOUS
    <2>2. I # {} => Min(I) \in I
      BY <2>1, MinOf
    <2>3. FindLocal(e, n) = IF I # {} THEN Min(I) ELSE 0
      BY <1>3 DEF FindLocal, SelectInSeq
    <2>4. CASE I # {}
      <3>. DEFINE s == Min(I)
      <3>1. FindLocal(e, n) = s /\ s \in 1..Len(e.vars) /\ e.vars[s].name = n
        BY <2>2, <2>3, <2>4
      <3>. HIDE DEF s, I
      <3>2. \A i \in 1..Len(e.vars) : e.vars[i].name = n => i = s
        BY <1>1, <3>1
      <3> QED
        BY <1>1, <3>1, <3>2
    <2>5. CASE I = {}
      <3>1. FindLocal(e, n) = 0 /\ \A i \in 1..Len(e.vars) : e.vars[i].name # n
        BY <2>3, <2>5
      <3> QED
        BY <1>1, <3>1
    <2> QED
      BY <2>4, <2>5
  <1> QED
    BY <1>2, <1>3

\* Two environments where every name is found at the same place.
SameSlots(e, f) == /\ f.index = e.index /\ Len(f.vars) = Len(e.vars)
                   /\ \A i \in 1..Len(e.vars) : f.vars[i].name = e.vars[i].name

\* A name is found at the same place in both.
LEMMA FindLocalSame ==
    ASSUME NEW e, NEW f, SameSlots(e, f), NEW n
    PROVE  FindLocal(f, n) = FindLocal(e, n)
  <1>1. {i \in 1..Len(f.vars) : f.vars[i].name = n} = {i \in 1..Len(e.vars) : e.vars[i].name = n}
    BY DEF SameSlots
  <1>2. SelectInSeq(f.vars, LAMBDA x : x.name = n) = SelectInSeq(e.vars, LAMBDA x : x.name = n)
    BY <1>1 DEF SelectInSeq
  <1> QED
    BY <1>2 DEF FindLocal, SameSlots

\* The index that an environment has after a variable was appended.
LEMMA IndexedAgrees ==
    ASSUME NEW e \in EnvRecord, NEW size \in Nat, Len(e.vars) = size, size > 0,
           e.index # NoIndex =>
               /\ \A i \in 1..(size - 1) : e.vars[i].name \in DOMAIN e.index
               /\ \A n \in DOMAIN e.index : e.index[n] \in 1..(size - 1) /\ e.vars[e.index[n]].name = n
    PROVE  /\ Indexed(e) \in Indexes
           /\ Indexed(e) # NoIndex =>
               /\ \A i \in 1..size : e.vars[i].name \in DOMAIN Indexed(e)
               /\ \A n \in DOMAIN Indexed(e) :
                     Indexed(e)[n] \in 1..size /\ e.vars[Indexed(e)[n]].name = n
  <1>1. e.vars \in Seq(Variable) /\ size \in 1..size
    BY DEF EnvRecord
  <1>2. \A i \in 1..size : e.vars[i].name \in Names
    <2>1. \A i \in 1..size : e.vars[i] \in Variable
      BY <1>1
    <2>2. \A x \in Variable : x.name \in Names
      BY DEF Variable
    <2> QED
      BY <2>1, <2>2
  <1>3. CASE e.index # NoIndex
    <2>. DEFINE last == e.vars[size].name
                D == DOMAIN e.index \cup {last}
    <2>1. PICK E \in SUBSET Names : e.index \in [E -> Nat]
      BY DEF EnvRecord, Indexes
    <2>2. Indexed(e) = [n \in D |-> IF n \in DOMAIN e.index THEN e.index[n] ELSE size]
      BY <1>3 DEF Indexed
    <2>3. D \in SUBSET Names
      BY <1>1, <1>2, <2>1
    <2>4. \A n \in D : n \notin DOMAIN e.index => n = last
      OBVIOUS
    <2>5. \A i \in 1..size : i \in 1..(size - 1) \/ i = size
      OBVIOUS
    <2>6. \A i \in 1..size : e.vars[i].name \in D
      BY <1>3, <2>5
    <2>7. \A i \in 1..(size - 1) : i \in 1..size
      OBVIOUS
    <2>. HIDE DEF D
    <2>8. \A n \in D : Indexed(e)[n] \in 1..size /\ e.vars[Indexed(e)[n]].name = n
      <3>. TAKE n \in D
      <3>1. CASE n \in DOMAIN e.index
        BY <1>3, <2>2, <2>7, <3>1
      <3>2. CASE n \notin DOMAIN e.index
        BY <1>1, <2>2, <2>4, <3>2
      <3> QED
        BY <3>1, <3>2
    <2>9. DOMAIN Indexed(e) = D
      BY <2>2
    <2>10. Indexed(e) \in [D -> Nat]
      BY <2>2, <2>8
    <2> QED
      BY <2>3, <2>6, <2>8, <2>9, <2>10 DEF Indexes
  <1>4. CASE e.index = NoIndex /\ size >= IndexThreshold
    <2>. DEFINE D == {x.name : x \in ToSet(e.vars)}
                P(n) == SelectLastInSeq(e.vars, LAMBDA x : x.name = n)
    <2>1. \A n : n \in D <=> \E i \in 1..size : e.vars[i].name = n
      BY <1>1 DEF ToSet
    <2>2. D \in SUBSET Names
      BY <1>2, <2>1
    <2>3. ASSUME NEW n \in D
          PROVE  P(n) \in 1..size /\ e.vars[P(n)].name = n
      <3>. DEFINE I == {i \in 1..size : e.vars[i].name = n}
      <3>1. I \subseteq 1..size /\ I # {}
        BY <2>1
      <3>2. Max(I) \in I
        BY <3>1, MaxOf
      <3>3. P(n) = Max(I)
        BY <3>1 DEF SelectLastInSeq
      <3> QED
        BY <3>2, <3>3
    <2>4. Indexed(e) = [n \in D |-> P(n)]
      BY <1>4 DEF Indexed
    <2>. HIDE DEF D, P
    <2>5. DOMAIN Indexed(e) = D /\ \A n \in D : Indexed(e)[n] = P(n)
      BY <2>4
    <2>6. Indexed(e) \in [D -> Nat]
      BY <2>3, <2>4
    <2> QED
      BY <2>1, <2>2, <2>3, <2>5, <2>6 DEF Indexes
  <1>5. CASE e.index = NoIndex /\ ~(size >= IndexThreshold)
    <2>1. Indexed(e) = NoIndex
      BY <1>5 DEF Indexed
    <2>2. NoIndex \in [{} -> Nat]
      BY DEF NoIndex
    <2> QED
      BY <2>1, <2>2 DEF Indexes
  <1> QED
    BY <1>3, <1>4, <1>5

\* The variables with the value of one of them written.
Written(vars, s, v) == [vars EXCEPT ![s] = [vars[s] EXCEPT !.value = v]]

LEMMA WriteValue ==
    ASSUME NEW vars \in Seq(Variable), NEW s, NEW v \in Value, NEW w, w = Written(vars, s, v)
    PROVE  /\ w \in Seq(Variable)
           /\ Len(w) = Len(vars)
           /\ \A i \in 1..Len(vars) : w[i].name = vars[i].name
  <1>. DEFINE x == [vars[s] EXCEPT !.value = v]
  <1>1. ASSUME s \in 1..Len(vars)
        PROVE  x \in Variable /\ x.name = vars[s].name
    <2>1. vars[s] \in Variable
      BY <1>1
    <2> QED
      BY <2>1 DEF Variable
  <1>2. w = [vars EXCEPT ![s] = x]
    BY DEF Written
  <1>. HIDE DEF x
  <1>. DEFINE m == Len(vars)
  <1>3. m \in Nat /\ DOMAIN vars = 1..m /\ \A i \in 1..m : vars[i] \in Variable
    OBVIOUS
  <1>. HIDE DEF m
  <1>4. DOMAIN w = 1..m /\ \A i \in 1..m : w[i] = IF i = s THEN x ELSE vars[i]
    BY <1>2, <1>3
  <1>5. w = [i \in 1..m |-> w[i]] /\ \A i \in 1..m : w[i] \in Variable
    BY <1>1, <1>2, <1>3, <1>4 DEF m
  <1>6. w \in [1..m -> Variable]
    BY <1>4, <1>5
  <1>7. w \in Seq(Variable) /\ Len(w) = m
    BY <1>3, <1>6
  <1> QED
    BY <1>1, <1>4, <1>7 DEF m

\* What an environment says about names: those that have a variable, and its value.
ValueOf(e, n) == e.vars[FindLocal(e, n)].value

\* The same environment with other variables, of the same names.
LEMMA OtherValues ==
    ASSUME NEW e \in Env, NEW w \in Seq(Variable), Len(w) = Len(e.vars),
           \A i \in 1..Len(e.vars) : w[i].name = e.vars[i].name
    PROVE  /\ [e EXCEPT !.vars = w] \in Env
           /\ SameSlots(e, [e EXCEPT !.vars = w])
  <1>. DEFINE f == [e EXCEPT !.vars = w]
  <1>1. /\ f \in EnvRecord /\ f.vars = w /\ f.index = e.index /\ f.constants = e.constants
    BY EnvParts DEF EnvRecord
  <1>. HIDE DEF f
  <1>2. Len(e.vars) \in Nat
    BY EnvParts
  <1>. DEFINE size == Len(e.vars)
  <1>3. size \in Nat /\ Len(f.vars) = size /\ \A i \in 1..size : f.vars[i].name = e.vars[i].name
    BY <1>1, <1>2
  <1>. HIDE DEF size
  <1>4. Coherent(f)
    <2>1. \A i, j \in 1..size : e.vars[i].name = e.vars[j].name => i = j
      BY EnvParts DEF Coherent, size
    <2>2. e.index # NoIndex =>
             /\ \A i \in 1..size : e.vars[i].name \in DOMAIN e.index
             /\ \A n \in DOMAIN e.index : e.index[n] \in 1..size /\ e.vars[e.index[n]].name = n
      BY EnvParts DEF Coherent, size
    <2>3. \A n \in e.constants : \E i \in 1..size : e.vars[i].name = n
      BY EnvParts DEF Coherent, size
    <2>4. \A i, j \in 1..size : f.vars[i].name = f.vars[j].name => i = j
      BY <1>3, <2>1
    <2>5. f.index # NoIndex =>
             /\ \A i \in 1..size : f.vars[i].name \in DOMAIN f.index
             /\ \A n \in DOMAIN f.index : f.index[n] \in 1..size /\ f.vars[f.index[n]].name = n
      BY <1>1, <1>3, <2>2
    <2>6. \A n \in f.constants : \E i \in 1..size : f.vars[i].name = n
      BY <1>1, <1>3, <2>3
    <2> QED
      BY <1>3, <2>4, <2>5, <2>6 DEF Coherent
  <1> QED
    BY <1>1, <1>4 DEF Env, SameSlots, f

\* Appending a variable of a new name.
LEMMA WithVariableKeeps ==
    ASSUME NEW e \in Env, NEW n \in Names, FindLocal(e, n) = 0, NEW v \in Value,
           NEW f, f = WithVariable(e, n, v)
    PROVE  /\ f \in Env /\ f.kind = e.kind /\ f.with = e.with /\ f.bridged = e.bridged
           /\ f.constants = e.constants
           /\ Len(f.vars) = Len(e.vars) + 1
           /\ \A i \in 1..Len(e.vars) : f.vars[i] = e.vars[i]
           /\ f.vars[Len(e.vars) + 1] = [name |-> n, value |-> v]
  <1>. DEFINE x == [name |-> n, value |-> v]
              more == Append(e.vars, x)
              size == Len(e.vars)
              longer == [e EXCEPT !.vars = more]
  <1>1. x \in Variable /\ x.name = n /\ e \in EnvRecord /\ e.vars \in Seq(Variable) /\ size \in Nat
    BY EnvParts DEF Variable
  <1>2. f = [longer EXCEPT !.index = Indexed(longer)]
    BY DEF WithVariable
  <1>. HIDE DEF x
  <1>3. /\ more \in Seq(Variable) /\ Len(more) = size + 1
        /\ \A i \in 1..size : more[i] = e.vars[i]
        /\ more[size + 1] = x
    BY <1>1, Push
  <1>. HIDE DEF more
  <1>4. /\ longer \in EnvRecord /\ longer.vars = more /\ longer.index = e.index
        /\ longer.kind = e.kind /\ longer.with = e.with /\ longer.bridged = e.bridged
        /\ longer.constants = e.constants
    BY <1>1, <1>3 DEF EnvRecord
  <1>. HIDE DEF longer
  <1>5. /\ \A i, j \in 1..size : e.vars[i].name = e.vars[j].name => i = j
        /\ e.index # NoIndex =>
              /\ \A i \in 1..size : e.vars[i].name \in DOMAIN e.index
              /\ \A m \in DOMAIN e.index : e.index[m] \in 1..size /\ e.vars[e.index[m]].name = m
        /\ \A m \in e.constants : \E i \in 1..size : e.vars[i].name = m
    BY EnvParts DEF Coherent
  <1>6. \A i \in 1..size : e.vars[i].name # n
    <2>. TAKE i \in 1..size
    <2>1. e.vars[i].name = n => FindLocal(e, n) = i
      BY Found
    <2> QED
      BY <1>1, <2>1
  <1>. HIDE DEF size
  <1>7. /\ Indexed(longer) \in Indexes
        /\ Indexed(longer) # NoIndex =>
              /\ \A i \in 1..(size + 1) : more[i].name \in DOMAIN Indexed(longer)
              /\ \A m \in DOMAIN Indexed(longer) :
                    Indexed(longer)[m] \in 1..(size + 1) /\ more[Indexed(longer)[m]].name = m
    <2>1. size + 1 \in Nat /\ size + 1 > 0 /\ (size + 1) - 1 = size
      BY <1>1
    <2>2. longer.index # NoIndex =>
              /\ \A i \in 1..((size + 1) - 1) : longer.vars[i].name \in DOMAIN longer.index
              /\ \A m \in DOMAIN longer.index :
                    /\ longer.index[m] \in 1..((size + 1) - 1)
                    /\ longer.vars[longer.index[m]].name = m
      <3>. HAVE longer.index # NoIndex
      <3>1. /\ \A i \in 1..size : e.vars[i].name \in DOMAIN e.index
            /\ \A m \in DOMAIN e.index : e.index[m] \in 1..size /\ e.vars[e.index[m]].name = m
        BY <1>4, <1>5
      <3>2. \A i \in 1..size : longer.vars[i].name = e.vars[i].name
        BY <1>3, <1>4
      <3>3. (size + 1) - 1 = size /\ longer.index = e.index
        BY <1>4, <2>1
      <3>4. \A i \in 1..size : longer.vars[i].name \in DOMAIN longer.index
        BY <3>1, <3>2, <3>3
      <3>5. \A m \in DOMAIN longer.index :
               longer.index[m] \in 1..size /\ longer.vars[longer.index[m]].name = m
        BY <3>1, <3>2, <3>3
      <3> QED
        BY <3>3, <3>4, <3>5
    <2> QED
      BY <1>3, <1>4, <2>1, <2>2, IndexedAgrees
  <1>8. /\ f \in EnvRecord /\ f.vars = more /\ f.index = Indexed(longer)
        /\ f.kind = e.kind /\ f.with = e.with /\ f.bridged = e.bridged /\ f.constants = e.constants
    BY <1>2, <1>4, <1>7 DEF EnvRecord
  <1>9. \A i \in 1..(size + 1) : i \in 1..size \/ i = size + 1
    BY <1>1
  <1>10. \A i, j \in 1..(size + 1) : more[i].name = more[j].name => i = j
    BY <1>1, <1>3, <1>5, <1>6, <1>9
  <1>11. \A m \in e.constants : \E i \in 1..(size + 1) : more[i].name = m
    <2>1. \A i \in 1..size : i \in 1..(size + 1)
      BY <1>1
    <2> QED
      BY <1>3, <1>5, <2>1
  <1>12. Coherent(f)
    BY <1>3, <1>7, <1>8, <1>10, <1>11 DEF Coherent
  <1> QED
    BY <1>3, <1>8, <1>12 DEF Env, size, x

\* In f the name n has the value v, and the others have what they have in e.
Rebinds(e, n, v, f) ==
    /\ f \in Env /\ f.kind = e.kind /\ f.with = e.with /\ f.bridged = e.bridged
    /\ FindLocal(f, n) # 0 /\ ValueOf(f, n) = v
    /\ \A m : m # n => /\ FindLocal(f, m) # 0 <=> FindLocal(e, m) # 0
                       /\ FindLocal(e, m) # 0 => ValueOf(f, m) = ValueOf(e, m)

\* Storing a value.
LEMMA StoredKeeps ==
    ASSUME NEW e \in Env, NEW n \in Names, NEW v \in Value, NEW f, f = Stored(e, n, v)
    PROVE  Rebinds(e, n, v, f) /\ f.constants = e.constants
  <1>1. Len(e.vars) \in Nat /\ e.vars \in Seq(Variable) /\ e \in EnvRecord
    BY EnvParts
  <1>2. CASE FindLocal(e, n) # 0
    <2>. DEFINE s == FindLocal(e, n)  w == Written(e.vars, s, v)
    <2>1. s \in 1..Len(e.vars) /\ e.vars[s].name = n
      BY <1>1, <1>2, Found
    <2>2. f = [e EXCEPT !.vars = w]
      BY <1>2 DEF Stored, Written
    <2>3. /\ w \in Seq(Variable) /\ Len(w) = Len(e.vars)
          /\ \A i \in 1..Len(e.vars) : w[i].name = e.vars[i].name
      BY <1>1, WriteValue
    <2>4. w[s].value = v /\ \A i \in 1..Len(e.vars) : i # s => w[i] = e.vars[i]
      <3>1. e.vars[s] \in Variable
        BY <1>1, <2>1
      <3> QED
        BY <1>1, <2>1, <3>1 DEF Written, Variable
    <2>. HIDE DEF w, s
    <2>5. f \in Env /\ SameSlots(e, f)
      BY <2>2, <2>3, OtherValues
    <2>6. /\ f.vars = w /\ f.kind = e.kind /\ f.with = e.with /\ f.bridged = e.bridged
          /\ f.constants = e.constants
      BY <1>1, <2>2 DEF EnvRecord
    <2>7. \A m : FindLocal(f, m) = FindLocal(e, m)
      BY <2>5, FindLocalSame
    <2>8. \A m : m # n /\ FindLocal(e, m) # 0 =>
                 FindLocal(e, m) \in 1..Len(e.vars) /\ FindLocal(e, m) # s
      BY <1>1, <2>1, Found
    <2> QED
      BY <1>2, <2>4, <2>5, <2>6, <2>7, <2>8 DEF Rebinds, ValueOf, s
  <1>3. CASE FindLocal(e, n) = 0
    <2>. DEFINE size == Len(e.vars)
    <2>1. f = WithVariable(e, n, v)
      BY <1>3 DEF Stored
    <2>2. /\ f \in Env /\ f.kind = e.kind /\ f.with = e.with /\ f.bridged = e.bridged
          /\ f.constants = e.constants
          /\ Len(f.vars) = size + 1
          /\ \A i \in 1..size : f.vars[i] = e.vars[i]
          /\ f.vars[size + 1] = [name |-> n, value |-> v]
      BY <1>3, <2>1, WithVariableKeeps
    <2>. HIDE DEF size
    <2>3. size \in Nat /\ size + 1 \in 1..(size + 1) /\ \A i \in 1..size : i \in 1..(size + 1)
      BY <1>1 DEF size
    <2>4. FindLocal(f, n) = size + 1
      BY <2>2, <2>3, Found
    <2>5. ASSUME NEW m, m # n
          PROVE  /\ FindLocal(f, m) # 0 <=> FindLocal(e, m) # 0
                 /\ FindLocal(e, m) # 0 => ValueOf(f, m) = ValueOf(e, m)
      <3>1. CASE FindLocal(e, m) # 0
        <4>1. FindLocal(e, m) \in 1..size /\ e.vars[FindLocal(e, m)].name = m
          BY <1>1, <3>1, Found DEF size
        <4>2. FindLocal(f, m) = FindLocal(e, m)
          BY <2>2, <2>3, <4>1, Found
        <4> QED
          BY <2>2, <3>1, <4>1, <4>2 DEF ValueOf
      <3>2. CASE FindLocal(e, m) = 0
        <4>1. \A i \in 1..size : e.vars[i].name # m
          <5>. TAKE i \in 1..size
          <5>1. e.vars[i].name = m => FindLocal(e, m) = i
            BY Found DEF size
          <5> QED
            BY <2>3, <3>2, <5>1
        <4>2. \A i \in 1..(size + 1) : i \in 1..size \/ i = size + 1
          BY <2>3
        <4>3. \A i \in 1..(size + 1) : f.vars[i].name # m
          BY <2>2, <2>5, <4>1, <4>2
        <4>4. FindLocal(f, m) \in 0..(size + 1) /\ (FindLocal(f, m) # 0 => f.vars[FindLocal(f, m)].name = m)
          BY <2>2, Found
        <4>5. FindLocal(f, m) = 0
          BY <2>3, <4>3, <4>4
        <4> QED
          BY <3>2, <4>5
      <3> QED
        BY <3>1, <3>2
    <2> QED
      BY <2>2, <2>3, <2>4, <2>5 DEF Rebinds, ValueOf
  <1> QED
    BY <1>2, <1>3

\* And n is a constant of f if c, and not if not.
Redeclares(e, n, v, c, f) ==
    Rebinds(e, n, v, f) /\ f.constants = IF c THEN e.constants \cup {n} ELSE e.constants \ {n}

\* Declaring a name, whether it had a variable or not.
LEMMA DeclaredKeeps ==
    ASSUME NEW e \in Env, NEW n \in Names, NEW v \in Value, NEW c \in BOOLEAN,
           NEW f, f = Declared(e, n, v, c)
    PROVE  Redeclares(e, n, v, c, f)
  <1>. DEFINE g == Stored(e, n, v)
              cs == IF c THEN g.constants \cup {n} ELSE g.constants \ {n}
  <1>1. /\ g \in Env /\ g.kind = e.kind /\ g.with = e.with /\ g.bridged = e.bridged
        /\ g.constants = e.constants
        /\ FindLocal(g, n) # 0 /\ ValueOf(g, n) = v
        /\ \A m : m # n => /\ FindLocal(g, m) # 0 <=> FindLocal(e, m) # 0
                           /\ FindLocal(e, m) # 0 => ValueOf(g, m) = ValueOf(e, m)
    BY StoredKeeps DEF Rebinds
  <1>2. f = [g EXCEPT !.constants = cs]
    BY DEF Declared
  <1>. HIDE DEF g
  <1>3. g \in EnvRecord /\ Coherent(g) /\ Len(g.vars) \in Nat
    BY <1>1, EnvParts
  <1>4. cs \in SUBSET Names
    BY <1>3 DEF EnvRecord
  <1>. HIDE DEF cs
  <1>5. /\ f \in EnvRecord /\ f.kind = g.kind /\ f.with = g.with /\ f.bridged = g.bridged
        /\ f.constants = cs /\ f.vars = g.vars /\ f.index = g.index
    BY <1>2, <1>3, <1>4 DEF EnvRecord
  <1>6. \E i \in 1..Len(g.vars) : g.vars[i].name = n
    <2>1. FindLocal(g, n) \in 1..Len(g.vars) /\ g.vars[FindLocal(g, n)].name = n
      BY <1>1, <1>3, Found
    <2> QED
      BY <2>1
  <1>7. \A m \in cs : m \in g.constants \/ m = n
    BY DEF cs
  <1>8. Coherent(f)
    BY <1>3, <1>5, <1>6, <1>7 DEF Coherent
  <1>9. \A m : FindLocal(f, m) = FindLocal(g, m) /\ ValueOf(f, m) = ValueOf(g, m)
    BY <1>5 DEF FindLocal, ValueOf
  <1> QED
    BY <1>1, <1>5, <1>8, <1>9 DEF Redeclares, Rebinds, Env, cs

\* A new environment.
LEMMA EnvironmentType ==
    ASSUME NEW kind \in {"global", "function", "module", "block"}, NEW with \in BOOLEAN,
           NEW e, e = Environment(kind, with)
    PROVE  /\ e \in Env /\ e.kind = kind /\ e.with = with /\ e.constants = {} /\ e.bridged = {}
           /\ \A n : FindLocal(e, n) = 0
  <1>1. NoIndex \in [{} -> Nat]
    BY DEF NoIndex
  <1>2. NoIndex \in Indexes
    BY <1>1 DEF Indexes
  <1>3. /\ e \in EnvRecord /\ e.kind = kind /\ e.with = with /\ e.constants = {} /\ e.bridged = {}
        /\ e.vars = <<>> /\ e.index = NoIndex
    BY <1>2 DEF Environment, EnvRecord
  <1>4. Len(e.vars) = 0
    BY <1>3
  <1>5. e \in Env
    BY <1>3, <1>4 DEF Env, Coherent
  <1>6. \A n : FindLocal(e, n) \in 0..0
    BY <1>4, <1>5, Found
  <1> QED
    BY <1>3, <1>5, <1>6

-----------------------------------------------------------------------------
(* Declaring a list of variables, one after the other. *)

\* What the fold of DeclaredAll gives for the entries at the places in `places`, in their order.
Fold(e, entries, f, places) ==
    IF places = {} THEN e
    ELSE LET d == entries[Max(places)]
         IN Declared(f[places \ {Max(places)}], d.name, d.value, d.constant)
IsFold(e, entries, f, S) == f = [places \in SUBSET S |-> Fold(e, entries, f, places)]

\* The library's fold, written with these names.
LEMMA FoldForm ==
    ASSUME NEW e, NEW entries
    PROVE  DeclaredAll(e, entries) =
             (CHOOSE f : IsFold(e, entries, f, DOMAIN entries))[DOMAIN entries]
  BY DEF DeclaredAll, FoldLeft, MapThenFoldSet, IsFold, Fold

\* A function with that recursion exists, so that the fold's CHOOSE finds it.  By the least k
\* for which it would not.
LEMMA FoldExists ==
    ASSUME NEW e, NEW entries, NEW n \in Nat
    PROVE  \E f : IsFold(e, entries, f, 1..n)
  <1>. DEFINE Without == {k \in Nat : \A f : ~IsFold(e, entries, f, 1..k)}
  <1>1. SUFFICES ASSUME Without # {}
                 PROVE  FALSE
    OBVIOUS
  <1>2. PICK k \in Without : \A j \in Without : k <= j
    BY <1>1, Least
  <1>3. CASE k = 0
    <2>. DEFINE f == [places \in SUBSET (1..0) |-> e]
    <2>1. \A places \in SUBSET (1..0) : places = {}
      OBVIOUS
    <2>2. IsFold(e, entries, f, 1..0)
      BY <2>1 DEF IsFold, Fold
    <2> QED
      BY <1>2, <1>3, <2>2
  <1>4. CASE k # 0
    <2>1. k \in Nat /\ k - 1 \in Nat /\ k - 1 \notin Without
      BY <1>2, <1>4
    <2>2. PICK f : IsFold(e, entries, f, 1..(k - 1))
      BY <2>1
    <2>. DEFINE below == 1..(k - 1)
                g == [places \in SUBSET (1..k) |->
                         IF k \in places THEN Fold(e, entries, f, places) ELSE f[places]]
    <2>3. ASSUME NEW places \in SUBSET (1..k)
          PROVE  g[places] = Fold(e, entries, g, places)
      <3>1. CASE k \in places
        <4>1. places \subseteq 1..k /\ places # {}
          BY <3>1
        <4>2. Max(places) \in places /\ \A y \in places : y <= Max(places)
          BY <2>1, <4>1, MaxOf
        <4>3. \A m \in 1..k : k <= m => m = k
          BY <2>1
        <4>4. Max(places) = k
          BY <3>1, <4>1, <4>2, <4>3
        <4>5. places \ {k} \in SUBSET (1..k) /\ k \notin places \ {k}
          BY <4>1
        <4>6. g[places \ {k}] = f[places \ {k}]
          BY <4>5
        <4>7. g[places] = Fold(e, entries, f, places)
          BY <3>1
        <4>. HIDE DEF g
        <4> QED
          BY <4>4, <4>6, <4>7 DEF Fold
      <3>2. CASE k \notin places
        <4>1. places \in SUBSET below
          BY <2>1, <3>2
        <4>2. g[places] = f[places]
          BY <3>2
        <4>3. f = [q \in SUBSET below |-> Fold(e, entries, f, q)]
          BY <2>2 DEF IsFold
        <4>4. f[places] = Fold(e, entries, f, places)
          <5>. HIDE DEF below
          <5> QED
            BY <4>1, <4>3
        <4>5. CASE places = {}
          BY <4>2, <4>4, <4>5 DEF Fold
        <4>6. CASE places # {}
          <5>1. Max(places) \in places
            BY <2>1, <4>1, <4>6, MaxOf
          <5>2. places \ {Max(places)} \in SUBSET (1..k) /\ k \notin places \ {Max(places)}
            BY <3>2
          <5>3. g[places \ {Max(places)}] = f[places \ {Max(places)}]
            BY <5>2
          <5>. HIDE DEF g
          <5> QED
            BY <4>2, <4>4, <4>6, <5>3 DEF Fold
        <4> QED
          BY <4>5, <4>6
      <3> QED
        BY <3>1, <3>2
    <2>4. g = [places \in SUBSET (1..k) |-> g[places]]
      OBVIOUS
    <2>5. IsFold(e, entries, g, 1..k)
      <3>. HIDE DEF g
      <3> QED
        BY <2>3, <2>4 DEF IsFold
    <2> QED
      BY <1>2, <2>5
  <1> QED
    BY <1>3, <1>4

\* The environments after each of the declarations, from none to all n.
IsRun(e, entries, n, g) ==
    /\ g[0] = e
    /\ \A k \in 1..n : g[k] = Declared(g[k - 1], entries[k].name, entries[k].value, entries[k].constant)

LEMMA DeclaredSteps ==
    ASSUME NEW e, NEW entries, NEW n \in Nat, DOMAIN entries = 1..n
    PROVE  \E g : IsRun(e, entries, n, g) /\ DeclaredAll(e, entries) = g[n]
  <1>. DEFINE f == CHOOSE f : IsFold(e, entries, f, 1..n)
              g == [k \in 0..n |-> f[1..k]]
  <1>1. IsFold(e, entries, f, 1..n)
    BY FoldExists
  <1>2. DeclaredAll(e, entries) = f[1..n]
    BY FoldForm
  <1>. HIDE DEF f
  <1>3. \A places \in SUBSET (1..n) : f[places] = Fold(e, entries, f, places)
    BY <1>1 DEF IsFold
  <1>4. g[0] = e
    <2>1. 1..0 = {} /\ 0 \in 0..n
      OBVIOUS
    <2>2. f[{}] = Fold(e, entries, f, {})
      BY <1>3
    <2> QED
      BY <2>1, <2>2 DEF Fold
  <1>5. ASSUME NEW k \in 1..n
        PROVE  g[k] = Declared(g[k - 1], entries[k].name, entries[k].value, entries[k].constant)
    <2>1. 1..k \in SUBSET (1..n) /\ 1..k # {} /\ 1..k \subseteq 1..k /\ k \in Nat /\ k \in 1..k
      OBVIOUS
    <2>2. Max(1..k) \in 1..k /\ \A y \in 1..k : y <= Max(1..k)
      BY <2>1, MaxOf
    <2>3. Max(1..k) = k
      BY <2>1, <2>2
    <2>4. (1..k) \ {k} = 1..(k - 1)
      OBVIOUS
    <2>5. f[1..k] = Fold(e, entries, f, 1..k)
      BY <1>3, <2>1
    <2>6. f[1..k] = Declared(f[1..(k - 1)], entries[k].name, entries[k].value, entries[k].constant)
      BY <2>1, <2>3, <2>4, <2>5 DEF Fold
    <2>7. g[k] = f[1..k] /\ g[k - 1] = f[1..(k - 1)]
      OBVIOUS
    <2> QED
      BY <2>6, <2>7
  <1>6. g[n] = f[1..n]
    OBVIOUS
  <1> QED
    BY <1>2, <1>4, <1>5, <1>6 DEF IsRun

\* What the first k of a list of declarations, of different names, make of e: f.
Extends(e, entries, k, f) ==
    /\ f \in Env /\ f.kind = e.kind /\ f.with = e.with /\ f.bridged = e.bridged
    /\ \A i \in 1..k : /\ FindLocal(f, entries[i].name) # 0
                       /\ ValueOf(f, entries[i].name) = entries[i].value
                       /\ entries[i].name \in f.constants <=> entries[i].constant
    /\ \A m : (\A i \in 1..k : entries[i].name # m) =>
                  /\ FindLocal(f, m) # 0 <=> FindLocal(e, m) # 0
                  /\ FindLocal(e, m) # 0 => ValueOf(f, m) = ValueOf(e, m)
                  /\ m \in f.constants <=> m \in e.constants

\* A list of declarations of different names does what each of them does.  By the least k for
\* which the first k would not.
LEMMA DeclaredAllKeeps ==
    ASSUME NEW e \in Env, NEW entries, NEW n \in Nat, DOMAIN entries = 1..n,
           \A k \in 1..n : /\ entries[k].name \in Names /\ entries[k].value \in Value
                           /\ entries[k].constant \in BOOLEAN,
           \A j, k \in 1..n : entries[j].name = entries[k].name => j = k
    PROVE  Extends(e, entries, n, DeclaredAll(e, entries))
  <1>1. PICK g : IsRun(e, entries, n, g) /\ DeclaredAll(e, entries) = g[n]
    BY DeclaredSteps
  <1>. DEFINE Wrong == {k \in 0..n : ~Extends(e, entries, k, g[k])}
  <1>2. SUFFICES ASSUME Wrong # {}
                 PROVE  FALSE
    BY <1>1
  <1>3. PICK k \in Wrong : \A j \in Wrong : k <= j
    <2>1. Wrong \subseteq Nat
      OBVIOUS
    <2>. HIDE DEF Wrong
    <2> QED
      BY <1>2, <2>1, Least
  <1>4. k \in 0..n /\ ~Extends(e, entries, k, g[k])
    BY <1>3
  <1>5. CASE k = 0
    <2>1. g[k] = e
      BY <1>1, <1>5 DEF IsRun
    <2> QED
      BY <1>4, <1>5, <2>1 DEF Extends
  <1>6. CASE k # 0
    <2>. DEFINE h == g[k - 1]  d == entries[k]
    <2>1. k \in 1..n /\ k - 1 \in 0..n /\ ~(k <= k - 1)
      BY <1>4, <1>6
    <2>2. k - 1 \notin Wrong
      <3>. HIDE DEF Wrong
      <3> QED
        BY <1>3, <2>1
    <2>3. Extends(e, entries, k - 1, h)
      BY <2>1, <2>2
    <2>4. g[k] = Declared(h, d.name, d.value, d.constant)
      BY <1>1, <2>1 DEF IsRun
    <2>5. d.name \in Names /\ d.value \in Value /\ d.constant \in BOOLEAN
      BY <2>1
    <2>6. \A i \in 1..(k - 1) : i \in 1..k /\ i \in 1..n /\ entries[i].name # d.name
      BY <2>1
    <2>7. \A i \in 1..k : i \in 1..(k - 1) \/ i = k
      BY <2>1
    <2>. DEFINE f == g[k]  name == d.name  c == d.constant
    <2>8. /\ Rebinds(h, name, d.value, f)
          /\ f.constants = IF c THEN h.constants \cup {name} ELSE h.constants \ {name}
      <3>1. h \in Env
        BY <2>3 DEF Extends
      <3>. DEFINE x == d.name  v == d.value  b == d.constant
      <3>2. x \in Names /\ v \in Value /\ b \in BOOLEAN /\ f = Declared(h, x, v, b)
        BY <2>4, <2>5
      <3>. HIDE DEF h, d, x, v, b, f, name, c
      <3>3. Redeclares(h, x, v, b, f)
        BY <3>1, <3>2, DeclaredKeeps
      <3> QED
        BY <3>3 DEF Redeclares, x, v, b, name, c
    <2>. HIDE DEF f, h
    <2>9. \A m : m # name => (m \in f.constants <=> m \in h.constants)
      BY <2>8
    <2>10. name \in f.constants <=> c
      BY <2>5, <2>8
    <2>11. ASSUME NEW i \in 1..k
           PROVE  /\ FindLocal(f, entries[i].name) # 0
                  /\ ValueOf(f, entries[i].name) = entries[i].value
                  /\ entries[i].name \in f.constants <=> entries[i].constant
      <3>1. CASE i = k
        BY <2>8, <2>10, <3>1 DEF Rebinds
      <3>2. CASE i \in 1..(k - 1)
        <4>1. /\ FindLocal(h, entries[i].name) # 0
              /\ ValueOf(h, entries[i].name) = entries[i].value
              /\ entries[i].name \in h.constants <=> entries[i].constant
          BY <2>3, <3>2 DEF Extends
        <4> QED
          BY <2>6, <2>8, <2>9, <3>2, <4>1 DEF Rebinds
      <3> QED
        BY <2>7, <3>1, <3>2
    <2>12. ASSUME NEW m, \A i \in 1..k : entries[i].name # m
           PROVE  /\ FindLocal(f, m) # 0 <=> FindLocal(e, m) # 0
                  /\ FindLocal(e, m) # 0 => ValueOf(f, m) = ValueOf(e, m)
                  /\ m \in f.constants <=> m \in e.constants
      <3>1. m # name /\ \A i \in 1..(k - 1) : entries[i].name # m
        BY <2>1, <2>6, <2>12
      <3>2. /\ FindLocal(h, m) # 0 <=> FindLocal(e, m) # 0
            /\ FindLocal(e, m) # 0 => ValueOf(h, m) = ValueOf(e, m)
            /\ m \in h.constants <=> m \in e.constants
        BY <2>3, <3>1 DEF Extends
      <3> QED
        BY <2>8, <2>9, <3>1, <3>2 DEF Rebinds
    <2>13. f \in Env /\ f.kind = e.kind /\ f.with = e.with /\ f.bridged = e.bridged
      BY <2>3, <2>8 DEF Extends, Rebinds
    <2>14. Extends(e, entries, k, f)
      BY <2>11, <2>12, <2>13 DEF Extends
    <2> QED
      BY <1>4, <2>14 DEF f
  <1> QED
    BY <1>5, <1>6

\* The parameters of a call, each with the value it is given.
LEMMA ArgumentsType ==
    ASSUME NEW P \in Signatures, NEW v \in Given
    PROVE  \E n \in Nat :
              /\ DOMAIN Arguments(P, v) = 1..n
              /\ \A k \in 1..n : Arguments(P, v)[k].name \in P /\ Arguments(P, v)[k].value = v
              /\ \A j, k \in 1..n : Arguments(P, v)[j].name = Arguments(P, v)[k].name => j = k
              /\ \A m \in P : \E k \in 1..n : Arguments(P, v)[k].name = m
              /\ P \subseteq Names
  <1>. DEFINE n == Cardinality(P)  s == SetToSeq(P)
  <1>1. P \subseteq Names /\ IsFiniteSet(P)
    BY SignaturesAssumption
  <1>2. n \in Nat /\ ExistsBijection(1..n, P)
    BY <1>1, FS_CardinalityType
  <1>3. PICK b : b \in Bijection(1..n, P)
    BY <1>2 DEF ExistsBijection
  <1>4. b \in [1..n -> P] /\ IsInjective(b)
    <2>1. b \in [1..n -> P] /\ \A x, y \in 1..n : b[x] = b[y] => x = y
      BY <1>3 DEF Bijection, Injection, IsInjective
    <2> QED
      BY <2>1 DEF IsInjective
  <1>5. s \in [1..n -> P] /\ IsInjective(s)
    BY <1>4 DEF SetToSeq
  <1>6. \A j, k \in 1..n : s[j] = s[k] => j = k
    BY <1>5 DEF IsInjective
  <1>7. Arguments(P, v) = [k \in 1..n |-> [name |-> s[k], value |-> v]]
    BY DEF Arguments
  <1>8. \A m \in P : \E k \in 1..n : s[k] = m
    <2>1. s \in Injection(1..n, P)
      BY <1>5 DEF Injection, IsInjective
    <2>. HIDE DEF s
    <2>2. Cardinality(1..n) = n /\ IsFiniteSet(1..n)
      BY <1>2, FS_Interval
    <2>3. s \in Surjection(1..n, P)
      BY <1>1, <2>1, <2>2, FS_Injection
    <2> QED
      BY <2>3 DEF Surjection
  <1>. HIDE DEF n, s
  <1>9. /\ DOMAIN Arguments(P, v) = 1..n
        /\ \A k \in 1..n : Arguments(P, v)[k].name = s[k] /\ Arguments(P, v)[k].value = v
    BY <1>7
  <1>10. \A k \in 1..n : s[k] \in P
    BY <1>5
  <1>11. \A j, k \in 1..n : Arguments(P, v)[j].name = Arguments(P, v)[k].name => j = k
    BY <1>6, <1>9
  <1>12. \A m \in P : \E k \in 1..n : Arguments(P, v)[k].name = m
    BY <1>8, <1>9
  <1>13. \A k \in 1..n : Arguments(P, v)[k].name \in P /\ Arguments(P, v)[k].value = v
    BY <1>9, <1>10
  <1> QED
    BY <1>1, <1>2, <1>9, <1>11, <1>12, <1>13

-----------------------------------------------------------------------------
(* The stack of environments. *)

Change == [at : Nat, name : Names,
           place : [what : {"variable", "member"}, level : Nat, slot : Nat, size : Nat]]
Handler == [at : Nat, name : Names \cup {NoName}]

Typed == /\ envs \in Seq(Env) /\ Len(envs) > 0 /\ envs[1].kind = "global"
         /\ evaluating \in Seq(Change) /\ handlers \in Seq(Handler)

\* What a name denotes at level t of a stack of environments: a variable of an environment, a
\* member of the object of a `with` block, or nothing.
HomeOf(E, t) == Max({j \in 1..t : E[j].kind # "block"})
GlobalIn(E, t) == IF E[HomeOf(E, t)].kind = "function" THEN 1 ELSE HomeOf(E, t)
HoldingIn(E, t, n) ==
    {j \in HomeOf(E, t)..t : FindLocal(E[j], n) # 0 \/ (E[j].with /\ n \in Members)}
Denotes(what, i) == [what |-> what, scope |-> i]
DenotedIn(E, t, n) ==
    IF HoldingIn(E, t, n) # {}
    THEN LET j == Max(HoldingIn(E, t, n))
         IN Denotes(IF FindLocal(E[j], n) # 0 THEN "variable" ELSE "member", j)
    ELSE IF n \in E[HomeOf(E, t)].bridged /\ FindLocal(E[GlobalIn(E, t)], n) # 0
    THEN Denotes("variable", GlobalIn(E, t))
    ELSE Denotes("nothing", 0)

\* The statements in evaluation are in environments further and further in, and what each of
\* them is waiting for is a call: the value of a `change` is an expression.
Nesting ==
    /\ \A k \in 1..Len(evaluating) :
           /\ evaluating[k].at \in 1..Len(envs)
           /\ evaluating[k].place.level \in 1..evaluating[k].at
           /\ evaluating[k].at < Len(envs) => envs[evaluating[k].at + 1].kind = "function"
    /\ \A j, k \in 1..Len(evaluating) : j < k => evaluating[j].at < evaluating[k].at

\* What the name of a `change` denotes is still what the statement found when it began, and may
\* be changed.
Pending ==
    \A k \in 1..Len(evaluating) :
        LET c == evaluating[k] IN
        /\ DenotedIn(envs, c.at, c.name) = Denotes(c.place.what, c.place.level)
        /\ c.place.what = "variable" => c.name \notin envs[c.place.level].constants

HandlersNest ==
    /\ \A k \in 1..Len(handlers) : handlers[k].at \in 1..Len(envs)
    /\ \A j, k \in 1..Len(handlers) : j < k => handlers[j].at <= handlers[k].at

Inv == Typed /\ Nesting /\ HandlersNest /\ SlotsStay /\ Pending

\* The search ends in an environment of the stack, the one of a function, a module or the program.
LEMMA HomeType ==
    ASSUME NEW E, NEW t \in Nat, t > 0, E[1].kind = "global"
    PROVE  /\ HomeOf(E, t) \in 1..t /\ GlobalIn(E, t) \in 1..t
           /\ E[HomeOf(E, t)].kind # "block"
           /\ \A j \in 1..t : E[j].kind # "block" => j <= HomeOf(E, t)
           /\ E[HomeOf(E, t)].kind = "function" => HomeOf(E, t) > 1 /\ GlobalIn(E, t) = 1
           /\ E[HomeOf(E, t)].kind # "function" => GlobalIn(E, t) = HomeOf(E, t)
  <1>. DEFINE T == {j \in 1..t : E[j].kind # "block"}
  <1>1. 1 \in T /\ T \subseteq 1..t
    OBVIOUS
  <1>2. Max(T) \in T /\ \A y \in T : y <= Max(T)
    BY <1>1, MaxOf
  <1>3. HomeOf(E, t) = Max(T)
    BY DEF HomeOf
  <1>. DEFINE h == HomeOf(E, t)
  <1>4. h \in 1..t /\ E[h].kind # "block" /\ \A j \in 1..t : E[j].kind # "block" => j <= h
    BY <1>2, <1>3
  <1>5. E[h].kind = "function" => h > 1
    <2>. HIDE DEF h
    <2>1. E[h].kind = "function" => h # 1
      OBVIOUS
    <2> QED
      BY <1>4, <2>1
  <1>6. GlobalIn(E, t) = IF E[h].kind = "function" THEN 1 ELSE h
    BY DEF GlobalIn
  <1>. HIDE DEF h
  <1>7. 1 \in 1..t
    OBVIOUS
  <1> QED
    BY <1>4, <1>5, <1>6, <1>7 DEF h

LEMMA HomeIn ==
    ASSUME Typed, NEW i \in 1..Len(envs)
    PROVE  Home(i) = HomeOf(envs, i) /\ GlobalOf(i) = GlobalIn(envs, i) /\ Home(i) \in 1..i
  <1>1. i \in Nat /\ i > 0 /\ envs[1].kind = "global"
    BY DEF Typed
  <1>2. HomeOf(envs, i) \in 1..i
    BY <1>1, HomeType
  <1> QED
    BY <1>2 DEF Home, HomeOf, GlobalOf, GlobalIn

\* The greatest of a set of places is the one that no other exceeds.
LEMMA MaxIs ==
    ASSUME NEW n \in Nat, NEW T, T \subseteq 1..n, NEW x \in T, \A y \in T : y <= x
    PROVE  Max(T) = x
  <1>. DEFINE m == Max(T)
  <1>1. m \in T /\ \A y \in T : y <= m
    BY MaxOf
  <1>. HIDE DEF m
  <1>2. x <= m /\ m <= x /\ x \in 1..n /\ m \in 1..n
    BY <1>1
  <1>3. m = x
    BY <1>2
  <1> QED
    BY <1>3 DEF m

\* `change` finds what the name it assigns denotes, whichever way the search takes.
LEMMA Located ==
    ASSUME Typed, NEW n \in Names
    PROVE  \/ LocateWith(n) = Nowhere /\ DenotedIn(envs, Len(envs), n) = Denotes("nothing", 0)
           \/ \E i \in 1..Len(envs) : /\ LocateWith(n) = Slot(i, n)
                                      /\ DenotedIn(envs, Len(envs), n) = Denotes("variable", i)
           \/ \E i \in 1..Len(envs) : /\ LocateWith(n) = Place("member", i, n)
                                      /\ DenotedIn(envs, Len(envs), n) = Denotes("member", i)
  <1>. DEFINE top == Len(envs)  h == HomeOf(envs, top)  g == GlobalIn(envs, top)
              Has(j) == FindLocal(envs[j], n) # 0
              here == {j \in h..top : Has(j)}
              members == {j \in h..top : envs[j].with /\ n \in Members}
              holding == HoldingIn(envs, top, n)
              d == DenotedIn(envs, top, n)
  <1>1. top \in Nat /\ top > 0 /\ top \in 1..top /\ Top = top /\ envs[1].kind = "global"
    BY DEF Typed, Top
  <1>2. Home(top) = h /\ GlobalOf(top) = g
    BY <1>1, HomeIn
  <1>3. /\ h \in 1..top /\ g \in 1..top
        /\ envs[h].kind = "function" => h > 1 /\ g = 1
        /\ envs[h].kind # "function" => g = h
    BY <1>1, HomeType
  <1>4. holding = here \cup members
    BY DEF HoldingIn
  <1>5. d = IF holding # {} THEN Denotes(IF Has(Max(holding)) THEN "variable" ELSE "member", Max(holding))
            ELSE IF n \in envs[h].bridged /\ Has(g) THEN Denotes("variable", g)
            ELSE Denotes("nothing", 0)
    BY DEF DenotedIn
  <1>6. Resolve(n) = IF here # {} THEN Slot(Max(here), n)
                     ELSE IF n \in envs[h].bridged /\ Has(g) THEN Slot(g, n) ELSE Nowhere
    BY <1>1, <1>2 DEF Resolve, Bridged
  <1>7. LocateWith(n) = IF members = {} \/ Resolve(n).level >= Max(members \cup {1})
                        THEN Resolve(n) ELSE Place("member", Max(members), n)
    BY <1>1, <1>2 DEF LocateWith
  <1>8. h \in here <=> Has(h)
    BY <1>1, <1>3
  <1>. HIDE DEF top, h, g, d, holding
  <1>9. here \subseteq 1..top /\ members \subseteq 1..top /\ members \cup {1} \subseteq 1..top
    BY <1>1, <1>3
  <1>10. /\ here # {} => Max(here) \in here /\ \A y \in here : y <= Max(here)
         /\ members # {} => Max(members) \in members /\ \A y \in members : y <= Max(members)
    BY <1>1, <1>9, MaxOf
  <1>11. \A j : j \in members /\ Has(j) => j \in here
    OBVIOUS
  <1>12. \A j : j \in here => Has(j)
    OBVIOUS
  <1>13. \A j \in members : h <= j
    BY <1>3
  <1>. HIDE DEF here, members, Has
  <1>14. members # {} => Max(members \cup {1}) = Max(members)
    <2>. HAVE members # {}
    <2>. DEFINE x == Max(members)
    <2>1. x \in members /\ x \in 1..top /\ \A y \in members : y <= x
      BY <1>9, <1>10
    <2>. HIDE DEF x
    <2>2. x \in members \cup {1} /\ \A y \in members \cup {1} : y <= x
      BY <1>1, <2>1
    <2>3. Max(members \cup {1}) = x
      BY <1>1, <1>9, <2>2, MaxIs
    <2> QED
      BY <2>3 DEF x
  <1>15. \A i : Slot(i, n).level = i
    BY DEF Slot, Place
  <1>16. CASE here # {} /\ (members = {} \/ Max(here) >= Max(members))
    <2>1. Max(here) \in holding /\ \A y \in holding : y <= Max(here)
      <3>. DEFINE x == Max(here)  z == Max(members)
      <3>1. x \in here /\ \A y \in here : y <= x
        BY <1>10, <1>16
      <3>2. members = {} \/ (z \in members /\ x >= z /\ \A y \in members : y <= z)
        BY <1>10, <1>16
      <3>. HIDE DEF x, z
      <3>3. ASSUME NEW y \in members
            PROVE  y <= x
        <4>1. z \in members /\ x >= z /\ y <= z
          BY <3>2, <3>3
        <4>2. x \in 1..top /\ y \in 1..top /\ z \in 1..top
          BY <1>9, <3>1, <3>3, <4>1
        <4> QED
          BY <1>1, <4>1, <4>2
      <3> QED
        BY <1>4, <3>1, <3>3 DEF x
    <2>2. Max(holding) = Max(here)
      BY <1>1, <1>4, <1>9, <2>1, MaxIs
    <2>3. d = Denotes("variable", Max(here))
      BY <1>5, <1>10, <1>12, <1>16, <2>1, <2>2
    <2>4. LocateWith(n) = Slot(Max(here), n)
      BY <1>6, <1>7, <1>14, <1>15, <1>16
    <2> QED
      BY <1>9, <1>10, <1>16, <2>3, <2>4 DEF d, top
  <1>17. CASE here # {} /\ members # {} /\ ~(Max(here) >= Max(members))
    <2>1. Max(members) \in holding /\ \A y \in holding : y <= Max(members)
      <3>. DEFINE x == Max(here)  z == Max(members)
      <3>1. x \in here /\ \A y \in here : y <= x
        BY <1>10, <1>17
      <3>2. z \in members /\ ~(x >= z) /\ \A y \in members : y <= z
        BY <1>10, <1>17
      <3>. HIDE DEF x, z
      <3>3. ASSUME NEW y \in here
            PROVE  y <= z
        <4>1. y <= x /\ x \in 1..top /\ y \in 1..top /\ z \in 1..top
          BY <1>9, <3>1, <3>2, <3>3
        <4> QED
          BY <1>1, <3>2, <4>1
      <3> QED
        BY <1>4, <3>2, <3>3 DEF z
    <2>2. Max(holding) = Max(members)
      BY <1>1, <1>4, <1>9, <2>1, MaxIs
    <2>3. ~Has(Max(members))
      BY <1>9, <1>10, <1>11, <1>17
    <2>4. d = Denotes("member", Max(members))
      BY <1>5, <2>1, <2>2, <2>3
    <2>5. LocateWith(n) = Place("member", Max(members), n)
      BY <1>6, <1>7, <1>14, <1>15, <1>17
    <2> QED
      BY <1>9, <1>10, <1>17, <2>4, <2>5 DEF d, top
  <1>18. CASE here = {} /\ members # {}
    <2>1. Max(members) \in holding /\ \A y \in holding : y <= Max(members)
      BY <1>4, <1>10, <1>18
    <2>2. Max(holding) = Max(members)
      BY <1>1, <1>4, <1>9, <2>1, MaxIs
    <2>3. ~Has(Max(members))
      BY <1>10, <1>11, <1>18
    <2>4. d = Denotes("member", Max(members))
      BY <1>5, <2>1, <2>2, <2>3
    <2>5. ~(Resolve(n).level >= Max(members))
      <3>1. Max(members) \in 1..top /\ h <= Max(members)
        BY <1>9, <1>10, <1>13, <1>18
      <3>2. ~Has(h)
        BY <1>8, <1>18
      <3>3. CASE n \in envs[h].bridged /\ Has(g)
        <4>1. g = 1 /\ h > 1
          BY <1>3, <3>2, <3>3
        <4>2. Resolve(n).level = 1
          BY <1>6, <1>15, <1>18, <3>3, <4>1
        <4> QED
          BY <1>3, <3>1, <4>1, <4>2
      <3>4. CASE ~(n \in envs[h].bridged /\ Has(g))
        <4>1. Resolve(n).level = 0
          BY <1>6, <1>18, <3>4 DEF Nowhere
        <4> QED
          BY <3>1, <4>1
      <3> QED
        BY <3>3, <3>4
    <2>6. LocateWith(n) = Place("member", Max(members), n)
      BY <1>7, <1>14, <1>18, <2>5
    <2> QED
      BY <1>9, <1>10, <1>18, <2>4, <2>6 DEF d, top
  <1>19. CASE here = {} /\ members = {}
    <2>1. holding = {} /\ LocateWith(n) = Resolve(n)
      BY <1>4, <1>7, <1>19
    <2> QED
      BY <1>3, <1>5, <1>6, <1>19, <2>1 DEF d, top
  <1> QED
    BY <1>16, <1>17, <1>18, <1>19

\* Two environments that a search sees the same in; the values may differ.
SameView(e, f) == /\ SameSlots(e, f) /\ f.kind = e.kind /\ f.with = e.with
                  /\ f.bridged = e.bridged /\ f.constants = e.constants

LEMMA ViewSame ==
    ASSUME NEW e, NEW f, f = e
    PROVE  SameView(e, f)
  BY DEF SameView, SameSlots

\* Where the environments up to level t look the same, a name denotes the same.
LEMMA DenotedSame ==
    ASSUME NEW E, NEW F, NEW t \in Nat, t > 0, E[1].kind = "global", NEW n,
           \A i \in 1..t : SameView(E[i], F[i])
    PROVE  DenotedIn(F, t, n) = DenotedIn(E, t, n)
  <1>1. \A i \in 1..t : /\ F[i].kind = E[i].kind /\ F[i].with = E[i].with /\ F[i].bridged = E[i].bridged
                        /\ SameSlots(E[i], F[i])
    BY DEF SameView
  <1>2. \A i \in 1..t : FindLocal(F[i], n) = FindLocal(E[i], n)
    BY <1>1, FindLocalSame
  <1>3. HomeOf(F, t) = HomeOf(E, t)
    <2>1. {j \in 1..t : F[j].kind # "block"} = {j \in 1..t : E[j].kind # "block"}
      BY <1>1
    <2> QED
      BY <2>1 DEF HomeOf
  <1>. DEFINE h == HomeOf(E, t)  g == GlobalIn(E, t)
  <1>4. h \in 1..t /\ g \in 1..t
    BY HomeType
  <1>5. GlobalIn(F, t) = g
    BY <1>1, <1>3, <1>4 DEF GlobalIn
  <1>6. HoldingIn(F, t, n) = HoldingIn(E, t, n)
    <2>1. h..t \subseteq 1..t
      BY <1>4
    <2>. HIDE DEF h
    <2>2. HoldingIn(F, t, n) = {j \in h..t : FindLocal(F[j], n) # 0 \/ (F[j].with /\ n \in Members)}
      BY <1>3 DEF HoldingIn, h
    <2>3. HoldingIn(E, t, n) = {j \in h..t : FindLocal(E[j], n) # 0 \/ (E[j].with /\ n \in Members)}
      BY DEF HoldingIn, h
    <2>4. \A j \in h..t : F[j].with = E[j].with /\ FindLocal(F[j], n) = FindLocal(E[j], n)
      BY <1>1, <1>2, <2>1
    <2> QED
      BY <2>2, <2>3, <2>4
  <1>. DEFINE H == HoldingIn(E, t, n)
  <1>7. H \subseteq 1..t
    BY <1>4 DEF HoldingIn
  <1>8. H # {} => FindLocal(F[Max(H)], n) = FindLocal(E[Max(H)], n)
    <2>. HIDE DEF H
    <2>1. H # {} => Max(H) \in 1..t
      BY <1>7, MaxOf
    <2> QED
      BY <1>2, <2>1
  <1>9. F[h].bridged = E[h].bridged /\ FindLocal(F[g], n) = FindLocal(E[g], n)
    BY <1>1, <1>2, <1>4
  <1> QED
    BY <1>3, <1>5, <1>6, <1>8, <1>9 DEF DenotedIn

\* Idle: what is in evaluation is further out than the innermost environment.
LEMMA IdleBelow ==
    ASSUME Inv, ~AwaitsValue, NEW k \in 1..Len(evaluating)
    PROVE  evaluating[k].at < Len(envs)
  <1>. DEFINE n == Len(evaluating)
  <1>1. n \in Nat /\ evaluating # <<>> /\ n \in 1..n /\ evaluating \in Seq(Change)
    BY DEF Inv, Typed
  <1>2. evaluating[n].at # Len(envs)
    BY <1>1 DEF AwaitsValue, Top, Last
  <1>3. evaluating[n].at \in 1..Len(envs) /\ evaluating[k].at \in 1..Len(envs)
    BY <1>1 DEF Inv, Nesting
  <1>4. k < n => evaluating[k].at < evaluating[n].at
    BY <1>1 DEF Inv, Nesting
  <1> QED
    BY <1>1, <1>2, <1>3, <1>4 DEF Inv, Typed

\* Ended: so is what is handled.
LEMMA EndedBelow ==
    ASSUME Inv, Ended, NEW k \in 1..Len(handlers)
    PROVE  handlers[k].at < Len(envs)
  <1>. DEFINE n == Len(handlers)
  <1>1. n \in Nat /\ handlers # <<>> /\ n \in 1..n /\ handlers \in Seq(Handler)
    BY DEF Inv, Typed
  <1>2. handlers[n].at < Len(envs)
    BY <1>1 DEF Ended, Top, Last
  <1>3. handlers[n].at \in 1..Len(envs) /\ handlers[k].at \in 1..Len(envs)
    BY <1>1 DEF Inv, HandlersNest
  <1>4. k < n => handlers[k].at <= handlers[n].at
    BY <1>1 DEF Inv, HandlersNest
  <1> QED
    BY <1>1, <1>2, <1>3, <1>4 DEF Inv, Typed

\* A step that keeps the first m statements in evaluation, and the slots of the environments
\* 1..j that they are in.
LEMMA SlotsKept ==
    ASSUME Inv, Typed', NEW m \in 0..Len(evaluating), evaluating' = SubSeq(evaluating, 1, m),
           NEW j \in Nat, j <= Len(envs), j <= Len(envs'),
           \A k \in 1..m : evaluating[k].at <= j,
           \A i \in 1..j : SameView(envs[i], envs'[i]),
           \A i \in 2..(j + 1) : i <= Len(envs') =>
               envs'[i].kind = "function" \/ (i <= Len(envs) /\ envs'[i].kind = envs[i].kind)
    PROVE  Nesting' /\ SlotsStay' /\ Pending'
  <1>1. /\ Len(evaluating') = m /\ \A k \in 1..m : evaluating'[k] = evaluating[k]
        /\ evaluating \in Seq(Change) /\ \A k \in 1..m : k \in 1..Len(evaluating)
    BY DEF Inv, Typed
  <1>2. \A k \in 1..m : evaluating[k] \in Change
    BY <1>1
  <1>3. ASSUME NEW k \in 1..m
        PROVE  /\ evaluating'[k].at \in 1..Len(envs')
               /\ evaluating'[k].place.level \in 1..evaluating'[k].at
               /\ evaluating'[k].at < Len(envs') => envs'[evaluating'[k].at + 1].kind = "function"
    <2>. DEFINE a == evaluating[k].at
    <2>1. evaluating'[k] = evaluating[k] /\ k \in 1..Len(evaluating)
      BY <1>1
    <2>2. /\ a \in 1..Len(envs) /\ a <= j
          /\ evaluating[k].place.level \in 1..a
          /\ a < Len(envs) => envs[a + 1].kind = "function"
      BY <2>1 DEF Inv, Nesting
    <2>. HIDE DEF a
    <2>3. Len(envs) \in Nat /\ Len(envs') \in Nat
      BY DEF Inv, Typed
    <2>4. a \in 1..Len(envs') /\ a + 1 \in 2..(j + 1)
      BY <2>2, <2>3
    <2>5. a < Len(envs') => envs'[a + 1].kind = "function"
      BY <2>2, <2>3, <2>4
    <2> QED
      BY <2>1, <2>2, <2>4, <2>5 DEF a
  <1>4. \A i, k \in 1..m : i < k => evaluating'[i].at < evaluating'[k].at
    BY <1>1 DEF Inv, Nesting
  <1>5. Nesting'
    BY <1>1, <1>3, <1>4 DEF Nesting
  <1>6. ASSUME NEW k \in 1..m, evaluating[k].place.what = "variable"
        PROVE  LET c == evaluating[k] IN
               /\ c.place.slot = FindLocal(envs'[c.place.level], c.name)
               /\ c.place.size = Len(envs'[c.place.level].vars)
    <2>. DEFINE c == evaluating[k]  l == c.place.level
    <2>1. k \in 1..Len(evaluating) /\ k \in DOMAIN evaluating
      BY <1>1
    <2>2. c.place.slot = FindLocal(envs[l], c.name) /\ c.place.size = Len(envs[l].vars)
      BY <1>6, <2>1 DEF Inv, SlotsStay
    <2>3. l \in 1..c.at /\ c.at \in Nat /\ c.at <= j
      BY <1>2, <1>6, <2>1 DEF Inv, Nesting, Change
    <2>. HIDE DEF c, l
    <2>4. l \in 1..j
      BY <2>3
    <2>5. SameSlots(envs[l], envs'[l])
      BY <2>4 DEF SameView
    <2>6. FindLocal(envs'[l], c.name) = FindLocal(envs[l], c.name)
      BY <2>5, FindLocalSame
    <2>7. Len(envs'[l].vars) = Len(envs[l].vars)
      BY <2>5 DEF SameSlots
    <2>8. c.place.slot = FindLocal(envs'[l], c.name) /\ c.place.size = Len(envs'[l].vars)
      BY <2>2, <2>6, <2>7
    <2> QED
      BY <2>8 DEF c, l
  <1>7. SlotsStay'
    <2>1. DOMAIN evaluating' = 1..m
      BY <1>1 DEF Typed
    <2> QED
      BY <1>1, <1>6, <2>1 DEF SlotsStay
  <1>8. ASSUME NEW k \in 1..m
        PROVE  LET c == evaluating[k] IN
               /\ DenotedIn(envs', c.at, c.name) = Denotes(c.place.what, c.place.level)
               /\ c.place.what = "variable" => c.name \notin envs'[c.place.level].constants
    <2>. DEFINE c == evaluating[k]  a == c.at  l == c.place.level
    <2>1. k \in 1..Len(evaluating) /\ c \in Change
      BY <1>1, <1>2
    <2>2. /\ DenotedIn(envs, a, c.name) = Denotes(c.place.what, l)
          /\ c.place.what = "variable" => c.name \notin envs[l].constants
      BY <2>1 DEF Inv, Pending
    <2>3. a \in 1..Len(envs) /\ a <= j /\ l \in 1..a
      BY <2>1 DEF Inv, Nesting
    <2>. HIDE DEF c, a, l
    <2>4. a \in Nat /\ a > 0 /\ envs[1].kind = "global" /\ l \in 1..j
      BY <2>3 DEF Inv, Typed
    <2>5. \A i \in 1..a : SameView(envs[i], envs'[i])
      BY <2>3, <2>4
    <2>6. DenotedIn(envs', a, c.name) = DenotedIn(envs, a, c.name)
      BY <2>4, <2>5, DenotedSame
    <2>7. envs'[l].constants = envs[l].constants
      BY <2>4 DEF SameView
    <2> QED
      BY <2>2, <2>6, <2>7 DEF c, a, l
  <1>9. Pending'
    BY <1>1, <1>8 DEF Pending
  <1> QED
    BY <1>5, <1>7, <1>9

-----------------------------------------------------------------------------
(* Every action keeps the invariant. *)

\* The innermost environment is replaced by one of the same kind, which nothing in evaluation
\* is waiting in.
LEMMA TopReplaced ==
    ASSUME Inv, ~AwaitsValue, NEW e \in Env, e.kind = envs[Top].kind, Put(e),
           UNCHANGED evaluating, handlers' \in Seq(Handler)
    PROVE  Typed' /\ Nesting' /\ SlotsStay' /\ Pending' /\ Len(envs') = Len(envs)
  <1>. DEFINE n == Len(envs)
  <1>1. n \in Nat /\ n > 0 /\ envs \in Seq(Env) /\ evaluating \in Seq(Change) /\ Top = n
    BY DEF Inv, Typed, Top
  <1>2. envs' = [envs EXCEPT ![n] = e]
    BY <1>1 DEF Put
  <1>3. /\ envs' \in Seq(Env) /\ Len(envs') = n
        /\ \A i \in 1..n : envs'[i] = IF i = n THEN e ELSE envs[i]
    BY <1>1, <1>2
  <1>4. \A i \in 1..n : envs'[i].kind = envs[i].kind
    BY <1>1, <1>3
  <1>5. Typed'
    BY <1>1, <1>3, <1>4 DEF Inv, Typed
  <1>6. evaluating' = SubSeq(evaluating, 1, Len(evaluating)) /\ Len(evaluating) \in 0..Len(evaluating)
    BY <1>1
  <1>7. n - 1 \in Nat /\ n - 1 <= n
    BY <1>1
  <1>8. \A k \in 1..Len(evaluating) : evaluating[k].at <= n - 1
    <2>. TAKE k \in 1..Len(evaluating)
    <2>1. evaluating[k].at < n /\ evaluating[k].at \in Nat
      BY <1>1, IdleBelow DEF Inv, Nesting
    <2> QED
      BY <1>1, <2>1
  <1>9. \A i \in 1..(n - 1) : SameView(envs[i], envs'[i])
    BY <1>1, <1>3 DEF SameView, SameSlots
  <1>10. \A i \in 2..((n - 1) + 1) : i <= n /\ envs'[i].kind = envs[i].kind
    BY <1>1, <1>4
  <1>. HIDE DEF n
  <1>11. Nesting' /\ SlotsStay' /\ Pending'
    BY <1>3, <1>5, <1>6, <1>7, <1>8, <1>9, <1>10, SlotsKept DEF n
  <1> QED
    BY <1>3, <1>5, <1>11 DEF n

-----------------------------------------------------------------------------
(* What the language sees: scopes. *)

ScopesOf(E) == [i \in DOMAIN E |-> ScopeOf(E[i])]
ChangesOf(V) == [k \in DOMAIN V |-> [at |-> V[k].at, name |-> V[k].name]]

\* A scope, part by part.
LEMMA ScopeParts ==
    ASSUME NEW e
    PROVE  /\ ScopeOf(e).kind = e.kind /\ ScopeOf(e).with = e.with
           /\ ScopeOf(e).constants = e.constants /\ ScopeOf(e).bridged = e.bridged
           /\ DOMAIN ScopeOf(e).bound = Bound(e)
           /\ ScopeOf(e).bound = [n \in Bound(e) |-> ValueOf(e, n)]
           /\ \A n \in Bound(e) : ScopeOf(e).bound[n] = ValueOf(e, n)
           /\ ScopeOf(e) = [kind |-> e.kind, bound |-> ScopeOf(e).bound, constants |-> e.constants,
                            bridged |-> e.bridged, with |-> e.with]
  BY DEF ScopeOf, ValueOf

LEMMA BoundDef ==
    ASSUME NEW e, NEW n
    PROVE  n \in Bound(e) <=> n \in Names /\ FindLocal(e, n) # 0
  BY DEF Bound

\* Two environments that give the same value to the same names, one scope.
LEMMA SameScope ==
    ASSUME NEW e, NEW f, f.kind = e.kind, f.with = e.with, f.constants = e.constants,
           f.bridged = e.bridged, Bound(f) = Bound(e),
           \A n \in Bound(e) : ValueOf(f, n) = ValueOf(e, n)
    PROVE  ScopeOf(f) = ScopeOf(e)
  <1>1. [n \in Bound(f) |-> ValueOf(f, n)] = [n \in Bound(e) |-> ValueOf(e, n)]
    OBVIOUS
  <1> QED
    BY <1>1 DEF ScopeOf, ValueOf

\* What the language calls binding a name.
LEMMA BindsScope ==
    ASSUME NEW e, NEW n \in Names, NEW v, NEW f, Rebinds(e, n, v, f),
           f.constants = e.constants \cup {n} \/ f.constants = e.constants \ {n}
    PROVE  /\ n \in DOMAIN ScopeOf(f).bound /\ ScopeOf(f).bound[n] = v
           /\ ScopeOf(f) = Language!Bind(ScopeOf(e), n, v, n \in f.constants)
  <1>1. /\ f.kind = e.kind /\ f.with = e.with /\ f.bridged = e.bridged
        /\ FindLocal(f, n) # 0 /\ ValueOf(f, n) = v
        /\ \A m : m # n => /\ FindLocal(f, m) # 0 <=> FindLocal(e, m) # 0
                           /\ FindLocal(e, m) # 0 => ValueOf(f, m) = ValueOf(e, m)
    BY DEF Rebinds
  <1>2. Bound(f) = Bound(e) \cup {n}
    BY <1>1, BoundDef
  <1>3. \A m \in Bound(e) : m # n => ValueOf(f, m) = ValueOf(e, m)
    BY <1>1, BoundDef
  <1>. DEFINE s == ScopeOf(e)  t == ScopeOf(f)
              b == [m \in DOMAIN s.bound \cup {n} |-> IF m = n THEN v ELSE s.bound[m]]
              c == IF n \in f.constants THEN s.constants \cup {n} ELSE s.constants \ {n}
  <1>4. t.bound = b
    <2>1. t.bound = [m \in Bound(f) |-> ValueOf(f, m)] /\ DOMAIN s.bound = Bound(e)
      BY ScopeParts
    <2>2. \A m \in Bound(e) : s.bound[m] = ValueOf(e, m)
      BY ScopeParts
    <2>. HIDE DEF s, t
    <2>3. \A m \in Bound(e) \cup {n} : ValueOf(f, m) = IF m = n THEN v ELSE s.bound[m]
      BY <1>1, <1>3, <2>2
    <2> QED
      BY <1>2, <2>1, <2>3
  <1>5. t.constants = c
    BY ScopeParts
  <1>6. t = [kind |-> e.kind, bound |-> b, constants |-> c, bridged |-> e.bridged, with |-> e.with]
    <2>1. t = [kind |-> f.kind, bound |-> t.bound, constants |-> t.constants, bridged |-> f.bridged,
               with |-> f.with]
      BY ScopeParts
    <2>. HIDE DEF s, t, b, c
    <2> QED
      BY <1>1, <1>4, <1>5, <2>1
  <1>7. Language!Bind(s, n, v, n \in f.constants) = [s EXCEPT !.bound = b, !.constants = c]
    BY DEF Language!Bind
  <1>. DEFINE x == s.bound
  <1>8. s = [kind |-> e.kind, bound |-> x, constants |-> e.constants, bridged |-> e.bridged,
             with |-> e.with]
    BY ScopeParts
  <1>9. n \in DOMAIN t.bound /\ t.bound[n] = v
    BY <1>4
  <1>. HIDE DEF s, t, b, c, x
  <1>10. [s EXCEPT !.bound = b, !.constants = c]
            = [kind |-> e.kind, bound |-> b, constants |-> c, bridged |-> e.bridged, with |-> e.with]
    <2>. DEFINE r == [s EXCEPT !.bound = b]
    <2>1. [s EXCEPT !.bound = b, !.constants = c] = [r EXCEPT !.constants = c]
      OBVIOUS
    <2>2. r = [kind |-> e.kind, bound |-> b, constants |-> e.constants, bridged |-> e.bridged,
               with |-> e.with]
      BY <1>8
    <2>. HIDE DEF r
    <2> QED
      BY <2>1, <2>2
  <1> QED
    BY <1>6, <1>7, <1>9, <1>10 DEF s, t

\* A stack of scopes has one for each environment.
LEMMA ScopesType ==
    ASSUME NEW E \in Seq(Env)
    PROVE  /\ Len(ScopesOf(E)) = Len(E) /\ DOMAIN ScopesOf(E) = 1..Len(E) /\ Len(E) \in Nat
           /\ ScopesOf(E) \in Seq({ScopeOf(e) : e \in Env})
           /\ \A i \in 1..Len(E) : ScopesOf(E)[i] = ScopeOf(E[i])
  <1>. DEFINE n == Len(E)  S == {ScopeOf(e) : e \in Env}
  <1>1. n \in Nat /\ DOMAIN E = 1..n /\ \A i \in 1..n : E[i] \in Env
    OBVIOUS
  <1>2. \A i \in 1..n : ScopeOf(E[i]) \in S
    BY <1>1
  <1>. HIDE DEF n, S
  <1>3. ScopesOf(E) = [i \in 1..n |-> ScopeOf(E[i])]
    BY <1>1 DEF ScopesOf
  <1>4. ScopesOf(E) \in [1..n -> S]
    BY <1>2, <1>3
  <1>5. ScopesOf(E) \in Seq(S) /\ Len(ScopesOf(E)) = n
    BY <1>1, <1>4
  <1> QED
    BY <1>1, <1>3, <1>5 DEF n, S

LEMMA ChangesType ==
    ASSUME NEW V \in Seq(Change)
    PROVE  /\ Len(ChangesOf(V)) = Len(V) /\ DOMAIN ChangesOf(V) = 1..Len(V) /\ Len(V) \in Nat
           /\ ChangesOf(V) \in Seq([at : Nat, name : Names])
           /\ \A k \in 1..Len(V) : ChangesOf(V)[k] = [at |-> V[k].at, name |-> V[k].name]
  <1>. DEFINE n == Len(V)  S == [at : Nat, name : Names]
  <1>1. n \in Nat /\ DOMAIN V = 1..n /\ \A k \in 1..n : V[k] \in Change
    OBVIOUS
  <1>2. \A k \in 1..n : [at |-> V[k].at, name |-> V[k].name] \in S
    BY <1>1 DEF Change
  <1>. HIDE DEF n, S
  <1>3. ChangesOf(V) = [k \in 1..n |-> [at |-> V[k].at, name |-> V[k].name]]
    BY <1>1 DEF ChangesOf
  <1>4. ChangesOf(V) \in [1..n -> S]
    BY <1>2, <1>3
  <1>5. ChangesOf(V) \in Seq(S) /\ Len(ChangesOf(V)) = n
    BY <1>1, <1>4
  <1> QED
    BY <1>1, <1>3, <1>5 DEF n, S

\* Of the stack E, F has another environment at level l.
Replaced(E, F, l, e) ==
    Len(F) = Len(E) /\ \A i \in 1..Len(E) : F[i] = IF i = l THEN e ELSE E[i]

LEMMA ScopesPut ==
    ASSUME NEW E \in Seq(Env), NEW F \in Seq(Env), NEW l \in 1..Len(E), NEW e, Replaced(E, F, l, e)
    PROVE  ScopesOf(F) = [ScopesOf(E) EXCEPT ![l] = ScopeOf(e)]
  <1>. DEFINE n == Len(E)
  <1>1. /\ n \in Nat /\ DOMAIN E = 1..n /\ DOMAIN F = 1..n /\ l \in 1..n
        /\ \A i \in 1..n : F[i] = IF i = l THEN e ELSE E[i]
    BY DEF Replaced
  <1>. HIDE DEF n
  <1>2. ScopesOf(F) = [i \in 1..n |-> ScopeOf(F[i])] /\ ScopesOf(E) = [i \in 1..n |-> ScopeOf(E[i])]
    BY <1>1 DEF ScopesOf
  <1>3. \A i \in 1..n : ScopeOf(F[i]) = IF i = l THEN ScopeOf(e) ELSE ScopeOf(E[i])
    BY <1>1
  <1>. DEFINE S == ScopesOf(E)  s == ScopeOf(e)
  <1>4. /\ S = [i \in 1..n |-> S[i]] /\ DOMAIN S = 1..n
        /\ \A i \in 1..n : S[i] = ScopeOf(E[i])
    BY <1>2
  <1>. HIDE DEF S, s
  <1>5. [S EXCEPT ![l] = s] = [i \in 1..n |-> IF i = l THEN s ELSE S[i]]
    BY <1>4
  <1>6. \A i \in 1..n : ScopeOf(F[i]) = IF i = l THEN s ELSE S[i]
    BY <1>3, <1>4 DEF s
  <1>7. ScopesOf(F) = [i \in 1..n |-> IF i = l THEN s ELSE S[i]]
    BY <1>2, <1>6
  <1> QED
    BY <1>5, <1>7 DEF S, s

\* The first scopes of two stacks that have the same first environments.
LEMMA ScopesPrefix ==
    ASSUME NEW E \in Seq(Env), NEW F \in Seq(Env), NEW m \in Nat, m <= Len(E), m <= Len(F),
           \A i \in 1..m : F[i] = E[i]
    PROVE  SubSeq(ScopesOf(F), 1, m) = SubSeq(ScopesOf(E), 1, m)
  <1>. DEFINE S == ScopesOf(E)  T == ScopesOf(F)
  <1>1. /\ Len(S) = Len(E) /\ Len(T) = Len(F) /\ Len(E) \in Nat /\ Len(F) \in Nat
        /\ \A i \in 1..Len(E) : S[i] = ScopeOf(E[i])
        /\ \A i \in 1..Len(F) : T[i] = ScopeOf(F[i])
    BY ScopesType
  <1>. HIDE DEF S, T
  <1>2. \A i \in 1..m : S[i] = T[i]
    BY <1>1
  <1>3. SubSeq(S, 1, m) = [i \in 1..m |-> S[i]] /\ SubSeq(T, 1, m) = [i \in 1..m |-> T[i]]
    BY <1>1
  <1> QED
    BY <1>2, <1>3 DEF S, T

\* The language's operators on sets and sequences are those of its module.
LEMMA SameOperators ==
    /\ \A T : Language!Max(T) = Max(T)
    /\ \A T : Language!Cardinality(T) = Cardinality(T)
    /\ \A q : Language!Last(q) = Last(q) /\ Language!Front(q) = SubSeq(q, 1, Len(q) - 1)
  BY DEF Language!Max, Max, Language!Cardinality, Cardinality, Language!Last, Last, Language!Front, Front

\* What a name denotes in the innermost scope is what it denotes in the innermost environment.
LEMMA LanguageDenotes ==
    ASSUME Typed, NEW n \in Names
    PROVE  Language!Denoted(n) = DenotedIn(envs, Len(envs), n)
  <1>. DEFINE S == ScopesOf(envs)  top == Len(envs)  h == HomeOf(envs, top)  g == GlobalIn(envs, top)
  <1>1. /\ envs \in Seq(Env) /\ top \in Nat /\ top > 0 /\ envs[1].kind = "global"
    BY DEF Typed
  <1>2. /\ Len(S) = top /\ \A i \in 1..top : S[i] = ScopeOf(envs[i])
    BY <1>1, ScopesType
  <1>3. h \in 1..top /\ g \in 1..top
    BY <1>1, HomeType
  <1>. HIDE DEF S, top, h, g
  <1>4. \A i \in 1..top : /\ S[i].kind = envs[i].kind /\ S[i].with = envs[i].with
                          /\ S[i].bridged = envs[i].bridged
                          /\ n \in DOMAIN S[i].bound <=> FindLocal(envs[i], n) # 0
    <2>. TAKE i \in 1..top
    <2>. DEFINE e == envs[i]
    <2>1. S[i] = ScopeOf(e)
      BY <1>2
    <2>. HIDE DEF e
    <2>2. S[i].kind = e.kind /\ S[i].with = e.with /\ S[i].bridged = e.bridged
      BY <2>1, ScopeParts
    <2>3. DOMAIN S[i].bound = Bound(e)
      BY <2>1, ScopeParts
    <2> QED
      BY <2>2, <2>3, BoundDef DEF e
  <1>5. Language!Top = top
    BY <1>2 DEF Language!Top, S, ScopesOf
  <1>6. Language!Home(top) = h
    <2>1. Language!Home(top) = Max({j \in 1..top : S[j].kind # "block"})
      BY SameOperators DEF Language!Home, S, ScopesOf
    <2>2. {j \in 1..top : S[j].kind # "block"} = {j \in 1..top : envs[j].kind # "block"}
      BY <1>4
    <2> QED
      BY <2>1, <2>2 DEF HomeOf, h
  <1>7. Language!GlobalOf(top) = g
    <2>1. Language!GlobalOf(top) = IF S[h].kind = "function" THEN 1 ELSE h
      BY <1>6 DEF Language!GlobalOf, S, ScopesOf
    <2> QED
      BY <1>3, <1>4, <2>1 DEF GlobalIn, g, h
  <1>. DEFINE H == HoldingIn(envs, top, n)
  <1>8. Language!Holding(n) = H
    <2>1. Language!Holding(n)
            = {j \in h..top : n \in DOMAIN S[j].bound \/ (S[j].with /\ n \in Members)}
      BY <1>5, <1>6 DEF Language!Holding, Language!Seen, S, ScopesOf
    <2>2. H = {j \in h..top : FindLocal(envs[j], n) # 0 \/ (envs[j].with /\ n \in Members)}
      BY DEF HoldingIn, h
    <2>3. h..top \subseteq 1..top
      BY <1>1, <1>3
    <2>. HIDE DEF H
    <2>4. \A j \in h..top : /\ n \in DOMAIN S[j].bound <=> FindLocal(envs[j], n) # 0
                            /\ S[j].with = envs[j].with
      BY <1>4, <2>3
    <2> QED
      BY <2>1, <2>2, <2>4
  <1>9. H # {} => Max(H) \in 1..top
    <2>1. H \subseteq 1..top
      BY <1>1, <1>3 DEF HoldingIn, h
    <2>. HIDE DEF H
    <2> QED
      BY <1>1, <2>1, MaxOf
  <1>. HIDE DEF H
  <1>10. Language!Denoted(n) =
           IF H # {} THEN [what |-> IF n \in DOMAIN S[Max(H)].bound THEN "variable" ELSE "member",
                           scope |-> Max(H)]
           ELSE IF n \in S[h].bridged /\ n \in DOMAIN S[g].bound
           THEN [what |-> "variable", scope |-> g]
           ELSE [what |-> "nothing", scope |-> 0]
    BY <1>5, <1>6, <1>7, <1>8, SameOperators DEF Language!Denoted, Language!Nothing, S, ScopesOf
  <1>11. DenotedIn(envs, top, n) =
           IF H # {} THEN [what |-> IF FindLocal(envs[Max(H)], n) # 0 THEN "variable" ELSE "member",
                           scope |-> Max(H)]
           ELSE IF n \in envs[h].bridged /\ FindLocal(envs[g], n) # 0
           THEN [what |-> "variable", scope |-> g]
           ELSE [what |-> "nothing", scope |-> 0]
    BY DEF DenotedIn, Denotes, H, h, g
  <1>12. CASE H # {}
    BY <1>4, <1>9, <1>10, <1>11, <1>12 DEF top
  <1>13. CASE H = {}
    BY <1>3, <1>4, <1>10, <1>11, <1>13 DEF top
  <1> QED
    BY <1>12, <1>13

\* The innermost environment is replaced by one where a name is bound anew.
LEMMA TopRebound ==
    ASSUME Typed, Typed', NEW n \in Names, NEW v, NEW e \in Env, Rebinds(envs[Top], n, v, e), Put(e),
           e.constants = envs[Top].constants \cup {n} \/ e.constants = envs[Top].constants \ {n},
           UNCHANGED <<evaluating, fields>>
    PROVE  Language!Declare
  <1>. DEFINE S == ScopesOf(envs)  T == ScopesOf(envs')  top == Len(envs)  s == ScopeOf(e)
  <1>1. /\ envs \in Seq(Env) /\ envs' \in Seq(Env) /\ top \in Nat /\ top \in 1..top /\ Top = top
    BY DEF Typed, Top
  <1>2. Len(envs') = top /\ \A i \in 1..top : envs'[i] = IF i = top THEN e ELSE envs[i]
    BY <1>1 DEF Put
  <1>3. T = [S EXCEPT ![top] = s]
    <2>1. Replaced(envs, envs', top, e)
      BY <1>2 DEF Replaced
    <2>2. top \in 1..Len(envs)
      BY <1>1
    <2>. HIDE DEF top
    <2> QED
      BY <1>1, <2>1, <2>2, ScopesPut
  <1>4. /\ Len(S) = top /\ Len(T) = top /\ S[top] = ScopeOf(envs[top]) /\ T[top] = s
    <2>1. Len(S) = top /\ \A i \in 1..top : S[i] = ScopeOf(envs[i])
      BY <1>1, ScopesType
    <2>2. Len(T) = top /\ \A i \in 1..top : T[i] = ScopeOf(envs'[i])
      BY <1>1, <1>2, ScopesType
    <2>. HIDE DEF S, T, top
    <2> QED
      BY <1>1, <1>2, <2>1, <2>2
  <1>5. /\ n \in DOMAIN s.bound /\ s.bound[n] = v
        /\ s = Language!Bind(S[top], n, v, n \in s.constants)
    <2>1. s.constants = e.constants
      BY ScopeParts
    <2> QED
      BY <1>1, <1>4, <2>1, BindsScope
  <1>. HIDE DEF S, T, top, s
  <1>6. T = [S EXCEPT ![top] = Language!Bind(S[top], n, T[top].bound[n], n \in T[top].constants)]
    BY <1>3, <1>4, <1>5
  <1>7. Language!Top = top
    BY <1>4 DEF Language!Top, S, ScopesOf
  <1> QED
    BY <1>4, <1>5, <1>6, <1>7 DEF Language!Declare, S, T, ScopesOf

-----------------------------------------------------------------------------
(* Every action keeps the invariant, and is a step of the language. *)

\* Handlers stay where they are as long as no environment they are in goes.
LEMMA HandlersKept ==
    ASSUME Inv, NEW m \in 0..Len(handlers), handlers' = SubSeq(handlers, 1, m),
           Len(envs') \in Nat, \A k \in 1..m : handlers[k].at <= Len(envs')
    PROVE  HandlersNest' /\ handlers' \in Seq(Handler)
  <1>1. /\ handlers \in Seq(Handler)
        /\ Len(handlers') = m /\ \A k \in 1..m : handlers'[k] = handlers[k] /\ k \in 1..Len(handlers)
    BY DEF Inv, Typed
  <1>2. \A k \in 1..m : handlers'[k].at \in 1..Len(envs')
    BY <1>1 DEF Inv, HandlersNest
  <1>3. \A j, k \in 1..m : j < k => handlers'[j].at <= handlers'[k].at
    BY <1>1 DEF Inv, HandlersNest
  <1>4. handlers' \in Seq(Handler)
    BY <1>1
  <1> QED
    BY <1>1, <1>2, <1>3, <1>4 DEF HandlersNest

LEMMA HandlersSame ==
    ASSUME Inv, UNCHANGED handlers, Len(envs') \in Nat, Len(envs) <= Len(envs')
    PROVE  HandlersNest'
  <1>1. handlers \in Seq(Handler) /\ Len(envs) \in Nat
    BY DEF Inv, Typed
  <1>2. \A k \in 1..Len(handlers) : handlers[k].at \in 1..Len(envs')
    BY <1>1 DEF Inv, HandlersNest
  <1> QED
    BY <1>2 DEF Inv, HandlersNest

\* A declaration, of whatever kind: the innermost environment binds a name.
LEMMA TopBinds ==
    ASSUME Inv, ~AwaitsValue, NEW n \in Names, NEW v, NEW e, Rebinds(envs[Top], n, v, e),
           e.constants = envs[Top].constants \cup {n} \/ e.constants = envs[Top].constants \ {n},
           Put(e), UNCHANGED <<evaluating, fields>>, handlers' \in Seq(Handler)
    PROVE  /\ Typed' /\ Nesting' /\ SlotsStay' /\ Pending' /\ Len(envs') = Len(envs)
           /\ Language!Declare
  <1>1. e \in Env /\ e.kind = envs[Top].kind
    BY DEF Rebinds
  <1>2. Typed' /\ Nesting' /\ SlotsStay' /\ Pending' /\ Len(envs') = Len(envs)
    BY <1>1, TopReplaced
  <1>3. Language!Declare
    BY <1>1, <1>2, TopRebound DEF Inv
  <1> QED
    BY <1>2, <1>3

LEMMA TopType ==
    ASSUME Inv
    PROVE  envs[Top] \in Env /\ Given \subseteq Value /\ Assigned \subseteq Value /\ Empty \in Value
  BY DEF Inv, Typed, Top, Value, Values

LEMMA DeclareStep ==
    ASSUME Inv, NEW n \in Names, NEW v \in Given, NEW c \in BOOLEAN, Declare(n, v, c)
    PROVE  Inv' /\ Language!Declare
  <1>. DEFINE e == Declared(envs[Top], n, v, c)
  <1>1. envs[Top] \in Env /\ v \in Value
    BY TopType
  <1>2. Redeclares(envs[Top], n, v, c, e)
    BY <1>1, DeclaredKeeps
  <1>3. Put(e) /\ UNCHANGED <<evaluating, fields>> /\ UNCHANGED handlers /\ ~AwaitsValue
    BY DEF Declare, Idle
  <1>. HIDE DEF e
  <1>4. /\ Rebinds(envs[Top], n, v, e)
        /\ e.constants = envs[Top].constants \cup {n} \/ e.constants = envs[Top].constants \ {n}
    BY <1>2 DEF Redeclares
  <1>5. handlers' \in Seq(Handler)
    BY <1>3 DEF Inv, Typed
  <1>6. /\ Typed' /\ Nesting' /\ SlotsStay' /\ Pending' /\ Len(envs') = Len(envs)
        /\ Language!Declare
    BY <1>3, <1>4, <1>5, TopBinds
  <1>7. HandlersNest'
    BY <1>3, <1>6, HandlersSame DEF Inv, Typed
  <1> QED
    BY <1>6, <1>7 DEF Inv

LEMMA AssignLoopVarStep ==
    ASSUME Inv, NEW n \in Names, NEW v \in Given, AssignLoopVar(n, v)
    PROVE  Inv' /\ Language!Declare
  <1>. DEFINE e == Stored(envs[Top], n, v)
  <1>1. envs[Top] \in Env /\ v \in Value
    BY TopType
  <1>2. Rebinds(envs[Top], n, v, e) /\ e.constants = envs[Top].constants
    BY <1>1, StoredKeeps
  <1>3. /\ Put(e) /\ UNCHANGED <<evaluating, fields>> /\ UNCHANGED handlers /\ ~AwaitsValue
        /\ n \notin envs[Top].constants
    BY DEF AssignLoopVar, Idle
  <1>. HIDE DEF e
  <1>4. e.constants = envs[Top].constants \ {n}
    BY <1>2, <1>3
  <1>5. handlers' \in Seq(Handler)
    BY <1>3 DEF Inv, Typed
  <1>6. /\ Typed' /\ Nesting' /\ SlotsStay' /\ Pending' /\ Len(envs') = Len(envs)
        /\ Language!Declare
    BY <1>2, <1>3, <1>4, <1>5, TopBinds
  <1>7. HandlersNest'
    BY <1>3, <1>6, HandlersSame DEF Inv, Typed
  <1> QED
    BY <1>6, <1>7 DEF Inv

\* `global` changes an environment further in than what is in evaluation: calls start anew.
LEMMA DeclareGlobalStep ==
    ASSUME Inv, NEW n \in Names, DeclareGlobal(n)
    PROVE  Inv' /\ Language!Bridge
  <1>. DEFINE h == HomeOf(envs, Len(envs))  top == Len(envs)
              e == [envs[h] EXCEPT !.bridged = envs[h].bridged \cup {n}]
  <1>1. /\ envs \in Seq(Env) /\ Top = top /\ top \in Nat /\ top \in 1..top /\ Typed /\ top > 0
        /\ envs[1].kind = "global" /\ evaluating \in Seq(Change)
    BY DEF Inv, Typed, Top
  <1>2. h \in 1..top /\ Home(Top) = h /\ \A j \in 1..top : envs[j].kind # "block" => j <= h
    BY <1>1, HomeIn, HomeType
  <1>3. /\ envs' = [envs EXCEPT ![h] = e]
        /\ UNCHANGED <<evaluating, fields>> /\ UNCHANGED handlers /\ ~AwaitsValue
    BY <1>2 DEF DeclareGlobal, Idle
  <1>. HIDE DEF h
  <1>4. envs[h] \in Env
    BY <1>1, <1>2
  <1>5. /\ e \in Env /\ e.kind = envs[h].kind
        /\ ScopeOf(e) = [ScopeOf(envs[h]) EXCEPT !.bridged = ScopeOf(envs[h]).bridged \cup {n}]
    <2>. DEFINE x == envs[h]  b == x.bridged \cup {n}
    <2>1. x \in EnvRecord /\ Coherent(x)
      BY <1>4, EnvParts
    <2>2. b \in SUBSET Names
      BY <2>1 DEF EnvRecord
    <2>3. e = [x EXCEPT !.bridged = b]
      OBVIOUS
    <2>. HIDE DEF x, e
    <2>4. /\ e \in EnvRecord /\ e.kind = x.kind /\ e.vars = x.vars /\ e.index = x.index
          /\ e.constants = x.constants /\ e.with = x.with /\ e.bridged = b
      BY <2>1, <2>2, <2>3 DEF EnvRecord
    <2>5. e \in Env
      <3>1. Coherent(e)
        BY <2>1, <2>4 DEF Coherent
      <3> QED
        BY <2>4, <3>1 DEF Env
    <2>6. \A m : FindLocal(e, m) = FindLocal(x, m) /\ ValueOf(e, m) = ValueOf(x, m)
      BY <2>4 DEF FindLocal, ValueOf
    <2>7. Bound(e) = Bound(x)
      BY <2>6, BoundDef
    <2>8. [m \in Bound(e) |-> ValueOf(e, m)] = [m \in Bound(x) |-> ValueOf(x, m)]
      BY <2>6, <2>7
    <2>9. ScopeOf(e) = [ScopeOf(x) EXCEPT !.bridged = ScopeOf(x).bridged \cup {n}]
      <3>. DEFINE B == [m \in Bound(x) |-> ValueOf(x, m)]
      <3>1. ScopeOf(x) = [kind |-> x.kind, bound |-> B, constants |-> x.constants,
                          bridged |-> x.bridged, with |-> x.with]
        BY DEF ScopeOf, ValueOf
      <3>2. ScopeOf(e) = [kind |-> e.kind, bound |-> [m \in Bound(e) |-> ValueOf(e, m)],
                          constants |-> e.constants, bridged |-> e.bridged, with |-> e.with]
        BY DEF ScopeOf, ValueOf
      <3>3. ScopeOf(e) = [kind |-> x.kind, bound |-> B, constants |-> x.constants,
                          bridged |-> b, with |-> x.with]
        BY <2>4, <2>8, <3>2
      <3>. HIDE DEF B, b
      <3>4. ScopeOf(x).bridged = x.bridged
        BY <3>1
      <3>5. [ScopeOf(x) EXCEPT !.bridged = b]
              = [kind |-> x.kind, bound |-> B, constants |-> x.constants, bridged |-> b, with |-> x.with]
        BY <3>1
      <3> QED
        BY <3>3, <3>4, <3>5 DEF b
    <2> QED
      BY <2>4, <2>5, <2>9 DEF x
  <1>. HIDE DEF e
  <1>6. envs' \in Seq(Env) /\ Replaced(envs, envs', h, e)
    BY <1>1, <1>2, <1>3, <1>5 DEF Replaced
  <1>7. Len(envs') = top /\ \A i \in 1..top : envs'[i] = IF i = h THEN e ELSE envs[i]
    BY <1>6 DEF Replaced
  <1>8. \A i \in 1..top : envs'[i].kind = envs[i].kind
    BY <1>5, <1>7
  <1>9. Typed'
    BY <1>1, <1>3, <1>6, <1>7, <1>8 DEF Inv, Typed
  <1>10. \A k \in 1..Len(evaluating) : evaluating[k].at <= h - 1
    <2>. TAKE k \in 1..Len(evaluating)
    <2>. DEFINE a == evaluating[k].at
    <2>1. a < top
      BY <1>3, IdleBelow
    <2>2. a \in 1..top /\ (a < top => envs[a + 1].kind = "function")
      BY DEF Inv, Nesting
    <2>. HIDE DEF a, top
    <2>3. a + 1 \in 1..top /\ envs[a + 1].kind # "block"
      BY <1>1, <2>1, <2>2
    <2>4. a + 1 <= h
      BY <1>2, <2>3
    <2>5. a <= h - 1
      BY <1>1, <1>2, <2>2, <2>4
    <2> QED
      BY <2>5 DEF a
  <1>11. h - 1 \in Nat /\ h - 1 <= top
    BY <1>1, <1>2
  <1>12. \A i \in 1..(h - 1) : SameView(envs[i], envs'[i])
    <2>1. \A i \in 1..(h - 1) : i \in 1..top /\ i # h
      BY <1>1, <1>2
    <2> QED
      BY <1>7, <2>1, ViewSame
  <1>13. \A i \in 2..((h - 1) + 1) : i <= top /\ envs'[i].kind = envs[i].kind
    <2>1. \A i \in 2..((h - 1) + 1) : i \in 1..top
      BY <1>1, <1>2
    <2> QED
      BY <1>8, <2>1
  <1>14. evaluating' = SubSeq(evaluating, 1, Len(evaluating)) /\ Len(evaluating) \in 0..Len(evaluating)
    BY <1>1, <1>3
  <1>15. Nesting' /\ SlotsStay' /\ Pending'
    <2>. HIDE DEF top
    <2> QED
      BY <1>7, <1>9, <1>10, <1>11, <1>12, <1>13, <1>14, SlotsKept DEF top
  <1>16. HandlersNest'
    BY <1>1, <1>3, <1>7, HandlersSame
  <1>17. Language!Bridge
    <2>. DEFINE S == ScopesOf(envs)  T == ScopesOf(envs')
    <2>1. T = [S EXCEPT ![h] = ScopeOf(e)]
      <3>1. h \in 1..Len(envs)
        BY <1>2
      <3> QED
        BY <1>1, <1>6, <3>1, ScopesPut
    <2>2. Len(S) = top /\ Len(T) = top /\ S[h] = ScopeOf(envs[h]) /\ T[h] = ScopeOf(e)
      BY <1>1, <1>2, <1>6, <1>7, ScopesType
    <2>3. n \in T[h].bridged
      <3>1. ScopeOf(e).bridged = e.bridged
        BY ScopeParts
      <3>2. envs[h] \in EnvRecord
        BY <1>4, EnvParts
      <3>3. n \in e.bridged
        BY <3>2 DEF e, EnvRecord
      <3> QED
        BY <2>2, <3>1, <3>3
    <2>. HIDE DEF S, T, top
    <2>4. T = [S EXCEPT ![h].bridged = S[h].bridged \cup {n}]
      BY <1>5, <2>1, <2>2
    <2>5. Language!Top = top
      BY <2>2 DEF Language!Top, S, ScopesOf
    <2>6. Language!Home(top) = h
      <3>1. Language!Home(top) = Max({j \in 1..top : S[j].kind # "block"})
        BY SameOperators DEF Language!Home, S, ScopesOf
      <3>2. \A j \in 1..top : S[j].kind = envs[j].kind
        BY <1>1, ScopesType, ScopeParts DEF S, top
      <3>3. {j \in 1..top : S[j].kind # "block"} = {j \in 1..top : envs[j].kind # "block"}
        BY <3>2
      <3> QED
        BY <3>1, <3>3 DEF HomeOf, h, top
    <2> QED
      BY <1>3, <2>2, <2>3, <2>4, <2>5, <2>6 DEF Language!Bridge, S, T, ScopesOf
  <1> QED
    BY <1>9, <1>15, <1>16, <1>17 DEF Inv

\* A name that denotes something other than a constant may be changed.
LEMMA ChangeAllowed ==
    ASSUME Typed, NEW n \in Names, NEW what \in {"variable", "member"}, NEW i \in 1..Len(envs),
           DenotedIn(envs, Len(envs), n) = Denotes(what, i),
           what = "variable" => n \notin envs[i].constants
    PROVE  /\ Language!Changeable(n)
           /\ Language!Denoted(n).what = what /\ Language!Denoted(n).scope = i
  <1>1. Language!Denoted(n) = [what |-> what, scope |-> i]
    BY LanguageDenotes DEF Denotes
  <1>2. ScopesOf(envs)[i] = ScopeOf(envs[i])
    BY ScopesType DEF Typed
  <1>3. ScopesOf(envs)[i].constants = envs[i].constants
    BY <1>2, ScopeParts
  <1>4. Language!Denoted(n) # Language!Nothing
    BY <1>1 DEF Language!Nothing
  <1> QED
    BY <1>1, <1>3, <1>4 DEF Language!Changeable, ScopesOf

LEMMA BeginChangeStep ==
    ASSUME Inv, NEW n \in Names, BeginChange(n)
    PROVE  Inv' /\ Language!StartChange
  <1>. DEFINE place == LocateWith(n)  c == [at |-> Top, name |-> n, place |-> place]
              m == Len(evaluating)  top == Len(envs)
  <1>1. /\ place # Nowhere /\ evaluating' = Append(evaluating, c) /\ ~AwaitsValue
        /\ UNCHANGED <<envs, fields>> /\ UNCHANGED handlers
        /\ ~IsConstant(place, n)
    BY DEF BeginChange, Idle
  <1>2. /\ m \in Nat /\ evaluating \in Seq(Change) /\ Top = top /\ top \in Nat
        /\ top \in 1..top /\ envs \in Seq(Env) /\ Typed
    BY DEF Inv, Typed, Top
  <1>3. PICK i \in 1..top :
           \/ place = Slot(i, n) /\ DenotedIn(envs, top, n) = Denotes("variable", i)
           \/ place = Place("member", i, n) /\ DenotedIn(envs, top, n) = Denotes("member", i)
    BY <1>1, <1>2, Located
  <1>4. envs[i] \in Env
    BY <1>2
  <1>5. /\ place \in [what : {"variable", "member"}, level : Nat, slot : Nat, size : Nat]
        /\ place.level = i /\ place.slot = FindLocal(envs[i], n) /\ place.size = Len(envs[i].vars)
        /\ DenotedIn(envs, top, n) = Denotes(place.what, i)
        /\ place.what = "variable" => n \notin envs[i].constants
    <2>1. FindLocal(envs[i], n) \in Nat /\ Len(envs[i].vars) \in Nat /\ i \in Nat
      BY <1>4, EnvParts, Found
    <2>2. place = [what |-> place.what, level |-> i, slot |-> FindLocal(envs[i], n),
                   size |-> Len(envs[i].vars)]
          /\ place.what \in {"variable", "member"}
      BY <1>3 DEF Slot, Place
    <2>3. DenotedIn(envs, top, n) = Denotes(place.what, i)
      BY <1>3 DEF Slot, Place
    <2>. HIDE DEF place
    <2>4. place.what = "variable" => n \notin envs[i].constants
      BY <1>1, <2>2 DEF IsConstant
    <2> QED
      BY <2>1, <2>2, <2>3, <2>4
  <1>. HIDE DEF place
  <1>6. c \in Change /\ c.at = top /\ c.name = n /\ c.place = place
    BY <1>2, <1>5 DEF Change
  <1>. HIDE DEF c
  <1>7. /\ evaluating' \in Seq(Change) /\ Len(evaluating') = m + 1
        /\ \A k \in 1..m : evaluating'[k] = evaluating[k]
        /\ evaluating'[m + 1] = c
    BY <1>1, <1>2, <1>6
  <1>8. \A k : k \in 1..(m + 1) <=> k \in 1..m \/ k = m + 1
    BY <1>2
  <1>9. Typed'
    BY <1>1, <1>7 DEF Inv, Typed
  <1>10. \A k \in 1..m : evaluating[k].at < top
    BY <1>1, IdleBelow
  <1>. HIDE DEF m, top
  <1>11. Nesting'
    <2>1. \A k \in 1..(m + 1) :
             /\ evaluating'[k].at \in 1..top
             /\ evaluating'[k].place.level \in 1..evaluating'[k].at
             /\ evaluating'[k].at < top => envs[evaluating'[k].at + 1].kind = "function"
      <3>. TAKE k \in 1..(m + 1)
      <3>1. CASE k \in 1..m
        BY <1>7, <3>1 DEF Inv, Nesting, m, top
      <3>2. CASE k = m + 1
        BY <1>2, <1>3, <1>5, <1>6, <1>7, <3>2
      <3> QED
        BY <1>8, <3>1, <3>2
    <2>2. \A j, k \in 1..(m + 1) : j < k => evaluating'[j].at < evaluating'[k].at
      <3>. TAKE j, k \in 1..(m + 1)
      <3>. HAVE j < k
      <3>1. j \in 1..m
        BY <1>2
      <3>2. CASE k \in 1..m
        BY <1>7, <3>1, <3>2 DEF Inv, Nesting, m
      <3>3. CASE k = m + 1
        BY <1>6, <1>7, <1>10, <3>1, <3>3
      <3> QED
        BY <1>8, <3>2, <3>3
    <2> QED
      BY <1>1, <1>7, <2>1, <2>2 DEF Nesting, top
  <1>12. SlotsStay'
    <2>1. DOMAIN evaluating' = 1..(m + 1) /\ DOMAIN evaluating = 1..m
      BY <1>2, <1>7 DEF m
    <2>2. \A k \in 1..m : evaluating'[k].place.what = "variable" =>
             /\ evaluating'[k].place.slot = FindLocal(envs[evaluating'[k].place.level], evaluating'[k].name)
             /\ evaluating'[k].place.size = Len(envs[evaluating'[k].place.level].vars)
      BY <1>7, <2>1 DEF Inv, SlotsStay
    <2>3. /\ c.place.slot = FindLocal(envs[c.place.level], c.name)
          /\ c.place.size = Len(envs[c.place.level].vars)
      BY <1>5, <1>6
    <2> QED
      BY <1>1, <1>7, <1>8, <2>1, <2>2, <2>3 DEF SlotsStay
  <1>13. Pending'
    <2>. DEFINE Ok(x) == /\ DenotedIn(envs, x.at, x.name) = Denotes(x.place.what, x.place.level)
                         /\ x.place.what = "variable" => x.name \notin envs[x.place.level].constants
    <2>1. \A k \in 1..m : Ok(evaluating[k])
      BY DEF Inv, Pending, m
    <2>2. Ok(c)
      BY <1>5, <1>6
    <2>. HIDE DEF Ok
    <2>3. \A k \in 1..(m + 1) : Ok(evaluating'[k])
      BY <1>7, <1>8, <2>1, <2>2
    <2> QED
      BY <1>1, <1>7, <2>3 DEF Pending, Ok
  <1>14. HandlersNest'
    BY <1>1 DEF Inv, HandlersNest
  <1>15. Language!StartChange
    <2>. DEFINE C == ChangesOf(evaluating)  D == ChangesOf(evaluating')  x == [at |-> top, name |-> n]
    <2>1. /\ Len(C) = m /\ Len(D) = m + 1 /\ C \in Seq([at : Nat, name : Names])
          /\ D \in Seq([at : Nat, name : Names])
          /\ \A k \in 1..m : C[k] = [at |-> evaluating[k].at, name |-> evaluating[k].name]
          /\ \A k \in 1..(m + 1) : D[k] = [at |-> evaluating'[k].at, name |-> evaluating'[k].name]
      BY <1>2, <1>7, ChangesType DEF m
    <2>2. D[m + 1] = x /\ \A k \in 1..m : D[k] = C[k]
      <3>1. D[m + 1] = x
        BY <1>2, <1>6, <1>7, <1>8, <2>1
      <3>2. \A k \in 1..m : D[k] = C[k]
        BY <1>7, <1>8, <2>1
      <3> QED
        BY <3>1, <3>2
    <2>3. Language!Changeable(n)
      BY <1>2, <1>3, <1>5, ChangeAllowed DEF top
    <2>4. Language!Top = top
      BY <1>2, ScopesType DEF Language!Top, ScopesOf, top
    <2>5. x \in [at : Nat, name : Names] /\ x.name = n
      BY <1>2
    <2>. HIDE DEF C, D, x
    <2>6. D = Append(C, x)
      <3>1. /\ Append(C, x) \in Seq([at : Nat, name : Names]) /\ Len(Append(C, x)) = m + 1
            /\ \A k \in 1..m : Append(C, x)[k] = C[k]
            /\ Append(C, x)[m + 1] = x
        BY <1>2, <2>1, <2>5, Push
      <3>2. \A k \in 1..Len(D) : D[k] = Append(C, x)[k]
        BY <1>8, <2>1, <2>2, <3>1
      <3> QED
        BY <2>1, <3>1, <3>2, SeqEqual
    <2>7. Last(D) = x
      BY <2>1, <2>2 DEF Last
    <2> QED
      BY <1>1, <2>1, <2>3, <2>4, <2>5, <2>6, <2>7, SameOperators
         DEF Language!StartChange, C, D, ChangesOf, x
  <1> QED
    BY <1>9, <1>11, <1>12, <1>13, <1>14, <1>15 DEF Inv

\* The statements in evaluation that are left, as the language sees them.
LEMMA ChangesFront ==
    ASSUME NEW V \in Seq(Change), NEW m \in 0..Len(V)
    PROVE  ChangesOf(SubSeq(V, 1, m)) = SubSeq(ChangesOf(V), 1, m)
  <1>. DEFINE C == ChangesOf(V)  W == SubSeq(V, 1, m)
  <1>1. /\ Len(C) = Len(V) /\ Len(V) \in Nat
        /\ \A k \in 1..Len(V) : C[k] = [at |-> V[k].at, name |-> V[k].name]
    BY ChangesType
  <1>2. m \in Nat /\ m <= Len(V) /\ DOMAIN W = 1..m /\ \A k \in 1..m : W[k] = V[k]
    BY <1>1
  <1>. HIDE DEF C, W
  <1>3. \A k \in 1..m : [at |-> W[k].at, name |-> W[k].name] = C[k]
    BY <1>1, <1>2
  <1>4. SubSeq(C, 1, m) = [k \in 1..m |-> C[k]]
    BY <1>1, <1>2
  <1>5. ChangesOf(W) = [k \in 1..m |-> [at |-> W[k].at, name |-> W[k].name]]
    BY <1>2 DEF ChangesOf
  <1> QED
    BY <1>3, <1>4, <1>5 DEF C, W

\* A name that denotes a variable of an environment has one there.
LEMMA DenotedBound ==
    ASSUME NEW E, NEW t \in Nat, t > 0, E[1].kind = "global", NEW n, NEW i,
           DenotedIn(E, t, n) = Denotes("variable", i)
    PROVE  FindLocal(E[i], n) # 0
  <1>. DEFINE H == HoldingIn(E, t, n)  x == Max(H)  d == DenotedIn(E, t, n)  g == GlobalIn(E, t)
  <1>1. d.what = "variable" /\ d.scope = i
    BY DEF Denotes
  <1>2. d = IF H # {} THEN Denotes(IF FindLocal(E[x], n) # 0 THEN "variable" ELSE "member", x)
            ELSE IF n \in E[HomeOf(E, t)].bridged /\ FindLocal(E[g], n) # 0
            THEN Denotes("variable", g) ELSE Denotes("nothing", 0)
    BY DEF DenotedIn
  <1>. HIDE DEF H, x, d, g
  <1> QED
    BY <1>1, <1>2 DEF Denotes

\* What the language calls assigning a variable.
LEMMA AssignsScope ==
    ASSUME NEW e, NEW n \in Names, NEW v, NEW f, Rebinds(e, n, v, f),
           f.constants = e.constants, FindLocal(e, n) # 0
    PROVE  ScopeOf(f) = [ScopeOf(e) EXCEPT !.bound[n] = v]
  <1>. DEFINE s == ScopeOf(e)  t == ScopeOf(f)  x == s.bound  b == [x EXCEPT ![n] = v]
  <1>1. /\ f.kind = e.kind /\ f.with = e.with /\ f.bridged = e.bridged
        /\ FindLocal(f, n) # 0 /\ ValueOf(f, n) = v
        /\ \A m : m # n => /\ FindLocal(f, m) # 0 <=> FindLocal(e, m) # 0
                           /\ FindLocal(e, m) # 0 => ValueOf(f, m) = ValueOf(e, m)
    BY DEF Rebinds
  <1>2. Bound(f) = Bound(e) /\ n \in Bound(e)
    BY <1>1, BoundDef
  <1>3. \A m \in Bound(e) : ValueOf(f, m) = IF m = n THEN v ELSE ValueOf(e, m)
    BY <1>1, BoundDef
  <1>4. x = [m \in Bound(e) |-> ValueOf(e, m)] /\ t.bound = [m \in Bound(f) |-> ValueOf(f, m)]
    BY ScopeParts
  <1>5. s = [kind |-> e.kind, bound |-> x, constants |-> e.constants, bridged |-> e.bridged,
             with |-> e.with]
    BY ScopeParts
  <1>6. t = [kind |-> f.kind, bound |-> t.bound, constants |-> f.constants, bridged |-> f.bridged,
             with |-> f.with]
    BY ScopeParts
  <1>7. [ScopeOf(e) EXCEPT !.bound[n] = v] = [s EXCEPT !.bound = b]
    OBVIOUS
  <1>. HIDE DEF s, t, x
  <1>8. t.bound = b
    BY <1>2, <1>3, <1>4
  <1>. HIDE DEF b
  <1>9. [s EXCEPT !.bound = b] = [kind |-> e.kind, bound |-> b, constants |-> e.constants,
                                  bridged |-> e.bridged, with |-> e.with]
    BY <1>5
  <1> QED
    BY <1>1, <1>6, <1>7, <1>8, <1>9 DEF t

\* The innermost statement in evaluation is over, and what a search sees is as before.
LEMMA ChangeOver ==
    ASSUME Inv, Typed', AwaitsValue, evaluating' = SubSeq(evaluating, 1, Len(evaluating) - 1),
           UNCHANGED handlers, Len(envs') = Len(envs),
           \A i \in 1..Len(envs) : SameView(envs[i], envs'[i])
    PROVE  Inv'
  <1>. DEFINE m == Len(evaluating) - 1  top == Len(envs)
  <1>1. /\ Len(evaluating) \in Nat /\ Len(evaluating) > 0 /\ top \in Nat /\ m \in 0..Len(evaluating)
    BY DEF Inv, Typed, AwaitsValue
  <1>2. \A k \in 1..m : evaluating[k].at <= top
    <2>. TAKE k \in 1..m
    <2>1. k \in 1..Len(evaluating)
      BY <1>1
    <2>2. evaluating[k].at \in 1..top
      BY <2>1 DEF Inv, Nesting
    <2> QED
      BY <1>1, <2>2
  <1>3. \A i \in 2..(top + 1) : i <= Len(envs') => i <= top /\ envs'[i].kind = envs[i].kind
    BY <1>1 DEF SameView
  <1>4. evaluating' = SubSeq(evaluating, 1, m) /\ top <= Len(envs) /\ top <= Len(envs')
        /\ \A i \in 1..top : SameView(envs[i], envs'[i])
    BY <1>1
  <1>. HIDE DEF m, top
  <1>5. \A i \in 2..(top + 1) : i <= Len(envs') =>
           envs'[i].kind = "function" \/ (i <= Len(envs) /\ envs'[i].kind = envs[i].kind)
    BY <1>3 DEF top
  <1>6. Nesting' /\ SlotsStay' /\ Pending'
    BY <1>1, <1>2, <1>4, <1>5, SlotsKept
  <1>7. HandlersNest'
    BY <1>1, HandlersSame DEF top
  <1> QED
    BY <1>6, <1>7 DEF Inv

\* `change` writes through the pointer it kept; the name denotes that variable now too.
LEMMA FinishChangeStep ==
    ASSUME Inv, NEW v \in Assigned, FinishChange(v)
    PROVE  Inv' /\ Language!EndChange
  <1>. DEFINE m == Len(evaluating)  c == evaluating[m]  l == c.place.level  n == c.name
              top == Len(envs)  what == c.place.what
  <1>1. /\ envs \in Seq(Env) /\ top \in Nat /\ top > 0 /\ evaluating \in Seq(Change) /\ Typed
        /\ m \in Nat /\ m > 0 /\ m \in 1..m /\ m - 1 \in 0..m /\ v \in Value /\ v \in Values
        /\ envs[1].kind = "global" /\ Top = top
    <2>1. /\ envs \in Seq(Env) /\ top > 0 /\ evaluating \in Seq(Change) /\ Typed
          /\ envs[1].kind = "global" /\ Top = top
      BY DEF Inv, Typed, Top
    <2>2. evaluating # <<>>
      BY DEF FinishChange, AwaitsValue
    <2>3. top \in Nat /\ m \in Nat /\ m > 0
      BY <2>1, <2>2
    <2>4. v \in Value /\ v \in Values
      BY DEF Value, Values
    <2>. HIDE DEF m
    <2> QED
      BY <2>1, <2>3, <2>4
  <1>2. /\ evaluating' = SubSeq(evaluating, 1, m - 1) /\ UNCHANGED handlers
        /\ AwaitsValue /\ Last(evaluating) = c /\ c.at = top
    BY <1>1 DEF FinishChange, Front, AwaitsValue, Last
  <1>3. evaluating' \in Seq(Change)
    BY <1>1, <1>2, Pop
  <1>4. c \in Change
    BY <1>1
  <1>5. n \in Names /\ what \in {"variable", "member"}
    BY <1>4 DEF Change
  <1>6. l \in 1..top
    <2>1. l \in 1..c.at
      BY <1>1 DEF Inv, Nesting
    <2> QED
      BY <1>2, <2>1
  <1>7. /\ DenotedIn(envs, top, n) = Denotes(what, l)
        /\ what = "variable" => n \notin envs[l].constants
    BY <1>1, <1>2 DEF Inv, Pending
  <1>8. /\ what = "member" => fields' = [fields EXCEPT ![n] = v] /\ UNCHANGED envs
        /\ what # "member" =>
              envs' = [envs EXCEPT ![l].vars[c.place.slot].value = v] /\ UNCHANGED fields
    BY <1>2 DEF FinishChange
  <1>9. /\ Language!Changeable(n)
        /\ Language!Denoted(n).what = what /\ Language!Denoted(n).scope = l
    <2>. HIDE DEF what, l, n
    <2>1. l \in 1..Len(envs)
      BY <1>6
    <2> QED
      BY <1>1, <1>5, <1>7, <2>1, ChangeAllowed
  <1>10. /\ ChangesOf(evaluating') = SubSeq(ChangesOf(evaluating), 1, m - 1)
         /\ Len(ChangesOf(evaluating)) = m /\ ChangesOf(evaluating)[m].at = top
         /\ ChangesOf(evaluating)[m].name = n /\ ChangesOf(evaluating) # <<>>
    <2>1. ChangesOf(evaluating') = SubSeq(ChangesOf(evaluating), 1, m - 1)
      BY <1>1, <1>2, ChangesFront
    <2>2. /\ Len(ChangesOf(evaluating)) = m
          /\ ChangesOf(evaluating)[m] = [at |-> c.at, name |-> c.name]
      BY <1>1, ChangesType
    <2>3. ChangesOf(evaluating) # <<>>
      BY <1>1, <2>2
    <2> QED
      BY <1>2, <2>1, <2>2, <2>3
  <1>11. Language!Top = top
    BY <1>1, ScopesType DEF Language!Top, ScopesOf
  <1>12. CASE what = "member"
    <2>1. UNCHANGED envs /\ fields' = [fields EXCEPT ![n] = v]
      BY <1>8, <1>12
    <2>2. Typed'
      BY <1>2, <1>3, <2>1 DEF Inv, Typed
    <2>3. \A i \in 1..Len(envs) : SameView(envs[i], envs'[i])
      BY <2>1, ViewSame
    <2>4. Inv'
      BY <1>2, <2>1, <2>2, <2>3, ChangeOver
    <2>. HIDE DEF m, c, l, n, top, what
    <2>. DEFINE C == ChangesOf(evaluating)  D == ChangesOf(evaluating')
    <2>5. C # <<>> /\ D = Language!Front(C) /\ Language!Last(C).at = top /\ Language!Last(C).name = n
      BY <1>10, SameOperators DEF Last
    <2>. HIDE DEF C, D
    <2>6. Language!EndChange
      BY <1>1, <1>9, <1>11, <1>12, <2>1, <2>5 DEF Language!EndChange, C, D, ChangesOf, ScopesOf
    <2> QED
      BY <2>4, <2>6
  <1>13. CASE what = "variable"
    <2>. DEFINE e == envs[l]  f == Stored(e, n, v)
    <2>1. e \in Env
      BY <1>1, <1>6
    <2>2. FindLocal(e, n) # 0
      <3>. HIDE DEF n, l, top
      <3> QED
        BY <1>1, <1>7, <1>13, DenotedBound
    <2>3. c.place.slot = FindLocal(e, n)
      <3>1. m \in DOMAIN evaluating
        BY <1>1
      <3> QED
        BY <1>13, <3>1 DEF Inv, SlotsStay
    <2>4. f = [e EXCEPT !.vars = Written(e.vars, c.place.slot, v)]
      BY <2>2, <2>3 DEF Stored, Written
    <2>5. envs' = [envs EXCEPT ![l] = f] /\ UNCHANGED fields
      BY <1>8, <1>13, <2>4 DEF Written
    <2>6. Rebinds(e, n, v, f) /\ f.constants = e.constants
      <3>. HIDE DEF e, n
      <3> QED
        BY <1>1, <1>5, <2>1, StoredKeeps
    <2>7. SameView(e, f)
      <3>. DEFINE w == Written(e.vars, c.place.slot, v)
      <3>1. e.vars \in Seq(Variable)
        BY <2>1, EnvParts
      <3>2. w \in Seq(Variable) /\ Len(w) = Len(e.vars)
            /\ \A i \in 1..Len(e.vars) : w[i].name = e.vars[i].name
        <4>. DEFINE x == e.vars  p == c.place.slot
        <4>1. w = Written(x, p, v) /\ x \in Seq(Variable) /\ v \in Value
          BY <1>1, <3>1
        <4>. HIDE DEF x, p, w
        <4>2. w \in Seq(Variable) /\ Len(w) = Len(x) /\ \A i \in 1..Len(x) : w[i].name = x[i].name
          BY <4>1, WriteValue
        <4> QED
          BY <4>2 DEF x
      <3>3. f = [e EXCEPT !.vars = w]
        BY <2>4
      <3>. HIDE DEF e, w
      <3>4. SameSlots(e, f)
        BY <2>1, <3>2, <3>3, OtherValues
      <3> QED
        BY <2>6, <3>4 DEF Rebinds, SameView
    <2>. HIDE DEF f
    <2>8. f \in Env
      BY <2>6 DEF Rebinds
    <2>9. envs' \in Seq(Env) /\ Replaced(envs, envs', l, f)
      <3>. HIDE DEF l
      <3> QED
        BY <1>1, <1>6, <2>5, <2>8 DEF Replaced
    <2>. HIDE DEF m, c, l, n, top, what
    <2>10. Len(envs') = top /\ \A i \in 1..top : envs'[i] = IF i = l THEN f ELSE envs[i]
      BY <2>9 DEF Replaced, top
    <2>11. \A i \in 1..top : SameView(envs[i], envs'[i])
      BY <2>7, <2>10, ViewSame
    <2>12. Typed'
      <3>1. envs'[1].kind = "global"
        BY <1>1, <2>11 DEF SameView
      <3> QED
        BY <1>1, <1>2, <1>3, <2>9, <2>10, <3>1 DEF Typed
    <2>13. Inv'
      BY <1>2, <2>10, <2>11, <2>12, ChangeOver DEF top, m
    <2>. DEFINE C == ChangesOf(evaluating)  D == ChangesOf(evaluating')
                S == ScopesOf(envs)  T == ScopesOf(envs')
    <2>14. C # <<>> /\ D = Language!Front(C) /\ Language!Last(C).at = top /\ Language!Last(C).name = n
      BY <1>10, SameOperators DEF Last
    <2>15. T = [S EXCEPT ![l].bound[n] = v]
      <3>1. T = [S EXCEPT ![l] = ScopeOf(f)]
        BY <1>1, <1>6, <2>9, ScopesPut DEF top
      <3>2. S[l] = ScopeOf(e)
        BY <1>1, <1>6, ScopesType DEF top
      <3>3. ScopeOf(f) = [ScopeOf(e) EXCEPT !.bound[n] = v]
        <4>. HIDE DEF e
        <4> QED
          BY <1>5, <2>2, <2>6, AssignsScope
      <3>. HIDE DEF S, T
      <3> QED
        BY <3>1, <3>2, <3>3
    <2>. HIDE DEF C, D, S, T
    <2>16. Language!EndChange
      BY <1>1, <1>9, <1>11, <1>13, <2>5, <2>14, <2>15
         DEF Language!EndChange, C, D, ChangesOf, S, T, ScopesOf
    <2> QED
      BY <2>13, <2>16
  <1> QED
    BY <1>5, <1>12, <1>13

\* What an environment holds when it begins.
Fresh(e) == /\ e \in Env /\ e.kind \in {"function", "block", "module"}
            /\ e.constants = {} /\ e.bridged = {}
            /\ IF e.kind = "function" THEN Bound(e) \in Signatures ELSE Bound(e) = {}
            /\ e.with = (e.kind = "block")

\* An environment more.  Above a statement in evaluation it is a function's.
LEMMA Entered ==
    ASSUME Inv, NEW e, Fresh(e), envs' = Append(envs, e),
           UNCHANGED <<evaluating, fields>>, UNCHANGED handlers, e.kind = "function" \/ ~AwaitsValue
    PROVE  Inv' /\ Language!Enter
  <1>. DEFINE n == Len(envs)
  <1>1. /\ n \in Nat /\ n > 0 /\ envs \in Seq(Env) /\ evaluating \in Seq(Change) /\ e \in Env
    BY DEF Inv, Typed, Fresh
  <1>2. /\ envs' \in Seq(Env) /\ Len(envs') = n + 1
        /\ \A i \in 1..n : envs'[i] = envs[i]
        /\ envs'[n + 1] = e
    BY <1>1
  <1>3. Typed'
    BY <1>1, <1>2 DEF Inv, Typed
  <1>4. evaluating' = SubSeq(evaluating, 1, Len(evaluating)) /\ Len(evaluating) \in 0..Len(evaluating)
    BY <1>1
  <1>5. \A i \in 1..n : SameView(envs[i], envs'[i]) /\ envs'[i].kind = envs[i].kind
    BY <1>2, ViewSame
  <1>6. Nesting' /\ SlotsStay' /\ Pending'
    <2>1. CASE e.kind = "function"
      <3>1. \A k \in 1..Len(evaluating) : evaluating[k].at <= n
        BY <1>1 DEF Inv, Nesting
      <3>2. \A i \in 2..(n + 1) :
                envs'[i].kind = "function" \/ (i <= n /\ envs'[i].kind = envs[i].kind)
        <4>. TAKE i \in 2..(n + 1)
        <4>1. CASE i = n + 1
          BY <1>2, <2>1, <4>1
        <4>2. CASE i # n + 1
          <5>1. i \in 1..n
            BY <1>1, <4>2
          <5> QED
            BY <1>1, <1>5, <5>1
        <4> QED
          BY <4>1, <4>2
      <3>. HIDE DEF n
      <3>3. n <= Len(envs) /\ n <= Len(envs')
        BY <1>1, <1>2 DEF n
      <3> QED
        BY <1>1, <1>3, <1>4, <1>5, <3>1, <3>2, <3>3, SlotsKept DEF n
    <2>2. CASE ~AwaitsValue
      <3>1. \A k \in 1..Len(evaluating) : evaluating[k].at <= n - 1
        <4>. TAKE k \in 1..Len(evaluating)
        <4>1. evaluating[k].at < n /\ evaluating[k].at \in Nat
          BY <1>1, <2>2, IdleBelow DEF Inv, Nesting
        <4> QED
          BY <1>1, <4>1
      <3>2. \A i \in 2..((n - 1) + 1) : i <= n /\ envs'[i].kind = envs[i].kind
        BY <1>1, <1>5
      <3>3. n - 1 \in Nat /\ n - 1 <= n /\ n - 1 <= Len(envs')
            /\ \A i \in 1..(n - 1) : SameView(envs[i], envs'[i])
        BY <1>1, <1>2, <1>5
      <3>. HIDE DEF n
      <3> QED
        BY <1>3, <1>4, <3>1, <3>2, <3>3, SlotsKept DEF n
    <2> QED
      BY <2>1, <2>2
  <1>7. HandlersNest'
    BY <1>1, <1>2, HandlersSame
  <1>8. Language!Enter
    <2>. DEFINE S == ScopesOf(envs)  T == ScopesOf(envs')  new == ScopeOf(e)
    <2>1. /\ Len(S) = n /\ S \in Seq({ScopeOf(x) : x \in Env})
          /\ \A i \in 1..n : S[i] = ScopeOf(envs[i])
      BY <1>1, ScopesType
    <2>2. /\ Len(T) = n + 1 /\ T \in Seq({ScopeOf(x) : x \in Env})
          /\ \A i \in 1..(n + 1) : T[i] = ScopeOf(envs'[i])
      BY <1>2, ScopesType
    <2>3. T[n + 1] = new /\ \A i \in 1..n : T[i] = S[i]
      <3>1. n + 1 \in 1..(n + 1) /\ \A i \in 1..n : i \in 1..(n + 1)
        BY <1>1
      <3> QED
        BY <1>2, <2>1, <2>2, <3>1
    <2>4. /\ new = [kind |-> new.kind, bound |-> new.bound, constants |-> {}, bridged |-> {},
                    with |-> new.with]
          /\ new.kind = e.kind /\ new.with = e.with /\ DOMAIN new.bound = Bound(e)
          /\ Bound(e) = {} => new.bound = [x \in {} |-> Empty]
      <3>1. /\ e.constants = {} /\ e.bridged = {}
        BY DEF Fresh
      <3>2. /\ new.kind = e.kind /\ new.with = e.with /\ DOMAIN new.bound = Bound(e)
            /\ new.bound = [x \in Bound(e) |-> ValueOf(e, x)]
            /\ new = [kind |-> e.kind, bound |-> new.bound, constants |-> e.constants,
                      bridged |-> e.bridged, with |-> e.with]
        BY ScopeParts
      <3>. HIDE DEF new
      <3>3. Bound(e) = {} => new.bound = [x \in {} |-> Empty]
        BY <3>2
      <3> QED
        BY <3>1, <3>2, <3>3
    <2>. HIDE DEF n, S, T, new
    <2>5. SubSeq(T, 1, (n + 1) - 1) = S
      <3>1. /\ SubSeq(T, 1, (n + 1) - 1) \in Seq({ScopeOf(x) : x \in Env})
            /\ Len(SubSeq(T, 1, (n + 1) - 1)) = (n + 1) - 1
            /\ \A i \in 1..((n + 1) - 1) : SubSeq(T, 1, (n + 1) - 1)[i] = T[i]
        BY <1>1, <2>2, Pop
      <3>2. (n + 1) - 1 = n
        BY <1>1
      <3> QED
        BY <2>1, <2>3, <3>1, <3>2, SeqEqual
    <2>6. Language!Front(T) = S /\ Language!Last(T) = new
      BY <2>2, <2>3, <2>5, SameOperators DEF Last
    <2>7. Language!Top = n
      BY <2>1 DEF Language!Top, S, ScopesOf
    <2>8. /\ new = Language!Scope(new.kind, new.bound, new.with)
          /\ new.kind \in {"function", "block", "module"}
          /\ IF new.kind = "function" THEN DOMAIN new.bound \in Signatures
             ELSE new.bound = Language!Unbound
          /\ new.with = (new.kind = "block")
      <3>1. new = Language!Scope(new.kind, new.bound, new.with)
        BY <2>4 DEF Language!Scope
      <3>2. IF new.kind = "function" THEN DOMAIN new.bound \in Signatures
            ELSE new.bound = Language!Unbound
        BY <2>4 DEF Fresh, Language!Unbound
      <3>3. new.kind \in {"function", "block", "module"} /\ new.with = (new.kind = "block")
        BY <2>4 DEF Fresh
      <3> QED
        BY <3>1, <3>2, <3>3
    <2> QED
      BY <2>2, <2>6, <2>7, <2>8 DEF Language!Enter, S, T, ScopesOf
  <1> QED
    BY <1>3, <1>6, <1>7, <1>8 DEF Inv

\* The storage that a call adopts is as good as none.
LEMMA AdoptedType ==
    ASSUME NEW e, e = Adopted(Environment("function", FALSE))
    PROVE  /\ e \in Env /\ e.kind = "function" /\ e.with = FALSE /\ e.constants = {}
           /\ e.bridged = {} /\ \A n : FindLocal(e, n) = 0
  <1>. DEFINE fresh == Environment("function", FALSE)
  <1>1. fresh.vars = <<>>
    BY DEF Environment
  <1>2. e = fresh \/ e = [fresh EXCEPT !.vars = <<>>]
    BY DEF Adopted, Cleared
  <1>3. e = [fresh EXCEPT !.vars = <<>>] => e = fresh
    BY DEF Environment
  <1>4. /\ fresh \in Env /\ fresh.kind = "function" /\ fresh.with = FALSE /\ fresh.constants = {}
        /\ fresh.bridged = {} /\ \A n : FindLocal(fresh, n) = 0
    BY EnvironmentType
  <1>5. e = fresh
    BY <1>2, <1>3
  <1>. HIDE DEF fresh
  <1> QED
    BY <1>4, <1>5

\* A call starts with its parameters only, whatever storage it adopts.
LEMMA CallStep ==
    ASSUME Inv, NEW P \in Signatures, NEW v \in Given, Call(Arguments(P, v))
    PROVE  Inv' /\ Language!Enter
  <1>. DEFINE params == Arguments(P, v)
              entries == [k \in DOMAIN params |->
                  [name |-> params[k].name, value |-> params[k].value, constant |-> FALSE]]
              e == Adopted(Environment("function", FALSE))
              f == DeclaredAll(e, entries)
  <1>1. PICK n \in Nat :
           /\ DOMAIN params = 1..n
           /\ \A k \in 1..n : params[k].name \in P /\ params[k].value = v
           /\ \A j, k \in 1..n : params[j].name = params[k].name => j = k
           /\ \A m \in P : \E k \in 1..n : params[k].name = m
           /\ P \subseteq Names
    BY ArgumentsType
  <1>2. envs' = Append(envs, f) /\ UNCHANGED <<evaluating, fields>> /\ UNCHANGED handlers
    BY DEF Call
  <1>3. /\ e \in Env /\ e.kind = "function" /\ e.with = FALSE /\ e.constants = {}
        /\ e.bridged = {} /\ \A n1 : FindLocal(e, n1) = 0
    BY AdoptedType
  <1>. HIDE DEF params, e
  <1>4. /\ DOMAIN entries = 1..n
        /\ \A k \in 1..n : /\ entries[k].name = params[k].name /\ entries[k].value = params[k].value
                           /\ entries[k].constant = FALSE
    BY <1>1
  <1>. HIDE DEF entries
  <1>5. /\ \A k \in 1..n : /\ entries[k].name \in Names /\ entries[k].value \in Value
                           /\ entries[k].constant \in BOOLEAN
        /\ \A j, k \in 1..n : entries[j].name = entries[k].name => j = k
    BY <1>1, <1>4 DEF Value, Values
  <1>6. Extends(e, entries, n, f)
    BY <1>3, <1>4, <1>5, DeclaredAllKeeps
  <1>. HIDE DEF f
  <1>7. /\ f \in Env /\ f.kind = "function" /\ f.with = FALSE /\ f.bridged = {}
        /\ \A i \in 1..n : /\ FindLocal(f, entries[i].name) # 0
                           /\ entries[i].name \notin f.constants
        /\ \A m : (\A i \in 1..n : entries[i].name # m) =>
                      FindLocal(f, m) = 0 /\ m \notin f.constants
    <2>1. /\ f \in Env /\ f.kind = "function" /\ f.with = FALSE /\ f.bridged = {}
      BY <1>3, <1>6 DEF Extends
    <2>2. \A i \in 1..n : /\ FindLocal(f, entries[i].name) # 0
                          /\ entries[i].name \notin f.constants
      BY <1>4, <1>6 DEF Extends
    <2>3. \A m : (\A i \in 1..n : entries[i].name # m) => FindLocal(f, m) = 0 /\ m \notin f.constants
      BY <1>3, <1>6 DEF Extends
    <2> QED
      BY <2>1, <2>2, <2>3
  <1>8. f.constants = {}
    BY <1>7
  <1>9. Bound(f) = P
    <2>1. ASSUME NEW m \in P PROVE m \in Bound(f)
      <3>1. PICK k \in 1..n : entries[k].name = m
        BY <1>1, <1>4
      <3>2. FindLocal(f, m) # 0 /\ m \in Names
        BY <1>1, <1>7, <3>1
      <3> QED
        BY <3>2, BoundDef
    <2>2. ASSUME NEW m \in Bound(f) PROVE m \in P
      <3>1. FindLocal(f, m) # 0
        BY BoundDef
      <3>2. PICK k \in 1..n : entries[k].name = m
        BY <1>7, <3>1
      <3> QED
        BY <1>1, <1>4, <3>2
    <2> QED
      BY <2>1, <2>2
  <1>10. Fresh(f)
    BY <1>7, <1>8, <1>9 DEF Fresh
  <1> QED
    BY <1>2, <1>7, <1>10, Entered

LEMMA OpenWithStep ==
    ASSUME Inv, OpenWith
    PROVE  Inv' /\ Language!Enter
  <1>. DEFINE e == Environment("block", TRUE)
  <1>1. /\ e \in Env /\ e.kind = "block" /\ e.with = TRUE /\ e.constants = {} /\ e.bridged = {}
        /\ \A n : FindLocal(e, n) = 0
    BY EnvironmentType
  <1>2. /\ envs' = Append(envs, e) /\ UNCHANGED <<evaluating, fields>> /\ UNCHANGED handlers
        /\ ~AwaitsValue
    BY DEF OpenWith, Idle
  <1>. HIDE DEF e
  <1>3. Fresh(e)
    BY <1>1, BoundDef DEF Fresh
  <1> QED
    BY <1>2, <1>3, Entered

LEMMA BeginModuleStep ==
    ASSUME Inv, BeginModule
    PROVE  Inv' /\ Language!Enter
  <1>. DEFINE e == Environment("module", FALSE)
  <1>1. /\ e \in Env /\ e.kind = "module" /\ e.with = FALSE /\ e.constants = {} /\ e.bridged = {}
        /\ \A n : FindLocal(e, n) = 0
    BY EnvironmentType
  <1>2. /\ envs' = Append(envs, e) /\ UNCHANGED <<evaluating, fields>> /\ UNCHANGED handlers
        /\ ~AwaitsValue
    BY DEF BeginModule, Idle
  <1>. HIDE DEF e
  <1>3. Fresh(e)
    BY <1>1, BoundDef DEF Fresh
  <1> QED
    BY <1>2, <1>3, Entered

\* The innermost environment goes.
LEMMA Left ==
    ASSUME Inv, Ended, envs[Top].kind # "global", envs' = Front(envs),
           UNCHANGED <<evaluating, fields>>, UNCHANGED handlers
    PROVE  Inv' /\ Language!Leave
  <1>. DEFINE n == Len(envs)
  <1>1. /\ n \in Nat /\ n > 0 /\ envs \in Seq(Env) /\ evaluating \in Seq(Change)
        /\ handlers \in Seq(Handler) /\ envs[1].kind = "global" /\ Top = n /\ ~AwaitsValue
    BY DEF Inv, Typed, Top, Ended, Idle
  <1>2. n > 1 /\ n - 1 \in Nat
    BY <1>1
  <1>3. envs' \in Seq(Env) /\ Len(envs') = n - 1 /\ \A i \in 1..(n - 1) : envs'[i] = envs[i]
    <2>1. envs' = SubSeq(envs, 1, n - 1)
      BY DEF Front
    <2> QED
      BY <1>1, <2>1, Pop
  <1>4. Typed'
    <2>1. envs'[1].kind = "global" /\ Len(envs') > 0
      <3>1. 1 \in 1..(n - 1) /\ n - 1 > 0
        BY <1>2
      <3> QED
        BY <1>1, <1>3, <3>1
    <2>2. evaluating' \in Seq(Change) /\ handlers' \in Seq(Handler)
      BY <1>1
    <2>. HIDE DEF n
    <2> QED
      BY <1>3, <2>1, <2>2 DEF Typed
  <1>5. evaluating' = SubSeq(evaluating, 1, Len(evaluating)) /\ Len(evaluating) \in 0..Len(evaluating)
    BY <1>1
  <1>6. \A k \in 1..Len(evaluating) : evaluating[k].at <= n - 1 /\ evaluating[k].at < n
    <2>. TAKE k \in 1..Len(evaluating)
    <2>1. evaluating[k].at < n
      BY <1>1, IdleBelow
    <2>2. evaluating[k].at \in Nat
      BY <1>1 DEF Inv, Nesting
    <2> QED
      BY <1>1, <2>1, <2>2
  <1>7. \A i \in 1..(n - 1) : SameView(envs[i], envs'[i])
    BY <1>3, ViewSame
  <1>8. \A i \in 2..((n - 1) + 1) : i <= Len(envs') =>
           envs'[i].kind = "function" \/ (i <= n /\ envs'[i].kind = envs[i].kind)
    <2>. TAKE i \in 2..((n - 1) + 1)
    <2>. HAVE i <= Len(envs')
    <2>1. i \in 1..(n - 1) /\ i <= n
      BY <1>1, <1>2, <1>3
    <2>2. envs'[i] = envs[i]
      BY <1>3, <2>1
    <2> QED
      BY <2>1, <2>2
  <1>9. n - 1 <= n
    BY <1>1
  <1>10. HandlersNest'
    <2>1. handlers' = SubSeq(handlers, 1, Len(handlers)) /\ Len(handlers) \in 0..Len(handlers)
      BY <1>1
    <2>2. \A k \in 1..Len(handlers) : handlers[k].at <= n - 1
      <3>. TAKE k \in 1..Len(handlers)
      <3>1. handlers[k].at < n /\ handlers[k].at \in Nat
        BY <1>1, EndedBelow DEF Inv, HandlersNest
      <3> QED
        BY <1>1, <3>1
    <2> QED
      BY <1>2, <1>3, <2>1, <2>2, HandlersKept
  <1>11. Nesting' /\ SlotsStay' /\ Pending'
    <2>. DEFINE j == n - 1
    <2>1. /\ j \in Nat /\ j <= Len(envs) /\ j <= Len(envs')
          /\ \A k \in 1..Len(evaluating) : evaluating[k].at <= j
          /\ \A i \in 1..j : SameView(envs[i], envs'[i])
      BY <1>2, <1>3, <1>6, <1>7, <1>9
    <2>2. \A i \in 2..(j + 1) : i <= Len(envs') =>
             envs'[i].kind = "function" \/ (i <= Len(envs) /\ envs'[i].kind = envs[i].kind)
      BY <1>8
    <2>. HIDE DEF j
    <2> QED
      BY <1>4, <1>5, <2>1, <2>2, SlotsKept
  <1>. HIDE DEF n
  <1>12. Language!Leave
    <2>. DEFINE S == ScopesOf(envs)  T == ScopesOf(envs')  C == ChangesOf(evaluating)
    <2>1. Len(S) = n /\ S \in Seq({ScopeOf(x) : x \in Env})
      BY <1>1, ScopesType DEF n
    <2>2. Len(T) = n - 1 /\ T \in Seq({ScopeOf(x) : x \in Env})
      BY <1>3, ScopesType
    <2>3. SubSeq(T, 1, n - 1) = SubSeq(S, 1, n - 1)
      <3>. DEFINE j == n - 1
      <3>1. j \in Nat /\ j <= Len(envs) /\ j <= Len(envs') /\ \A i \in 1..j : envs'[i] = envs[i]
        BY <1>2, <1>3, <1>9 DEF n
      <3>. HIDE DEF j
      <3>2. SubSeq(T, 1, j) = SubSeq(S, 1, j)
        BY <1>1, <1>3, <3>1, ScopesPrefix
      <3> QED
        BY <3>2 DEF j
    <2>4. /\ Len(C) = Len(evaluating)
          /\ \A k \in 1..Len(evaluating) : C[k].at < n
      <3>1. /\ Len(C) = Len(evaluating)
            /\ \A k \in 1..Len(evaluating) :
                  C[k] = [at |-> evaluating[k].at, name |-> evaluating[k].name]
        BY <1>1, ChangesType
      <3>. HIDE DEF C
      <3>2. \A k \in 1..Len(evaluating) : C[k].at = evaluating[k].at
        <4>. TAKE k \in 1..Len(evaluating)
        <4>. DEFINE a == evaluating[k].at  m == evaluating[k].name
        <4>1. C[k] = [at |-> a, name |-> m]
          BY <3>1
        <4>. HIDE DEF a, m
        <4>2. C[k].at = a
          BY <4>1
        <4> QED
          BY <4>2 DEF a
      <3> QED
        BY <1>6, <3>1, <3>2
    <2>. HIDE DEF S, T, C
    <2>5. T = Language!Front(S)
      <3>1. SubSeq(T, 1, n - 1) = T
        BY <2>2
      <3> QED
        BY <2>1, <2>3, <3>1, SameOperators
    <2>6. Language!Top = n
      BY <2>1 DEF Language!Top, S, ScopesOf
    <2> QED
      BY <2>2, <2>4, <2>5, <2>6 DEF Language!Leave, S, T, C, ScopesOf, ChangesOf
  <1> QED
    BY <1>4, <1>10, <1>11, <1>12 DEF Inv

LEMMA ReturnStep ==
    ASSUME Inv, Return
    PROVE  Inv' /\ Language!Leave
  <1>1. envs[Top].kind # "global"
    BY DEF Return
  <1> QED
    BY <1>1, Left DEF Return

LEMMA CloseBlockStep ==
    ASSUME Inv, CloseBlock
    PROVE  Inv' /\ Language!Leave
  <1>1. envs[Top].kind # "global"
    BY DEF CloseBlock
  <1> QED
    BY <1>1, Left DEF CloseBlock

\* A module's variables as the declarations that bring them into the environment that loads it.
EntriesOf(g) == [k \in DOMAIN g.vars |-> [name |-> g.vars[k].name, value |-> g.vars[k].value,
                                          constant |-> g.vars[k].name \in g.constants]]

\* What the language calls importing a module.
Imported(s, t) ==
    [s EXCEPT !.bound = [n \in DOMAIN @ \cup DOMAIN t.bound |->
                            IF n \in DOMAIN t.bound THEN t.bound[n] ELSE @[n]],
              !.constants = (@ \ DOMAIN t.bound) \cup t.constants]

LEMMA ImportsScope ==
    ASSUME NEW e \in Env, NEW g \in Env, NEW f, f = DeclaredAll(e, EntriesOf(g))
    PROVE  /\ f \in Env /\ f.kind = e.kind
           /\ ScopeOf(f) = Imported(ScopeOf(e), ScopeOf(g))
  <1>. DEFINE entries == EntriesOf(g)  size == Len(g.vars)
  <1>1. /\ g.vars \in Seq(Variable) /\ size \in Nat /\ Coherent(g) /\ g \in EnvRecord
        /\ \A i \in 1..size : g.vars[i] \in Variable
        /\ \A i, j \in 1..size : g.vars[i].name = g.vars[j].name => i = j
        /\ \A n \in g.constants : \E i \in 1..size : g.vars[i].name = n
    <2>1. /\ g.vars \in Seq(Variable) /\ size \in Nat /\ Coherent(g) /\ g \in EnvRecord
          /\ \A i \in 1..size : g.vars[i] \in Variable
      BY EnvParts
    <2> QED
      BY <2>1 DEF Coherent
  <1>2. /\ DOMAIN entries = 1..size
        /\ \A k \in 1..size :
              entries[k] = [name |-> g.vars[k].name, value |-> g.vars[k].value,
                            constant |-> g.vars[k].name \in g.constants]
    BY <1>1 DEF EntriesOf
  <1>3. ASSUME NEW k \in 1..size
        PROVE  /\ entries[k].name = g.vars[k].name /\ entries[k].value = g.vars[k].value
               /\ entries[k].constant <=> g.vars[k].name \in g.constants
               /\ entries[k].name \in Names /\ entries[k].value \in Value
               /\ entries[k].constant \in BOOLEAN
    <2>. DEFINE x == g.vars[k].name  y == g.vars[k].value  z == g.vars[k].name \in g.constants
    <2>1. x \in Names /\ y \in Value /\ z \in BOOLEAN
      BY <1>1 DEF Variable
    <2>2. entries[k] = [name |-> x, value |-> y, constant |-> z]
      BY <1>2
    <2>. HIDE DEF x, y, z, entries
    <2>3. entries[k].name = x /\ entries[k].value = y /\ entries[k].constant = z
      BY <2>2
    <2>4. entries[k].constant <=> g.vars[k].name \in g.constants
      BY <2>3 DEF z
    <2>5. entries[k].constant \in BOOLEAN
      BY <2>1, <2>3
    <2> QED
      BY <2>1, <2>3, <2>4, <2>5 DEF x, y
  <1>. HIDE DEF entries, size
  <1>4. Extends(e, entries, size, f)
    <2>1. \A j, k \in 1..size : entries[j].name = entries[k].name => j = k
      BY <1>1, <1>3
    <2>2. f = DeclaredAll(e, entries)
      BY DEF entries
    <2> QED
      BY <1>1, <1>2, <1>3, <2>1, <2>2, DeclaredAllKeeps
  <1>5. /\ f \in Env /\ f.kind = e.kind /\ f.with = e.with /\ f.bridged = e.bridged
        /\ \A i \in 1..size : /\ FindLocal(f, g.vars[i].name) # 0
                              /\ ValueOf(f, g.vars[i].name) = g.vars[i].value
                              /\ g.vars[i].name \in f.constants <=> g.vars[i].name \in g.constants
        /\ \A m : (\A i \in 1..size : g.vars[i].name # m) =>
              /\ FindLocal(f, m) # 0 <=> FindLocal(e, m) # 0
              /\ FindLocal(e, m) # 0 => ValueOf(f, m) = ValueOf(e, m)
              /\ m \in f.constants <=> m \in e.constants
    <2>1. /\ f \in Env /\ f.kind = e.kind /\ f.with = e.with /\ f.bridged = e.bridged
          /\ \A i \in 1..size : /\ FindLocal(f, entries[i].name) # 0
                                /\ ValueOf(f, entries[i].name) = entries[i].value
                                /\ entries[i].name \in f.constants <=> entries[i].constant
          /\ \A m : (\A i \in 1..size : entries[i].name # m) =>
                /\ FindLocal(f, m) # 0 <=> FindLocal(e, m) # 0
                /\ FindLocal(e, m) # 0 => ValueOf(f, m) = ValueOf(e, m)
                /\ m \in f.constants <=> m \in e.constants
      BY <1>4 DEF Extends
    <2> QED
      BY <1>3, <2>1
  <1>6. \A i \in 1..size : /\ FindLocal(g, g.vars[i].name) # 0
                           /\ ValueOf(g, g.vars[i].name) = g.vars[i].value
    <2>. TAKE i \in 1..size
    <2>1. FindLocal(g, g.vars[i].name) = i
      BY Found DEF size
    <2> QED
      BY <1>1, <2>1 DEF ValueOf
  <1>7. \A n : FindLocal(g, n) # 0 => \E i \in 1..size : g.vars[i].name = n
    <2>. TAKE n
    <2>. HAVE FindLocal(g, n) # 0
    <2>1. FindLocal(g, n) \in 1..size /\ g.vars[FindLocal(g, n)].name = n
      BY <1>1, Found DEF size
    <2> QED
      BY <2>1
  <1>8. \A n : n \in Bound(g) <=> \E i \in 1..size : g.vars[i].name = n
    BY <1>1, <1>6, <1>7, BoundDef DEF Variable
  <1>9. \A n \in Bound(g) : /\ FindLocal(f, n) # 0 /\ ValueOf(f, n) = ValueOf(g, n)
                            /\ n \in f.constants <=> n \in g.constants
    BY <1>5, <1>6, <1>8
  <1>10. \A n : n \notin Bound(g) =>
              /\ FindLocal(f, n) # 0 <=> FindLocal(e, n) # 0
              /\ FindLocal(e, n) # 0 => ValueOf(f, n) = ValueOf(e, n)
              /\ n \in f.constants <=> n \in e.constants
    BY <1>5, <1>8
  <1>11. Bound(f) = Bound(e) \cup Bound(g)
    BY <1>9, <1>10, BoundDef
  <1>12. \A n \in Bound(f) : ValueOf(f, n) = IF n \in Bound(g) THEN ValueOf(g, n) ELSE ValueOf(e, n)
    BY <1>9, <1>10, BoundDef
  <1>13. \A n \in g.constants : n \in Bound(g)
    BY <1>1, <1>8
  <1>14. f.constants = (e.constants \ Bound(g)) \cup g.constants
    BY <1>9, <1>10, <1>13
  <1>. DEFINE s == ScopeOf(e)  t == ScopeOf(g)  r == ScopeOf(f)  x == s.bound  y == t.bound
              b == [n \in DOMAIN x \cup DOMAIN y |-> IF n \in DOMAIN y THEN y[n] ELSE x[n]]
              c == (s.constants \ DOMAIN y) \cup t.constants
  <1>15. /\ DOMAIN x = Bound(e) /\ \A n \in Bound(e) : x[n] = ValueOf(e, n)
         /\ DOMAIN y = Bound(g) /\ \A n \in Bound(g) : y[n] = ValueOf(g, n)
         /\ s.constants = e.constants /\ t.constants = g.constants
         /\ s = [kind |-> e.kind, bound |-> x, constants |-> e.constants, bridged |-> e.bridged,
                 with |-> e.with]
    BY ScopeParts
  <1>16. /\ r.bound = [n \in Bound(f) |-> ValueOf(f, n)]
         /\ r = [kind |-> f.kind, bound |-> r.bound, constants |-> f.constants,
                 bridged |-> f.bridged, with |-> f.with]
    BY ScopeParts
  <1>17. Imported(s, t) = [s EXCEPT !.bound = b, !.constants = c]
    BY DEF Imported
  <1>. HIDE DEF s, t, r, x, y
  <1>18. r.bound = b
    <2>1. DOMAIN x \cup DOMAIN y = Bound(f)
      BY <1>11, <1>15
    <2>2. \A n \in Bound(f) : ValueOf(f, n) = IF n \in DOMAIN y THEN y[n] ELSE x[n]
      BY <1>11, <1>12, <1>15
    <2> QED
      BY <1>16, <2>1, <2>2
  <1>19. f.constants = c
    BY <1>14, <1>15
  <1>. HIDE DEF b, c
  <1>20. [s EXCEPT !.bound = b, !.constants = c]
            = [kind |-> e.kind, bound |-> b, constants |-> c, bridged |-> e.bridged, with |-> e.with]
    <2>. DEFINE q == [s EXCEPT !.bound = b]
    <2>1. [s EXCEPT !.bound = b, !.constants = c] = [q EXCEPT !.constants = c]
      OBVIOUS
    <2>2. q = [kind |-> e.kind, bound |-> b, constants |-> e.constants, bridged |-> e.bridged,
               with |-> e.with]
      BY <1>15
    <2>. HIDE DEF q
    <2> QED
      BY <2>1, <2>2
  <1> QED
    BY <1>5, <1>16, <1>17, <1>18, <1>19, <1>20 DEF s, t, r

\* The environment of the `use` statement grows, and nothing in evaluation is in it.
LEMMA EndModuleStep ==
    ASSUME Inv, EndModule
    PROVE  Inv' /\ Language!Import
  <1>. DEFINE n == Len(envs)  g == envs[n]  e == DeclaredAll(envs[n - 1], EntriesOf(g))
  <1>1. /\ n \in Nat /\ n > 0 /\ envs \in Seq(Env) /\ evaluating \in Seq(Change)
        /\ handlers \in Seq(Handler) /\ envs[1].kind = "global" /\ Top = n
    BY DEF Inv, Typed, Top
  <1>2. /\ envs[n].kind = "module" /\ ~AwaitsValue /\ Ended
        /\ UNCHANGED <<evaluating, fields>> /\ UNCHANGED handlers
    BY <1>1 DEF EndModule, Ended, Idle
  <1>3. n > 1 /\ n - 1 \in 1..n /\ n - 2 \in Nat /\ n \in 1..n /\ n - 2 <= n - 1 /\ n - 2 <= n
    BY <1>1, <1>2
  <1>4. g \in Env /\ envs[n - 1] \in Env
    BY <1>1, <1>3
  <1>5. Front(envs) \in Seq(Env) /\ Len(Front(envs)) = n - 1
        /\ \A i \in 1..(n - 1) : Front(envs)[i] = envs[i]
    <2>. DEFINE b == SubSeq(envs, 1, n - 1)
    <2>1. b \in Seq(Env) /\ Len(b) = n - 1 /\ \A i \in 1..(n - 1) : b[i] = envs[i]
      BY <1>1, Pop
    <2> QED
      BY <2>1 DEF Front
  <1>6. envs' = [Front(envs) EXCEPT ![n - 1] = DeclaredAll(Front(envs)[n - 1], EntriesOf(g))]
    BY <1>1 DEF EndModule, UserOf, EntriesOf
  <1>7. envs' = [Front(envs) EXCEPT ![n - 1] = e]
    <2>1. n - 1 \in 1..(n - 1)
      BY <1>1, <1>3
    <2>2. Front(envs)[n - 1] = envs[n - 1]
      BY <1>5, <2>1
    <2> QED
      BY <1>6, <2>2
  <1>8. /\ e \in Env /\ e.kind = envs[n - 1].kind
        /\ ScopeOf(e) = Imported(ScopeOf(envs[n - 1]), ScopeOf(g))
    <2>. HIDE DEF g
    <2> QED
      BY <1>4, ImportsScope
  <1>. HIDE DEF e, g
  <1>9. /\ envs' \in Seq(Env) /\ Len(envs') = n - 1
        /\ \A i \in 1..(n - 1) : envs'[i] = IF i = n - 1 THEN e ELSE envs[i]
    <2>. DEFINE b == Front(envs)  l == n - 1
    <2>1. /\ b \in Seq(Env) /\ Len(b) = l /\ \A i \in 1..l : b[i] = envs[i]
          /\ envs' = [b EXCEPT ![l] = e] /\ l \in Nat /\ l \in 1..l
      BY <1>3, <1>5, <1>7
    <2>. HIDE DEF b, l
    <2>2. /\ envs' \in Seq(Env) /\ Len(envs') = l
          /\ \A i \in 1..l : envs'[i] = IF i = l THEN e ELSE b[i]
      BY <1>8, <2>1
    <2> QED
      BY <2>1, <2>2 DEF l
  <1>10. \A i \in 1..(n - 1) : envs'[i].kind = envs[i].kind
    BY <1>8, <1>9
  <1>11. Typed'
    BY <1>1, <1>2, <1>3, <1>9, <1>10 DEF Typed
  <1>12. evaluating' = SubSeq(evaluating, 1, Len(evaluating)) /\ Len(evaluating) \in 0..Len(evaluating)
    BY <1>1, <1>2
  <1>13. \A k \in 1..Len(evaluating) : evaluating[k].at <= n - 2
    <2>. TAKE k \in 1..Len(evaluating)
    <2>. DEFINE a == evaluating[k].at
    <2>1. a < n
      BY <1>2, IdleBelow
    <2>2. a \in 1..n /\ (a < n => envs[a + 1].kind = "function")
      BY DEF Inv, Nesting
    <2>. HIDE DEF a
    <2>3. a # n - 1
      BY <1>1, <1>2, <2>1, <2>2
    <2>4. a <= n - 2
      BY <1>1, <2>1, <2>2, <2>3
    <2> QED
      BY <2>4 DEF a
  <1>14. \A i \in 1..(n - 2) : SameView(envs[i], envs'[i]) /\ envs'[i] = envs[i]
    <2>1. \A i \in 1..(n - 2) : i \in 1..(n - 1) /\ i # n - 1
      BY <1>1
    <2>2. \A i \in 1..(n - 2) : envs'[i] = envs[i]
      BY <1>9, <2>1
    <2> QED
      BY <2>2, ViewSame
  <1>15. HandlersNest'
    <2>1. handlers' = SubSeq(handlers, 1, Len(handlers)) /\ Len(handlers) \in 0..Len(handlers)
      BY <1>1, <1>2
    <2>2. \A k \in 1..Len(handlers) : handlers[k].at <= n - 1
      <3>. TAKE k \in 1..Len(handlers)
      <3>1. handlers[k].at < n
        BY <1>2, EndedBelow
      <3>2. handlers[k].at \in 1..n
        BY DEF Inv, HandlersNest
      <3> QED
        BY <1>1, <3>1, <3>2
    <2>3. Len(envs') \in Nat
      BY <1>3, <1>9
    <2> QED
      BY <1>9, <2>1, <2>2, <2>3, HandlersKept
  <1>16. Nesting' /\ SlotsStay' /\ Pending'
    <2>. DEFINE j == n - 2
    <2>1. /\ j \in Nat /\ j <= Len(envs) /\ j <= Len(envs')
          /\ \A k \in 1..Len(evaluating) : evaluating[k].at <= j
          /\ \A i \in 1..j : SameView(envs[i], envs'[i])
      BY <1>3, <1>9, <1>13, <1>14
    <2>2. \A i \in 2..(j + 1) : i <= Len(envs') =>
             envs'[i].kind = "function" \/ (i <= Len(envs) /\ envs'[i].kind = envs[i].kind)
      BY <1>1, <1>9, <1>10
    <2>. HIDE DEF j
    <2> QED
      BY <1>11, <1>12, <2>1, <2>2, SlotsKept
  <1>17. Language!Import
    <2>. DEFINE S == ScopesOf(envs)  T == ScopesOf(envs')  u == ScopeOf(e)  Scopes == {ScopeOf(x) : x \in Env}
    <2>1. Len(S) = n /\ S \in Seq(Scopes) /\ S[n] = ScopeOf(g) /\ S[n - 1] = ScopeOf(envs[n - 1])
      BY <1>1, <1>3, ScopesType DEF n, g
    <2>2. /\ Len(T) = n - 1 /\ T \in Seq(Scopes) /\ T[n - 1] = u
      <3>1. n - 1 \in 1..(n - 1)
        BY <1>3
      <3> QED
        BY <1>9, <3>1, ScopesType
    <2>3. SubSeq(T, 1, n - 2) = SubSeq(S, 1, n - 2)
      <3>. DEFINE j == n - 2
      <3>1. j \in Nat /\ j <= Len(envs) /\ j <= Len(envs') /\ \A i \in 1..j : envs'[i] = envs[i]
        BY <1>3, <1>9, <1>14
      <3>. HIDE DEF j
      <3>2. SubSeq(T, 1, j) = SubSeq(S, 1, j)
        BY <1>1, <1>9, <3>1, ScopesPrefix
      <3> QED
        BY <3>2 DEF j
    <2>4. S[n].kind = "module"
      BY <1>2, <2>1, ScopeParts DEF g
    <2>. HIDE DEF S, T, n, u, g, Scopes
    <2>5. u = Imported(S[n - 1], S[n])
      BY <1>8, <2>1 DEF u
    <2>6. T = Append(SubSeq(S, 1, n - 2), u)
      <3>. DEFINE A == SubSeq(T, 1, n - 2)
      <3>1. T[n - 1] \in Scopes /\ A \in Seq(Scopes) /\ Len(A) = n - 2
            /\ \A i \in 1..(n - 2) : A[i] = T[i]
        BY <1>1, <1>3, <2>2
      <3>. HIDE DEF A
      <3>2. /\ Append(A, u) \in Seq(Scopes) /\ Len(Append(A, u)) = (n - 2) + 1
            /\ \A i \in 1..(n - 2) : Append(A, u)[i] = A[i]
            /\ Append(A, u)[(n - 2) + 1] = u
        BY <1>3, <2>2, <3>1, Push
      <3>3. (n - 2) + 1 = n - 1 /\ \A i \in 1..(n - 1) : i \in 1..(n - 2) \/ i = n - 1
        BY <1>1
      <3>4. \A i \in 1..Len(T) : T[i] = Append(A, u)[i]
        BY <2>2, <3>1, <3>2, <3>3
      <3>5. T = Append(A, u)
        BY <2>2, <3>2, <3>3, <3>4, SeqEqual
      <3> QED
        BY <2>3, <3>5 DEF A
    <2>7. Language!Top = n
      BY <2>1 DEF Language!Top, S, ScopesOf
    <2>. DEFINE top == Language!Top
    <2>8. /\ Len(T) = top - 1 /\ S[top].kind = "module"
          /\ T = Append(SubSeq(S, 1, top - 2), Imported(S[top - 1], S[top]))
      BY <2>2, <2>4, <2>5, <2>6, <2>7
    <2> QED
      BY <1>2, <2>8 DEF Language!Import, Imported, S, T, ScopesOf
  <1> QED
    BY <1>11, <1>15, <1>16, <1>17 DEF Inv

\* The language knows nothing of a statement with or_else that begins.
LEMMA BeginOrElseStep ==
    ASSUME Inv, NEW n \in Names \cup {NoName}, BeginOrElse(n)
    PROVE  Inv' /\ UNCHANGED <<envs, evaluating, fields>>
  <1>. DEFINE h == [at |-> Top, name |-> n]  m == Len(handlers)  top == Len(envs)
  <1>1. /\ handlers' = Append(handlers, h) /\ UNCHANGED <<envs, evaluating, fields>>
        /\ handlers \in Seq(Handler) /\ m \in Nat /\ top \in Nat /\ top \in 1..top
        /\ Top = Len(envs)
    BY DEF BeginOrElse, Inv, Typed, Top
  <1>2. h \in Handler /\ h.at = Len(envs)
    BY <1>1 DEF Handler
  <1>. HIDE DEF h
  <1>3. /\ handlers' \in Seq(Handler) /\ Len(handlers') = m + 1
        /\ \A k \in 1..m : handlers'[k] = handlers[k]
        /\ handlers'[m + 1] = h
    BY <1>1, <1>2
  <1>4. \A k : k \in 1..(m + 1) <=> k \in 1..m \/ k = m + 1
    BY <1>1
  <1>5. \A k \in 1..m : handlers[k].at \in 1..top
    BY DEF Inv, HandlersNest
  <1>6. \A j, k \in 1..m : j < k => handlers[j].at <= handlers[k].at
    BY DEF Inv, HandlersNest
  <1>. HIDE DEF m, top
  <1>7. \A k \in 1..(m + 1) : handlers'[k].at \in 1..top
    BY <1>1, <1>2, <1>3, <1>4, <1>5 DEF top
  <1>8. \A j, k \in 1..(m + 1) : j < k => handlers'[j].at <= handlers'[k].at
    <2>. TAKE j, k \in 1..(m + 1)
    <2>. HAVE j < k
    <2>1. j \in 1..m
      BY <1>1
    <2>2. CASE k \in 1..m
      BY <1>3, <1>6, <2>1, <2>2
    <2>3. CASE k = m + 1
      BY <1>1, <1>2, <1>3, <1>5, <2>1, <2>3 DEF top
    <2> QED
      BY <1>4, <2>2, <2>3
  <1>9. HandlersNest'
    BY <1>1, <1>3, <1>7, <1>8 DEF HandlersNest, top
  <1>10. Typed'
    BY <1>1, <1>3 DEF Inv, Typed
  <1>11. Nesting' /\ SlotsStay' /\ Pending'
    BY <1>1 DEF Inv, Nesting, SlotsStay, Pending
  <1> QED
    BY <1>1, <1>9, <1>10, <1>11 DEF Inv

LEMMA EndOrElseStep ==
    ASSUME Inv, NEW v \in Given, EndOrElse(v)
    PROVE  Inv' /\ (Language!Declare \/ UNCHANGED <<envs, evaluating, fields>>)
  <1>. DEFINE m == Len(handlers)  n == handlers[m].name
              e == Declared(envs[Top], n, v, FALSE)
  <1>1. /\ handlers \in Seq(Handler) /\ m \in Nat /\ m > 0 /\ m \in 1..m
        /\ ~AwaitsValue /\ UNCHANGED <<evaluating, fields>> /\ Len(envs) \in Nat
    BY DEF EndOrElse, Inv, Typed
  <1>2. handlers' = SubSeq(handlers, 1, m - 1) /\ m - 1 \in 0..m
    BY <1>1 DEF EndOrElse, Front
  <1>3. handlers' \in Seq(Handler)
    BY <1>1, <1>2, Pop
  <1>4. /\ Typed' /\ Nesting' /\ SlotsStay' /\ Pending' /\ Len(envs') = Len(envs)
        /\ Language!Declare \/ UNCHANGED <<envs, evaluating, fields>>
    <2>1. CASE AwaitsName
      <3>1. handlers[m] \in Handler /\ n # NoName
        BY <1>1, <2>1 DEF AwaitsName, Last
      <3>2. n \in Names /\ v \in Value /\ envs[Top] \in Env
        BY <3>1, TopType DEF Handler
      <3>3. Put(e)
        BY <2>1 DEF EndOrElse, Last
      <3>. HIDE DEF n
      <3>4. Redeclares(envs[Top], n, v, FALSE, e)
        BY <3>2, DeclaredKeeps
      <3>. HIDE DEF e
      <3>5. Rebinds(envs[Top], n, v, e) /\ e.constants = envs[Top].constants \ {n}
        BY <3>4 DEF Redeclares
      <3> QED
        BY <1>1, <1>3, <3>2, <3>3, <3>5, TopBinds
    <2>2. CASE ~AwaitsName
      <3>1. UNCHANGED envs
        BY <2>2 DEF EndOrElse
      <3>2. Typed' /\ Len(envs') = Len(envs)
        BY <1>1, <1>3, <3>1 DEF Inv, Typed
      <3>3. Nesting' /\ SlotsStay' /\ Pending'
        BY <1>1, <3>1 DEF Inv, Nesting, SlotsStay, Pending
      <3> QED
        BY <1>1, <3>1, <3>2, <3>3
    <2> QED
      BY <2>1, <2>2
  <1>5. \A k \in 1..(m - 1) : handlers[k].at <= Len(envs)
    <2>. TAKE k \in 1..(m - 1)
    <2>1. k \in 1..m
      BY <1>1
    <2>2. handlers[k].at \in 1..Len(envs)
      BY <2>1 DEF Inv, HandlersNest
    <2> QED
      BY <1>1, <2>2
  <1>6. HandlersNest'
    <2>1. Len(envs') \in Nat
      BY <1>1, <1>4
    <2> QED
      BY <1>1, <1>2, <1>4, <1>5, <2>1, HandlersKept
  <1> QED
    BY <1>4, <1>6 DEF Inv

\* The statements in evaluation that an error leaves are those further out than its handler.
LEMMA BelowKept ==
    ASSUME Inv, NEW h \in Nat
    PROVE  \E m \in 0..Len(evaluating) :
              /\ EvaluatingBelow(h) = SubSeq(evaluating, 1, m)
              /\ \A k \in 1..Len(evaluating) : k <= m <=> evaluating[k].at < h
  <1>. DEFINE n == Len(evaluating)  I == {i \in 1..n : evaluating[i].at < h}
              m == IF I # {} THEN Max(I) ELSE 0
  <1>1. n \in Nat /\ I \subseteq 1..n
    BY DEF Inv, Typed
  <1>2. EvaluatingBelow(h) = SubSeq(evaluating, 1, m)
    BY DEF EvaluatingBelow, SelectLastInSeq
  <1>3. I # {} => m \in I /\ \A k \in I : k <= m
    BY <1>1, MaxOf
  <1>. HIDE DEF m
  <1>4. m \in 0..n
    BY <1>1, <1>3 DEF m
  <1>5. ASSUME NEW k \in 1..n, k <= m
        PROVE  evaluating[k].at < h
    <2>1. m \in I
      BY <1>3, <1>5 DEF m
    <2>2. m \in 1..n /\ k \in 1..n /\ evaluating[m].at < h
      BY <1>1, <2>1
    <2>3. k < m => evaluating[k].at < evaluating[m].at
      BY <2>2 DEF Inv, Nesting
    <2>4. evaluating[k].at \in 1..Len(envs) /\ evaluating[m].at \in 1..Len(envs)
      BY <2>2 DEF Inv, Nesting
    <2>5. Len(envs) \in Nat
      BY DEF Inv, Typed
    <2> QED
      BY <1>1, <1>5, <2>2, <2>3, <2>4, <2>5
  <1>6. ASSUME NEW k \in 1..n, evaluating[k].at < h
        PROVE  k <= m
    BY <1>3, <1>6
  <1> QED
    BY <1>2, <1>4, <1>5, <1>6

\* The block of a handler holds the error, if it names one.
LEMMA HandlerBlock ==
    ASSUME NEW name \in Names \cup {NoName}, NEW v \in Given,
           NEW b, b = IF name = NoName THEN Environment("block", FALSE)
                      ELSE Declared(Environment("block", FALSE), name, v, FALSE)
    PROVE  /\ b \in Env /\ b.kind = "block" /\ b.with = FALSE /\ b.constants = {} /\ b.bridged = {}
           /\ Bound(b) = {} \/ Bound(b) = {name}
  <1>. DEFINE e == Environment("block", FALSE)
  <1>1. /\ e \in Env /\ e.kind = "block" /\ e.with = FALSE /\ e.constants = {} /\ e.bridged = {}
        /\ \A n : FindLocal(e, n) = 0
    BY EnvironmentType
  <1>2. v \in Value
    BY DEF Value, Values
  <1>3. CASE name = NoName
    <2>1. b = e
      BY <1>3
    <2>. HIDE DEF e
    <2>2. Bound(b) = {}
      BY <1>1, <2>1, BoundDef
    <2> QED
      BY <1>1, <2>1, <2>2
  <1>4. CASE name # NoName
    <2>1. name \in Names /\ b = Declared(e, name, v, FALSE)
      BY <1>4
    <2>. HIDE DEF e
    <2>2. Redeclares(e, name, v, FALSE, b)
      BY <1>1, <1>2, <2>1, DeclaredKeeps
    <2>3. /\ b \in Env /\ b.kind = "block" /\ b.with = FALSE /\ b.bridged = {}
          /\ FindLocal(b, name) # 0
          /\ \A m : m # name => FindLocal(b, m) = 0
      BY <1>1, <2>2 DEF Redeclares, Rebinds
    <2>4. b.constants = {}
      BY <1>1, <2>2 DEF Redeclares
    <2>5. Bound(b) = {name}
      <3>1. \A m : m \in Bound(b) <=> m = name
        <4>. TAKE m
        <4>1. m \in Bound(b) <=> m \in Names /\ FindLocal(b, m) # 0
          BY BoundDef
        <4>2. CASE m = name
          BY <2>1, <2>3, <4>1, <4>2
        <4>3. CASE m # name
          BY <2>3, <4>1, <4>3
        <4> QED
          BY <4>2, <4>3
      <3> QED
        BY <3>1
    <2> QED
      BY <2>3, <2>4, <2>5
  <1> QED
    BY <1>3, <1>4

\* The name of a declaration that failed: bound to empty, unless it had a variable.
LEMMA HandlerKeeps ==
    ASSUME NEW e \in Env, NEW n \in Names \cup {NoName},
           NEW f, f = IF n # NoName /\ FindLocal(e, n) = 0 THEN Declared(e, n, Empty, FALSE) ELSE e
    PROVE  /\ f \in Env /\ f.kind = e.kind
           /\ \/ ScopeOf(f) = ScopeOf(e)
              \/ \E m \in Names \ DOMAIN ScopeOf(e).bound :
                    ScopeOf(f) = Language!Bind(ScopeOf(e), m, Empty, FALSE)
  <1>1. CASE ~(n # NoName /\ FindLocal(e, n) = 0)
    BY <1>1
  <1>2. CASE n # NoName /\ FindLocal(e, n) = 0
    <2>1. n \in Names /\ f = Declared(e, n, Empty, FALSE) /\ Empty \in Value
      BY <1>2 DEF Value
    <2>2. Redeclares(e, n, Empty, FALSE, f)
      BY <2>1, DeclaredKeeps
    <2>3. Rebinds(e, n, Empty, f) /\ f.constants = e.constants \ {n} /\ n \notin f.constants
      BY <2>2 DEF Redeclares
    <2>4. f \in Env /\ f.kind = e.kind
      BY <2>3 DEF Rebinds
    <2>5. ScopeOf(f) = Language!Bind(ScopeOf(e), n, Empty, n \in f.constants)
      <3>1. f.constants = e.constants \cup {n} \/ f.constants = e.constants \ {n}
        BY <2>3
      <3>2. n \in Names /\ Rebinds(e, n, Empty, f)
        BY <2>1, <2>3
      <3> QED
        BY ONLY <3>1, <3>2, BindsScope
    <2>6. Language!Bind(ScopeOf(e), n, Empty, n \in f.constants)
            = Language!Bind(ScopeOf(e), n, Empty, FALSE)
      BY <2>3 DEF Language!Bind
    <2>7. n \in Names \ DOMAIN ScopeOf(e).bound
      BY <1>2, <2>1, ScopeParts, BoundDef
    <2> QED
      BY <2>4, <2>5, <2>6, <2>7
  <1> QED
    BY <1>1, <1>2

LEMMA HandleStep ==
    ASSUME Inv, NEW name \in Names \cup {NoName}, NEW v \in Given, Handle(name, v)
    PROVE  Inv' /\ Language!Handled
  <1>. DEFINE p == Len(handlers)  h == handlers[p].at  hn == handlers[p].name
              below == envs[h]
              kept == IF hn # NoName /\ FindLocal(below, hn) = 0
                      THEN Declared(below, hn, Empty, FALSE) ELSE below
              block == IF name = NoName THEN Environment("block", FALSE)
                       ELSE Declared(Environment("block", FALSE), name, v, FALSE)
              outer == SubSeq(envs, 1, h - 1)
  <1>1. /\ handlers \in Seq(Handler) /\ p \in Nat /\ p > 0 /\ p \in 1..p
        /\ Len(envs) \in Nat /\ envs \in Seq(Env) /\ evaluating \in Seq(Change)
        /\ envs[1].kind = "global"
    BY DEF Handle, Inv, Typed
  <1>2. /\ envs' = outer \o <<kept, block>>
        /\ evaluating' = EvaluatingBelow(h)
        /\ handlers' = SubSeq(handlers, 1, p - 1)
        /\ UNCHANGED fields
    BY DEF Handle, Last, Front
  <1>3. h \in 1..Len(envs) /\ handlers[p] \in Handler
    BY <1>1 DEF Inv, HandlersNest
  <1>4. below \in Env
    BY <1>1, <1>3
  <1>5. /\ kept \in Env /\ kept.kind = below.kind
        /\ \/ ScopeOf(kept) = ScopeOf(below)
           \/ \E m \in Names \ DOMAIN ScopeOf(below).bound :
                 ScopeOf(kept) = Language!Bind(ScopeOf(below), m, Empty, FALSE)
    <2>1. hn \in Names \cup {NoName}
      BY <1>3 DEF Handler
    <2>. HIDE DEF below, hn
    <2> QED
      BY <1>4, <2>1, HandlerKeeps
  <1>6. /\ block \in Env /\ block.kind = "block" /\ block.with = FALSE /\ block.constants = {}
        /\ block.bridged = {} /\ (Bound(block) = {} \/ Bound(block) = {name})
    BY HandlerBlock
  <1>. HIDE DEF kept, block, h, hn, below
  <1>7. outer \in Seq(Env) /\ Len(outer) = h - 1 /\ \A i \in 1..(h - 1) : outer[i] = envs[i]
    BY <1>1, <1>3
  <1>8. /\ <<kept, block>> \in Seq(Env) /\ Len(<<kept, block>>) = 2
        /\ <<kept, block>>[1] = kept /\ <<kept, block>>[2] = block
    BY <1>5, <1>6
  <1>. HIDE DEF outer
  <1>9. /\ envs' \in Seq(Env) /\ Len(envs') = h + 1
        /\ \A i \in 1..(h - 1) : envs'[i] = envs[i]
        /\ envs'[h] = kept /\ envs'[h + 1] = block
    <2>. DEFINE two == <<kept, block>>
    <2>1. /\ two \in Seq(Env) /\ Len(two) = 2 /\ two[1] = kept /\ two[2] = block
      BY <1>8
    <2>2. envs' = outer \o two
      BY <1>2
    <2>. HIDE DEF two
    <2>3. /\ outer \o two \in Seq(Env)
          /\ Len(outer \o two) = Len(outer) + Len(two)
          /\ \A i \in 1..Len(outer) : (outer \o two)[i] = outer[i]
          /\ \A i \in 1..Len(two) : (outer \o two)[Len(outer) + i] = two[i]
      <3>1. outer \in Seq(Env) /\ two \in Seq(Env)
        BY <1>7, <2>1
      <3> QED
        BY <3>1, Concat
    <2>4. /\ envs' \in Seq(Env) /\ Len(envs') = h - 1 + 2
          /\ \A i \in 1..(h - 1) : envs'[i] = outer[i]
          /\ \A i \in 1..2 : envs'[h - 1 + i] = two[i]
      BY <1>7, <2>1, <2>2, <2>3
    <2>5. h - 1 + 2 = h + 1 /\ h - 1 + 1 = h
      BY <1>3
    <2>6. 1 \in 1..2 /\ 2 \in 1..2
      OBVIOUS
    <2>7. envs'[h] = two[1] /\ envs'[h + 1] = two[2]
      BY <2>4, <2>5, <2>6
    <2> QED
      BY <1>7, <2>1, <2>4, <2>5, <2>7
  <1>10. \A i \in 1..h : envs'[i].kind = envs[i].kind
    <2>. TAKE i \in 1..h
    <2>1. i \in 1..(h - 1) \/ i = h
      BY <1>3
    <2> QED
      BY <1>5, <1>9, <2>1 DEF below
  <1>11. 1 \in 1..h /\ h \in Nat /\ h - 1 \in Nat /\ h + 1 \in Nat
    BY <1>3
  <1>12. PICK m \in 0..Len(evaluating) :
            /\ evaluating' = SubSeq(evaluating, 1, m)
            /\ \A k \in 1..Len(evaluating) : k <= m <=> evaluating[k].at < h
    BY <1>2, <1>11, BelowKept
  <1>13. evaluating' \in Seq(Change)
    BY <1>1, <1>12
  <1>14. handlers' \in Seq(Handler) /\ p - 1 \in 0..p
    BY <1>1, <1>2, Pop
  <1>15. Typed'
    BY <1>1, <1>9, <1>10, <1>11, <1>13, <1>14 DEF Typed
  <1>16. \A k \in 1..m : evaluating[k].at <= h - 1
    <2>. TAKE k \in 1..m
    <2>1. k \in 1..Len(evaluating) /\ k <= m
      BY <1>1
    <2>2. evaluating[k].at < h
      BY <1>12, <2>1
    <2>3. evaluating[k].at \in 1..Len(envs)
      BY <2>1 DEF Inv, Nesting
    <2> QED
      BY <1>1, <1>11, <2>2, <2>3
  <1>17. Nesting' /\ SlotsStay' /\ Pending'
    <2>. DEFINE j == h - 1
    <2>1. /\ j \in Nat /\ j <= Len(envs) /\ j <= Len(envs')
          /\ \A k \in 1..m : evaluating[k].at <= j
          /\ \A i \in 1..j : SameView(envs[i], envs'[i])
      BY <1>1, <1>3, <1>9, <1>11, <1>16, ViewSame
    <2>2. \A i \in 2..(j + 1) : i <= Len(envs') =>
             envs'[i].kind = "function" \/ (i <= Len(envs) /\ envs'[i].kind = envs[i].kind)
      <3>. TAKE i \in 2..(j + 1)
      <3>1. i \in 1..h
        BY <1>11
      <3> QED
        BY <1>1, <1>3, <1>10, <3>1
    <2>. HIDE DEF j
    <2> QED
      BY <1>12, <1>15, <2>1, <2>2, SlotsKept
  <1>18. \A k \in 1..(p - 1) : handlers[k].at <= h + 1
    <2>. TAKE k \in 1..(p - 1)
    <2>1. k \in 1..p /\ k < p
      BY <1>1
    <2>2. handlers[k].at <= h /\ handlers[k].at \in 1..Len(envs)
      BY <1>1, <2>1 DEF Inv, HandlersNest, h
    <2> QED
      BY <1>1, <1>11, <2>2
  <1>19. HandlersNest'
    BY <1>2, <1>9, <1>11, <1>14, <1>18, HandlersKept
  <1>20. Language!Handled
    <2>. DEFINE S == ScopesOf(envs)  T == ScopesOf(envs')  b == ScopeOf(block)
                C == ChangesOf(evaluating)  D == ChangesOf(evaluating')
    <2>1. Len(S) = Len(envs) /\ S[h] = ScopeOf(below)
      BY <1>1, <1>3, ScopesType DEF below
    <2>2. Len(T) = h + 1 /\ T[h] = ScopeOf(kept) /\ T[h + 1] = b
      <3>1. h \in 1..(h + 1) /\ h + 1 \in 1..(h + 1)
        BY <1>11
      <3> QED
        BY <1>9, <3>1, ScopesType
    <2>3. SubSeq(T, 1, h - 1) = SubSeq(S, 1, h - 1)
      <3>. DEFINE j == h - 1
      <3>1. j \in Nat /\ j <= Len(envs) /\ j <= Len(envs') /\ \A i \in 1..j : envs'[i] = envs[i]
        BY <1>1, <1>3, <1>9, <1>11
      <3>. HIDE DEF j
      <3>2. SubSeq(T, 1, j) = SubSeq(S, 1, j)
        BY <1>1, <1>9, <3>1, ScopesPrefix
      <3> QED
        BY <3>2 DEF j
    <2>4. b = Language!Scope("block", b.bound, FALSE) /\ DOMAIN b.bound = Bound(block)
      <3>1. /\ b = [kind |-> block.kind, bound |-> b.bound, constants |-> block.constants,
                    bridged |-> block.bridged, with |-> block.with]
            /\ DOMAIN b.bound = Bound(block)
        BY ScopeParts
      <3>. HIDE DEF b
      <3> QED
        BY <1>6, <3>1 DEF Language!Scope
    <2>5. Language!Cardinality(DOMAIN b.bound) <= 1
      <3>. DEFINE B == DOMAIN b.bound
      <3>1. B = {} \/ B = {name}
        BY <1>6, <2>4
      <3>. HIDE DEF B
      <3>2. B = {} => Cardinality(B) = 0
        BY FS_EmptySet
      <3>3. B = {name} => Cardinality(B) = 1
        BY FS_Singleton
      <3>4. Cardinality(B) <= 1
        BY <3>1, <3>2, <3>3
      <3> QED
        BY <3>4, SameOperators DEF B
    <2>6. /\ D = SubSeq(C, 1, m)
          /\ Len(C) = Len(evaluating)
          /\ \A k \in 1..Len(evaluating) : C[k].at = evaluating[k].at
      <3>1. D = SubSeq(C, 1, m)
        BY <1>1, <1>12, ChangesFront
      <3>2. /\ Len(C) = Len(evaluating)
            /\ \A k \in 1..Len(evaluating) :
                  C[k] = [at |-> evaluating[k].at, name |-> evaluating[k].name]
        BY <1>1, ChangesType
      <3>. HIDE DEF C
      <3>3. \A k \in 1..Len(evaluating) : C[k].at = evaluating[k].at
        <4>. TAKE k \in 1..Len(evaluating)
        <4>. DEFINE a == evaluating[k].at  nm == evaluating[k].name
        <4>1. C[k] = [at |-> a, name |-> nm]
          BY <3>2
        <4>. HIDE DEF a, nm
        <4>2. C[k].at = a
          BY <4>1
        <4> QED
          BY <4>2 DEF a
      <3> QED
        BY <3>1, <3>2, <3>3
    <2>. HIDE DEF S, T, C, D, b
    <2>7. /\ m \in 0..Len(C)
          /\ \A k \in 1..Len(C) : k <= m <=> C[k].at < h
      BY <1>12, <2>6
    <2>8. Len(T) - 1 = h /\ Language!Last(T) = b
      BY <1>11, <2>2, SameOperators DEF Last
    <2>9. Language!Top = Len(envs)
      BY <2>1 DEF Language!Top, S, ScopesOf
    <2>10. T[h] = S[h] \/ \E n \in Names \ DOMAIN S[h].bound :
                              T[h] = Language!Bind(S[h], n, Empty, FALSE)
      BY <1>5, <2>1, <2>2
    <2>. DEFINE k == Len(T) - 1
    <2>11. /\ k \in 1..Language!Top
           /\ SubSeq(T, 1, k - 1) = SubSeq(S, 1, k - 1)
           /\ T[k] = S[k] \/ \E n \in Names \ DOMAIN S[k].bound :
                                T[k] = Language!Bind(S[k], n, Empty, FALSE)
      BY <1>3, <2>3, <2>8, <2>9, <2>10
    <2>12. \E l \in 0..Len(C) : D = SubSeq(C, 1, l) /\ \A j \in 1..Len(C) : j <= l <=> C[j].at < k
      BY <2>6, <2>7, <2>8
    <2>13. /\ Language!Last(T) = Language!Scope("block", Language!Last(T).bound, FALSE)
           /\ Language!Cardinality(DOMAIN Language!Last(T).bound) <= 1
      BY <2>4, <2>5, <2>8
    <2> QED
      BY <1>2, <2>11, <2>12, <2>13 DEF Language!Handled, S, T, C, D, ScopesOf, ChangesOf
  <1> QED
    BY <1>15, <1>17, <1>19, <1>20 DEF Inv

LEMMA AbortStep ==
    ASSUME Inv, Abort
    PROVE  Inv' /\ Language!Unhandled
  <1>1. /\ envs \in Seq(Env) /\ Len(envs) \in Nat /\ Len(envs) > 0
        /\ envs[1].kind = "global"
        /\ envs' = SubSeq(envs, 1, 1) /\ evaluating' = <<>> /\ handlers' = <<>> /\ UNCHANGED fields
    BY DEF Inv, Typed, Abort
  <1>2. envs' \in Seq(Env) /\ Len(envs') = 1 /\ envs'[1] = envs[1]
    BY <1>1
  <1>3. /\ Len(evaluating') = 0 /\ Len(handlers') = 0 /\ DOMAIN evaluating' = {}
        /\ evaluating' \in Seq(Change) /\ handlers' \in Seq(Handler)
    BY <1>1
  <1>4. Typed'
    BY <1>1, <1>2, <1>3 DEF Typed
  <1>5. Nesting' /\ HandlersNest' /\ Pending'
    BY <1>3 DEF Nesting, HandlersNest, Pending
  <1>6. SlotsStay'
    BY <1>3 DEF SlotsStay
  <1>7. Language!Unhandled
    <2>. DEFINE S == ScopesOf(envs)  T == ScopesOf(envs')  D == ChangesOf(evaluating')
    <2>1. SubSeq(T, 1, 1) = SubSeq(S, 1, 1)
      <3>. DEFINE j == 1
      <3>1. j \in Nat /\ j <= Len(envs) /\ j <= Len(envs') /\ \A i \in 1..j : envs'[i] = envs[i]
        BY <1>1, <1>2
      <3>. HIDE DEF j
      <3>2. SubSeq(T, 1, j) = SubSeq(S, 1, j)
        BY <1>1, <1>2, <3>1, ScopesPrefix
      <3> QED
        BY <3>2 DEF j
    <2>2. Len(T) = 1 /\ T \in Seq({ScopeOf(x) : x \in Env})
      BY <1>2, ScopesType
    <2>3. Len(D) = 0 /\ D \in Seq([at : Nat, name : Names])
      BY <1>3, ChangesType
    <2>. HIDE DEF S, T, D
    <2>4. SubSeq(T, 1, 1) = T
      BY <2>2
    <2>5. D = <<>>
      BY <2>3
    <2> QED
      BY <1>1, <2>1, <2>4, <2>5 DEF Language!Unhandled, S, T, D, ScopesOf, ChangesOf
  <1> QED
    BY <1>4, <1>5, <1>6, <1>7 DEF Inv

LEMMA InitHolds ==
    ASSUME EnvInit
    PROVE  Inv /\ Language!Init
  <1>. DEFINE e == Environment("global", FALSE)
  <1>1. envs = <<e>> /\ evaluating = <<>> /\ handlers = <<>> /\ fields \in [Members -> Given]
    BY DEF EnvInit
  <1>2. /\ e \in Env /\ e.kind = "global" /\ e.with = FALSE /\ e.constants = {} /\ e.bridged = {}
        /\ \A n : FindLocal(e, n) = 0
    BY EnvironmentType
  <1>. HIDE DEF e
  <1>3. envs \in Seq(Env) /\ Len(envs) = 1 /\ envs[1] = e /\ envs[1].kind = "global"
    BY <1>1, <1>2
  <1>4. /\ Len(evaluating) = 0 /\ Len(handlers) = 0 /\ DOMAIN evaluating = {}
        /\ evaluating \in Seq(Change) /\ handlers \in Seq(Handler)
    BY <1>1
  <1>5. Inv
    BY <1>3, <1>4 DEF Inv, Typed, Nesting, HandlersNest, SlotsStay, Pending
  <1>6. Language!Init
    <2>. DEFINE S == ScopesOf(envs)  C == ChangesOf(evaluating)  s == ScopeOf(e)
    <2>1. Len(S) = 1 /\ S[1] = s /\ S \in Seq({ScopeOf(x) : x \in Env})
      <3>1. /\ Len(S) = Len(envs) /\ S \in Seq({ScopeOf(x) : x \in Env})
            /\ \A i \in 1..Len(envs) : S[i] = ScopeOf(envs[i])
        BY <1>3, ScopesType
      <3>2. 1 \in 1..Len(envs)
        BY <1>3
      <3>. HIDE DEF S
      <3> QED
        BY <1>3, <3>1, <3>2
    <2>2. Len(C) = 0 /\ C \in Seq([at : Nat, name : Names])
      BY <1>4, ChangesType
    <2>3. s = Language!Scope("global", Language!Unbound, FALSE)
      <3>1. Bound(e) = {}
        BY <1>2, BoundDef
      <3>2. /\ s = [kind |-> e.kind, bound |-> s.bound, constants |-> e.constants,
                    bridged |-> e.bridged, with |-> e.with]
            /\ s.bound = [n \in Bound(e) |-> ValueOf(e, n)]
        BY ScopeParts
      <3>. HIDE DEF s
      <3>3. s.bound = [n \in {} |-> Empty]
        BY <3>1, <3>2
      <3> QED
        BY <1>2, <3>2, <3>3 DEF Language!Scope, Language!Unbound
    <2>. HIDE DEF S, C, s
    <2>4. S = <<s>> /\ C = <<>>
      BY <2>1, <2>2
    <2>5. fields \in [Members -> Values]
      BY <1>1 DEF Values
    <2> QED
      BY <2>3, <2>4, <2>5 DEF Language!Init, S, C, ScopesOf, ChangesOf
  <1> QED
    BY <1>5, <1>6

\* Every step keeps the invariant, and is a step of the language or one it does not see.
LEMMA StepHolds ==
    ASSUME Inv, [EnvNext]_envVars
    PROVE  Inv' /\ [Language!Next]_(Language!vars)
  <1>1. CASE UNCHANGED envVars
    <2>1. UNCHANGED <<envs, evaluating, handlers, fields>>
      BY <1>1 DEF envVars
    <2>2. Typed' /\ HandlersNest'
      BY <2>1 DEF Inv, Typed, HandlersNest
    <2>3. Nesting' /\ SlotsStay' /\ Pending'
      BY <2>1 DEF Inv, Nesting, SlotsStay, Pending
    <2>4. UNCHANGED Language!vars
      BY <2>1 DEF Language!vars
    <2> QED
      BY <2>2, <2>3, <2>4 DEF Inv
  <1>2. CASE EnvNext
    <2>1. UNCHANGED <<envs, evaluating, fields>> => UNCHANGED Language!vars
      BY DEF Language!vars
    <2>2. ASSUME NEW n \in Names, NEW v \in Given, NEW c \in BOOLEAN, Declare(n, v, c)
          PROVE  Inv' /\ Language!Next
      BY <2>2, DeclareStep DEF Language!Next
    <2>3. ASSUME NEW n \in Names, NEW v \in Given, AssignLoopVar(n, v)
          PROVE  Inv' /\ Language!Next
      BY <2>3, AssignLoopVarStep DEF Language!Next
    <2>4. ASSUME NEW n \in Names, DeclareGlobal(n)
          PROVE  Inv' /\ Language!Next
      BY <2>4, DeclareGlobalStep DEF Language!Next
    <2>5. ASSUME NEW n \in Names, BeginChange(n)
          PROVE  Inv' /\ Language!Next
      BY <2>5, BeginChangeStep DEF Language!Next
    <2>6. ASSUME NEW v \in Assigned, FinishChange(v)
          PROVE  Inv' /\ Language!Next
      BY <2>6, FinishChangeStep DEF Language!Next
    <2>7. ASSUME NEW P \in Signatures, NEW v \in Given, Call(Arguments(P, v))
          PROVE  Inv' /\ Language!Next
      BY <2>7, CallStep DEF Language!Next
    <2>8. CASE Return \/ OpenWith \/ CloseBlock \/ BeginModule \/ EndModule
      BY <2>8, ReturnStep, OpenWithStep, CloseBlockStep, BeginModuleStep, EndModuleStep
         DEF Language!Next
    <2>9. ASSUME NEW n \in Names \cup {NoName}, BeginOrElse(n)
          PROVE  Inv' /\ UNCHANGED Language!vars
      BY <2>1, <2>9, BeginOrElseStep
    <2>10. ASSUME NEW v \in Given, EndOrElse(v)
           PROVE  Inv' /\ (Language!Next \/ UNCHANGED Language!vars)
      BY <2>1, <2>10, EndOrElseStep DEF Language!Next
    <2>11. ASSUME NEW n \in Names \cup {NoName}, NEW v \in Given, Handle(n, v)
           PROVE  Inv' /\ Language!Next
      BY <2>11, HandleStep DEF Language!Next
    <2>12. CASE Abort
      BY <2>12, AbortStep DEF Language!Next
    <2> QED
      BY <1>2, <2>2, <2>3, <2>4, <2>5, <2>6, <2>7, <2>8, <2>9, <2>10, <2>11, <2>12 DEF EnvNext
  <1> QED
    BY <1>1, <1>2

\* SlotsStay: the pointer execChange keeps while the value is evaluated is still where the
\* variable lives when it is written through, for any number of names, scopes and statements in
\* evaluation, whatever the value calls, loads or raises.
THEOREM SlotsCorrect == EnvSpec => []SlotsStay
  <1>1. Inv => SlotsStay
    BY DEF Inv
  <1> QED
    BY <1>1, InitHolds, StepHolds, PTL DEF EnvSpec

\* IsScopes: the append-only lists, the name index, the storage that calls adopt and the pointers
\* kept during an evaluation (Environment.h, execChange, callUserFunction) are an implementation
\* of the scopes of the language: every step is one the language allows, or one it cannot see.
THEOREM KeepsScopes == EnvSpec => IsScopes
  <1> QED
    BY InitHolds, StepHolds, PTL DEF EnvSpec, IsScopes, Language!Spec

-----------------------------------------------------------------------------
(* The class table. *)

FieldLists == Seq([name : STRING, declaredIn : Nat])
MethodTables == UNION {[M -> Nat] : M \in SUBSET STRING}
Info == [name : AllNames, parent : Nat, depth : Nat, load : Nat,
         fields : FieldLists, methods : MethodTables]
Table == [infos : Seq(Info), byId : [AllNames -> Nat], epoch : [AllNames -> Nat], count : Nat,
          functions : SUBSET STRING, done : SUBSET AllNames, ok : BOOLEAN, run : Nat, load : Nat]
Tables == {t \in Table : \A n \in AllNames : t.byId[n] <= Len(t.infos)}

\* The parent that is extended is none or a class.
LEMMA ParentIs ==
    ASSUME NEW t \in Tables, NEW d \in Declarations, d.parent # NoParent => d.parent \in AllNames
    PROVE  /\ ParentOf(t, d) \in 0..Len(t.infos)
           /\ ParentOf(t, d) # 0 => t.infos[ParentOf(t, d)] \in Info
           /\ DepthOf(t, ParentOf(t, d)) \in Nat
           /\ FieldsOf(t, ParentOf(t, d)) \in FieldLists
           /\ MethodsOf(t, ParentOf(t, d)) \in MethodTables
  <1>. DEFINE p == ParentOf(t, d)
  <1>1. t \in Table /\ Len(t.infos) \in Nat /\ t.infos \in Seq(Info)
    BY DEF Tables, Table
  <1>2. p \in 0..Len(t.infos)
    <2>1. CASE d.parent = NoParent
      BY <1>1, <2>1 DEF ParentOf
    <2>2. CASE d.parent # NoParent
      <3>1. t.byId[d.parent] \in Nat /\ t.byId[d.parent] <= Len(t.infos)
        BY <2>2 DEF Tables, Table
      <3> QED
        BY <1>1, <2>2, <3>1 DEF ParentOf
    <2> QED
      BY <2>1, <2>2
  <1>. HIDE DEF p
  <1>3. p # 0 => t.infos[p] \in Info
    BY <1>1, <1>2
  <1>4. DepthOf(t, p) \in Nat
    BY <1>3 DEF DepthOf, Info
  <1>5. FieldsOf(t, p) \in FieldLists
    BY <1>3 DEF FieldsOf, Info, FieldLists
  <1>6. MethodsOf(t, p) \in MethodTables
    <2>1. CASE p = 0
      <3>1. [m \in {} |-> 0] \in [{} -> Nat] /\ {} \in SUBSET STRING
        OBVIOUS
      <3> QED
        BY <2>1, <3>1 DEF MethodsOf, MethodTables
    <2>2. CASE p # 0
      BY <1>3, <2>2 DEF MethodsOf, Info
    <2> QED
      BY <2>1, <2>2
  <1> QED
    BY <1>2, <1>3, <1>4, <1>5, <1>6 DEF p

\* The members of a class that is built.
LEMMA MembersAre ==
    ASSUME NEW t \in Tables, NEW d \in Declarations, d.parent # NoParent => d.parent \in AllNames,
           NEW inherited, inherited = FieldsOf(t, ParentOf(t, d)),
           NEW from, from = MethodsOf(t, ParentOf(t, d)),
           NEW this, this = Len(t.infos) + 1
    PROVE  /\ inherited \in FieldLists /\ this \in Nat
           /\ ClassInfo(t, d).fields \in FieldLists
           /\ Len(ClassInfo(t, d).fields) = Len(inherited) + Len(d.fields)
           /\ \A k \in 1..Len(inherited) : ClassInfo(t, d).fields[k] = inherited[k]
           /\ \A k \in 1..Len(d.fields) :
                 ClassInfo(t, d).fields[Len(inherited) + k] = [name |-> d.fields[k], declaredIn |-> this]
           /\ from \in MethodTables /\ ClassInfo(t, d).methods \in MethodTables
           /\ DOMAIN ClassInfo(t, d).methods = DOMAIN from \cup ToSet(d.methods)
           /\ \A m \in DOMAIN ClassInfo(t, d).methods :
                 ClassInfo(t, d).methods[m] = IF m \in ToSet(d.methods) THEN this ELSE from[m]
  <1>1. inherited \in FieldLists /\ from \in MethodTables
    BY ParentIs
  <1>2. this \in Nat
    BY DEF Tables, Table
  <1>3. d.fields \in Seq(STRING) /\ d.methods \in Seq(STRING)
    BY DEF Declarations
  <1>. DEFINE own == [k \in DOMAIN d.fields |-> [name |-> d.fields[k], declaredIn |-> this]]
              M == DOMAIN from \cup ToSet(d.methods)
              all == [m \in M |-> IF m \in ToSet(d.methods) THEN this ELSE from[m]]
  <1>4. ClassInfo(t, d).fields = inherited \o own /\ ClassInfo(t, d).methods = all
    BY DEF ClassInfo
  <1>5. own \in FieldLists /\ Len(own) = Len(d.fields)
        /\ \A k \in 1..Len(d.fields) : own[k] = [name |-> d.fields[k], declaredIn |-> this]
    <2>1. DOMAIN d.fields = 1..Len(d.fields) /\ Len(d.fields) \in Nat
      BY <1>3
    <2>2. \A k \in 1..Len(d.fields) : d.fields[k] \in STRING
      BY <1>3, <2>1
    <2>3. \A k \in 1..Len(d.fields) : own[k] = [name |-> d.fields[k], declaredIn |-> this]
      BY <2>1
    <2>4. \A k \in 1..Len(d.fields) : own[k] \in [name : STRING, declaredIn : Nat]
      BY <1>2, <2>2, <2>3
    <2>5. own = [k \in 1..Len(d.fields) |-> own[k]]
      BY <2>1
    <2>. HIDE DEF own
    <2>6. own \in Seq([name : STRING, declaredIn : Nat]) /\ Len(own) = Len(d.fields)
      <3>. DEFINE F == [name : STRING, declaredIn : Nat]
                  n == Len(d.fields)
      <3>1. n \in Nat /\ own \in [1..n -> F]
        BY <2>1, <2>4, <2>5
      <3>. HIDE DEF F, n
      <3>2. own \in Seq(F) /\ Len(own) = n
        BY <3>1
      <3> QED
        BY <3>2 DEF F, n
    <2> QED
      BY <2>3, <2>6 DEF FieldLists
  <1>. HIDE DEF own
  <1>6. /\ inherited \o own \in FieldLists
        /\ Len(inherited \o own) = Len(inherited) + Len(d.fields)
        /\ \A k \in 1..Len(inherited) : (inherited \o own)[k] = inherited[k]
        /\ \A k \in 1..Len(d.fields) : (inherited \o own)[Len(inherited) + k] = own[k]
    <2>. DEFINE F == [name : STRING, declaredIn : Nat]
    <2>1. inherited \in Seq(F) /\ own \in Seq(F)
      BY <1>1, <1>5 DEF FieldLists
    <2>. HIDE DEF F
    <2>2. /\ inherited \o own \in Seq(F) /\ Len(inherited) \in Nat /\ Len(own) \in Nat
          /\ Len(inherited \o own) = Len(inherited) + Len(own)
      BY <2>1
    <2>3. \A k \in 1..Len(inherited) : (inherited \o own)[k] = inherited[k]
      BY <2>1
    <2>4. \A k \in 1..Len(own) : (inherited \o own)[Len(inherited) + k] = own[k]
      BY <2>1
    <2> QED
      BY <1>5, <2>2, <2>3, <2>4 DEF FieldLists, F
  <1>7. PICK D \in SUBSET STRING : from \in [D -> Nat]
    BY <1>1 DEF MethodTables
  <1>8. M \in SUBSET STRING /\ all \in [M -> Nat] /\ DOMAIN all = M
    <2>1. ToSet(d.methods) \subseteq STRING
      BY <1>3 DEF ToSet
    <2>2. M \in SUBSET STRING
      BY <1>7, <2>1
    <2>3. \A m \in M : all[m] \in Nat
      BY <1>2, <1>7
    <2> QED
      BY <2>2, <2>3
  <1>9. all \in MethodTables
    BY <1>8 DEF MethodTables
  <1>10. \A m \in M : all[m] = IF m \in ToSet(d.methods) THEN this ELSE from[m]
    OBVIOUS
  <1>. HIDE DEF all, M
  <1>11. DOMAIN ClassInfo(t, d).methods = M /\ ClassInfo(t, d).methods \in MethodTables
         /\ \A m \in M : ClassInfo(t, d).methods[m] = IF m \in ToSet(d.methods) THEN this ELSE from[m]
    BY <1>4, <1>8, <1>9, <1>10
  <1>12. /\ ClassInfo(t, d).fields \in FieldLists
         /\ Len(ClassInfo(t, d).fields) = Len(inherited) + Len(d.fields)
         /\ \A k \in 1..Len(inherited) : ClassInfo(t, d).fields[k] = inherited[k]
         /\ \A k \in 1..Len(d.fields) :
               ClassInfo(t, d).fields[Len(inherited) + k] = [name |-> d.fields[k], declaredIn |-> this]
    BY <1>4, <1>5, <1>6
  <1> QED
    BY <1>1, <1>2, <1>11, <1>12 DEF M

LEMMA InfoType ==
    ASSUME NEW t \in Tables, NEW d \in Declarations, d.parent # NoParent => d.parent \in AllNames
    PROVE  /\ ClassInfo(t, d) \in Info
           /\ ClassInfo(t, d).name = d.name /\ ClassInfo(t, d).parent = ParentOf(t, d)
           /\ ClassInfo(t, d).depth = DepthOf(t, ParentOf(t, d)) /\ ClassInfo(t, d).load = t.load
  <1>1. ClassInfo(t, d).fields \in FieldLists /\ ClassInfo(t, d).methods \in MethodTables
    BY MembersAre
  <1>2. /\ ClassInfo(t, d).name = d.name /\ ClassInfo(t, d).parent = ParentOf(t, d)
        /\ ClassInfo(t, d).depth = DepthOf(t, ParentOf(t, d)) /\ ClassInfo(t, d).load = t.load
    BY DEF ClassInfo
  <1>3. /\ d.name \in AllNames /\ ParentOf(t, d) \in Nat /\ DepthOf(t, ParentOf(t, d)) \in Nat
        /\ t.load \in Nat
    <2>1. Len(t.infos) \in Nat /\ t.load \in Nat /\ d.name \in AllNames
      BY DEF Declarations, Tables, Table
    <2>2. ParentOf(t, d) \in 0..Len(t.infos) /\ DepthOf(t, ParentOf(t, d)) \in Nat
      BY ParentIs
    <2> QED
      BY <2>1, <2>2
  <1>4. ClassInfo(t, d) = [name |-> ClassInfo(t, d).name, parent |-> ClassInfo(t, d).parent,
                           depth |-> ClassInfo(t, d).depth, load |-> ClassInfo(t, d).load,
                           fields |-> ClassInfo(t, d).fields, methods |-> ClassInfo(t, d).methods]
    BY DEF ClassInfo
  <1> QED
    BY <1>1, <1>2, <1>3, <1>4 DEF Info

\* What building a class changes.
IsBuilt(t, d, u) ==
    /\ u \in Tables /\ u.ok
    /\ u.infos = Append(t.infos, ClassInfo(t, d))
    /\ u.count = IF t.byId[d.name] = 0 THEN t.count + 1 ELSE t.count
    /\ u.byId = [t.byId EXCEPT ![d.name] = Len(t.infos) + 1]
    /\ u.done = t.done \cup {d.name}
    /\ u.functions = t.functions /\ u.load = t.load

\* What giving up changes: only that the text has failed.
IsFailed(t, u) ==
    /\ u \in Tables /\ ~u.ok
    /\ u.infos = t.infos /\ u.count = t.count /\ u.byId = t.byId /\ u.epoch = t.epoch
    /\ u.done = t.done /\ u.functions = t.functions /\ u.load = t.load /\ u.run = t.run

LEMMA Failed ==
    ASSUME NEW t \in Tables
    PROVE  IsFailed(t, [t EXCEPT !.ok = FALSE])
  <1>. DEFINE u == [t EXCEPT !.ok = FALSE]
  <1>1. t \in Table /\ \A n \in AllNames : t.byId[n] <= Len(t.infos)
    BY DEF Tables
  <1>2. u \in Table
    BY <1>1 DEF Table
  <1>3. /\ u.infos = t.infos /\ u.count = t.count /\ u.byId = t.byId /\ u.epoch = t.epoch
        /\ u.done = t.done /\ u.functions = t.functions /\ u.load = t.load /\ u.run = t.run
    BY <1>1 DEF Table
  <1>4. ~u.ok
    BY <1>1 DEF Table
  <1>. HIDE DEF u
  <1>5. u \in Tables
    BY <1>1, <1>2, <1>3 DEF Tables
  <1> QED
    BY <1>3, <1>4, <1>5 DEF IsFailed, u

LEMMA Built ==
    ASSUME NEW t \in Tables, NEW d \in Declarations, t.ok, d.name \notin t.done, Buildable(t, d)
    PROVE  IsBuilt(t, d, Build(t, d))
  <1>. DEFINE info == ClassInfo(t, d)
              n == Len(t.infos) + 1
              id == [t.byId EXCEPT ![d.name] = n]
              count == IF t.byId[d.name] = 0 THEN t.count + 1 ELSE t.count
              ep == [t.epoch EXCEPT ![d.name] = t.run]
              u == Build(t, d)
  <1>1. d.parent # NoParent => d.parent \in AllNames
    BY DEF Buildable
  <1>2. info \in Info
    BY <1>1, InfoType
  <1>3. t \in Table /\ (\A m \in AllNames : t.byId[m] <= Len(t.infos)) /\ d.name \in AllNames
    BY DEF Tables, Declarations
  <1>. HIDE DEF info
  <1>4. /\ t.infos \in Seq(Info) /\ t.byId \in [AllNames -> Nat] /\ t.epoch \in [AllNames -> Nat]
        /\ t.count \in Nat /\ t.run \in Nat /\ t.done \in SUBSET AllNames /\ Len(t.infos) \in Nat
    BY <1>3 DEF Table
  <1>5. u = [t EXCEPT !.infos = Append(t.infos, info), !.count = count, !.byId = id, !.epoch = ep,
                      !.done = t.done \cup {d.name}]
    BY <1>3 DEF Build, info, Table
  <1>6. /\ Append(t.infos, info) \in Seq(Info) /\ id \in [AllNames -> Nat] /\ ep \in [AllNames -> Nat]
        /\ count \in Nat /\ t.done \cup {d.name} \in SUBSET AllNames
    BY <1>2, <1>3, <1>4
  <1>7. Len(Append(t.infos, info)) = n /\ \A m \in AllNames : id[m] <= n
    <2>1. Len(Append(t.infos, info)) = n
      BY <1>2, <1>4
    <2>2. \A m \in AllNames : id[m] = IF m = d.name THEN n ELSE t.byId[m]
      BY <1>4
    <2> QED
      BY <1>3, <1>4, <2>1, <2>2
  <1>. HIDE DEF u, id, ep, count
  <1>8. /\ u.infos = Append(t.infos, info) /\ u.count = count /\ u.byId = id /\ u.epoch = ep
        /\ u.done = t.done \cup {d.name}
        /\ u.functions = t.functions /\ u.load = t.load /\ u.run = t.run
    BY <1>3, <1>5 DEF Table
  <1>9. u.ok = t.ok
    BY <1>3, <1>5 DEF Table
  <1>10. u \in Table
    BY <1>3, <1>5, <1>6 DEF Table
  <1>11. u \in Tables
    BY <1>7, <1>8, <1>10 DEF Tables
  <1> QED
    BY <1>8, <1>9, <1>11 DEF IsBuilt, u, info, id, count

LEMMA NotBuilt ==
    ASSUME NEW t, NEW d, ~(t.ok /\ d.name \notin t.done /\ Buildable(t, d))
    PROVE  \/ Build(t, d) = t /\ (t.ok => d.name \in t.done)
           \/ Build(t, d) = [t EXCEPT !.ok = FALSE]
  BY DEF Build

LEMMA BuildType ==
    ASSUME NEW t \in Tables, NEW d \in Declarations
    PROVE  Build(t, d) \in Tables
  <1>1. CASE t.ok /\ d.name \notin t.done /\ Buildable(t, d)
    BY <1>1, Built DEF IsBuilt
  <1>2. CASE ~(t.ok /\ d.name \notin t.done /\ Buildable(t, d))
    <2>1. [t EXCEPT !.ok = FALSE] \in Tables
      BY Failed DEF IsFailed
    <2> QED
      BY <1>2, <2>1, NotBuilt
  <1> QED
    BY <1>1, <1>2

-----------------------------------------------------------------------------
(* The classes of a list c, each at its address. *)

InheritedBy(c, i) == IF c[i].parent = 0 THEN <<>> ELSE c[c[i].parent].fields

\* The fields of the parent and then its own, none twice; a field is of the class or an ancestor.
LaidOut(c, i) ==
    /\ Len(InheritedBy(c, i)) <= Len(c[i].fields)
    /\ \A k \in 1..Len(c[i].fields) :
          /\ IF k <= Len(InheritedBy(c, i)) THEN c[i].fields[k] = InheritedBy(c, i)[k]
                                            ELSE c[i].fields[k].declaredIn = i
          /\ c[i].fields[k].declaredIn <= i
    /\ \A k, m \in 1..Len(c[i].fields) : c[i].fields[k].name = c[i].fields[m].name => k = m

Resolved(c, i) ==
    c[i].parent # 0 =>
        \A m \in DOMAIN c[i].methods \cup DOMAIN c[c[i].parent].methods :
            /\ m \in DOMAIN c[i].methods
            /\ c[i].methods[m] # i => c[i].methods[m] = c[c[i].parent].methods[m]

Descends(c, i) ==
    /\ c[i].parent < i
    /\ c[i].depth = IF c[i].parent = 0 THEN 0 ELSE c[c[i].parent].depth + 1
    /\ c[i].depth <= MaxInheritanceDepth

WellFormed(c) == \A i \in 1..Len(c) : LaidOut(c, i) /\ Resolved(c, i) /\ Descends(c, i)

\* A class is what it was when another has been built.
LEMMA ClassStays ==
    ASSUME NEW c \in Seq(Info), NEW info \in Info, NEW i \in 1..Len(c),
           LaidOut(c, i), Resolved(c, i), Descends(c, i)
    PROVE  LET e == Append(c, info) IN LaidOut(e, i) /\ Resolved(e, i) /\ Descends(e, i)
  <1>. DEFINE e == Append(c, info)
  <1>1. Len(c) \in Nat /\ \A j \in 1..Len(c) : e[j] = c[j] /\ c[j] \in Info
    OBVIOUS
  <1>2. e[i] = c[i] /\ c[i].parent \in Nat
    BY <1>1 DEF Info
  <1>3. c[i].parent # 0 => e[c[i].parent] = c[c[i].parent]
    <2>1. c[i].parent < i
      BY DEF Descends
    <2> QED
      BY <1>1, <1>2, <2>1
  <1>. HIDE DEF e
  <1>4. LaidOut(e, i)
    <2>1. InheritedBy(e, i) = InheritedBy(c, i)
      BY <1>2, <1>3 DEF InheritedBy
    <2> QED
      BY <1>2, <2>1 DEF LaidOut
  <1>5. Resolved(e, i)
    BY <1>2, <1>3 DEF Resolved
  <1>6. Descends(e, i)
    BY <1>2, <1>3 DEF Descends
  <1> QED
    BY <1>4, <1>5, <1>6 DEF e

\* The checks of buildClass are what makes a class well formed.
LEMMA ClassFormed ==
    ASSUME NEW t \in Tables, NEW d \in Declarations, WellFormed(t.infos), Buildable(t, d)
    PROVE  WellFormed(Append(t.infos, ClassInfo(t, d)))
  <1>. DEFINE c == t.infos
              info == ClassInfo(t, d)
              this == Len(c) + 1
              e == Append(c, info)
              p == ParentOf(t, d)
              inherited == FieldsOf(t, p)
              from == MethodsOf(t, p)
  <1>1. /\ d.parent # NoParent => d.parent # d.name /\ d.parent \in AllNames /\ p # 0
        /\ DepthOf(t, p) <= MaxInheritanceDepth
        /\ FieldsFree(inherited, d)
    BY DEF Buildable
  <1>2. c \in Seq(Info) /\ Len(c) \in Nat
    BY DEF Tables, Table
  <1>3. /\ info \in Info /\ info.parent = p /\ info.depth = DepthOf(t, p)
        /\ p \in 0..Len(c) /\ inherited \in FieldLists
    BY <1>1, InfoType, ParentIs
  <1>4. /\ Len(info.fields) = Len(inherited) + Len(d.fields)
        /\ \A k \in 1..Len(inherited) : info.fields[k] = inherited[k]
        /\ \A k \in 1..Len(d.fields) :
              info.fields[Len(inherited) + k] = [name |-> d.fields[k], declaredIn |-> this]
        /\ DOMAIN info.methods = DOMAIN from \cup ToSet(d.methods)
        /\ \A m \in DOMAIN info.methods :
              info.methods[m] = IF m \in ToSet(d.methods) THEN this ELSE from[m]
    BY <1>1, MembersAre
  <1>5. Len(e) = this /\ e[this] = info /\ \A j \in 1..Len(c) : e[j] = c[j]
    BY <1>2, <1>3
  <1>. HIDE DEF info, e
  <1>6. p # 0 => e[p] = c[p] /\ p \in 1..Len(c)
    BY <1>2, <1>3, <1>5
  <1>7. InheritedBy(e, this) = inherited
    BY <1>3, <1>5, <1>6 DEF InheritedBy, FieldsOf
  <1>8. /\ Len(inherited) \in Nat /\ Len(d.fields) \in Nat /\ DOMAIN d.fields = 1..Len(d.fields)
        /\ DOMAIN inherited = 1..Len(inherited)
        /\ \A k \in 1..Len(inherited) : inherited[k] \in [name : STRING, declaredIn : Nat]
    <2>. DEFINE F == [name : STRING, declaredIn : Nat]
    <2>1. inherited \in Seq(F) /\ d.fields \in Seq(STRING)
      BY <1>3 DEF FieldLists, Declarations
    <2>. HIDE DEF F, inherited
    <2>2. /\ Len(inherited) \in Nat /\ DOMAIN inherited = 1..Len(inherited)
          /\ \A k \in 1..Len(inherited) : inherited[k] \in F
      BY <2>1
    <2>3. Len(d.fields) \in Nat /\ DOMAIN d.fields = 1..Len(d.fields)
      BY <2>1
    <2> QED
      BY <2>2, <2>3 DEF F
  <1>9. \A k \in 1..Len(inherited) : inherited[k].declaredIn <= Len(c)
    <2>1. CASE p = 0
      BY <2>1 DEF FieldsOf
    <2>2. CASE p # 0
      <3>1. LaidOut(c, p) /\ inherited = c[p].fields
        BY <1>6, <2>2 DEF WellFormed, FieldsOf
      <3>2. \A k \in 1..Len(inherited) : inherited[k].declaredIn <= p
        BY <3>1 DEF LaidOut
      <3> QED
        BY <1>2, <1>3, <1>8, <3>2
    <2> QED
      BY <2>1, <2>2
  <1>10. \A k, m \in 1..Len(inherited) : inherited[k].name = inherited[m].name => k = m
    <2>1. CASE p = 0
      BY <2>1 DEF FieldsOf
    <2>2. CASE p # 0
      <3>1. LaidOut(c, p) /\ inherited = c[p].fields
        BY <1>6, <2>2 DEF WellFormed, FieldsOf
      <3> QED
        BY <3>1 DEF LaidOut
    <2> QED
      BY <2>1, <2>2
  <1>11. ASSUME NEW k \in 1..Len(info.fields)
         PROVE  \/ k \in 1..Len(inherited) /\ info.fields[k] = inherited[k]
                \/ /\ k > Len(inherited) /\ k - Len(inherited) \in 1..Len(d.fields)
                   /\ info.fields[k].name = d.fields[k - Len(inherited)]
                   /\ info.fields[k].declaredIn = this
    <2>1. CASE k <= Len(inherited)
      BY <1>4, <1>8, <2>1
    <2>2. CASE k > Len(inherited)
      <3>. DEFINE j == k - Len(inherited)
      <3>1. j \in 1..Len(d.fields) /\ Len(inherited) + j = k
        BY <1>4, <1>8, <2>2
      <3>. HIDE DEF j
      <3>2. info.fields[k] = [name |-> d.fields[j], declaredIn |-> this]
        BY <1>4, <3>1
      <3>3. info.fields[k].name = d.fields[j] /\ info.fields[k].declaredIn = this
        BY <3>2
      <3> QED
        BY <2>2, <3>1, <3>3 DEF j
    <2> QED
      BY <1>4, <1>8, <2>1, <2>2
  <1>12. LaidOut(e, this)
    <2>1. Len(inherited) <= Len(info.fields)
      BY <1>4, <1>8
    <2>2. ASSUME NEW k \in 1..Len(info.fields)
          PROVE  /\ IF k <= Len(inherited) THEN info.fields[k] = inherited[k]
                                           ELSE info.fields[k].declaredIn = this
                 /\ info.fields[k].declaredIn <= this
      BY <1>2, <1>8, <1>9, <1>11
    <2>3. ASSUME NEW k \in 1..Len(info.fields), NEW m \in 1..Len(info.fields),
                 info.fields[k].name = info.fields[m].name
          PROVE  k = m
      <3>1. \A i, j \in 1..Len(d.fields) : d.fields[i] = d.fields[j] => i = j
        BY <1>1, <1>8 DEF FieldsFree, IsInjective
      <3>2. \A i \in 1..Len(d.fields), j \in 1..Len(inherited) : d.fields[i] # inherited[j].name
        <4>1. \A i \in 1..Len(d.fields) : d.fields[i] \in ToSet(d.fields)
          BY <1>8 DEF ToSet
        <4>2. \A j \in 1..Len(inherited) : inherited[j].name \in NamesOf(inherited)
          BY <1>8 DEF NamesOf
        <4> QED
          BY <1>1, <4>1, <4>2 DEF FieldsFree
      <3>3. CASE k \in 1..Len(inherited) /\ m \in 1..Len(inherited)
        <4>1. info.fields[k] = inherited[k] /\ info.fields[m] = inherited[m]
          BY <1>4, <3>3
        <4> QED
          BY <1>10, <2>3, <3>3, <4>1
      <3>4. CASE k \notin 1..Len(inherited) /\ m \notin 1..Len(inherited)
        <4>1. /\ k - Len(inherited) \in 1..Len(d.fields) /\ m - Len(inherited) \in 1..Len(d.fields)
              /\ info.fields[k].name = d.fields[k - Len(inherited)]
              /\ info.fields[m].name = d.fields[m - Len(inherited)]
          BY <1>11, <3>4
        <4>2. k - Len(inherited) = m - Len(inherited)
          BY <2>3, <3>1, <4>1
        <4> QED
          BY <1>8, <4>2
      <3>5. CASE k \in 1..Len(inherited) /\ m \notin 1..Len(inherited)
        <4>1. m - Len(inherited) \in 1..Len(d.fields)
              /\ info.fields[m].name = d.fields[m - Len(inherited)]
          BY <1>11, <3>5
        <4>2. info.fields[k].name = inherited[k].name
          BY <1>4, <3>5
        <4> QED
          BY <2>3, <3>2, <3>5, <4>1, <4>2
      <3>6. CASE k \notin 1..Len(inherited) /\ m \in 1..Len(inherited)
        <4>1. k - Len(inherited) \in 1..Len(d.fields)
              /\ info.fields[k].name = d.fields[k - Len(inherited)]
          BY <1>11, <3>6
        <4>2. info.fields[m].name = inherited[m].name
          BY <1>4, <3>6
        <4> QED
          BY <2>3, <3>2, <3>6, <4>1, <4>2
      <3> QED
        BY <3>3, <3>4, <3>5, <3>6
    <2> QED
      BY <1>5, <1>7, <2>1, <2>2, <2>3 DEF LaidOut
  <1>13. Resolved(e, this)
    <2>1. SUFFICES ASSUME p # 0, NEW m \in DOMAIN info.methods \cup DOMAIN c[p].methods
                   PROVE  /\ m \in DOMAIN info.methods
                          /\ info.methods[m] # this => info.methods[m] = c[p].methods[m]
      BY <1>3, <1>5, <1>6 DEF Resolved
    <2>2. from = c[p].methods
      BY <2>1 DEF MethodsOf
    <2> QED
      BY <1>4, <2>1, <2>2
  <1>14. Descends(e, this)
    <2>1. p < this
      BY <1>2, <1>3
    <2>2. info.depth = IF p = 0 THEN 0 ELSE c[p].depth + 1
      BY <1>3 DEF DepthOf
    <2> QED
      BY <1>1, <1>3, <1>5, <1>6, <2>1, <2>2 DEF Descends
  <1>15. ASSUME NEW i \in 1..Len(c)
         PROVE  LaidOut(e, i) /\ Resolved(e, i) /\ Descends(e, i)
    BY <1>2, <1>3, ClassStays DEF WellFormed, e
  <1> QED
    BY <1>2, <1>5, <1>12, <1>13, <1>14, <1>15 DEF WellFormed, e, info

-----------------------------------------------------------------------------
(* The versions of a name. *)

\* A load builds a name once, and extends the version of a parent that it built itself.
Versions(c) ==
    /\ \A i, j \in 1..Len(c) : c[i].load = c[j].load /\ c[i].name = c[j].name => i = j
    /\ \A i, j \in 1..Len(c) :
          c[i].parent # 0 /\ c[j].load = c[i].load /\ c[j].name = c[c[i].parent].name
              => j = c[i].parent

\* The names done are those of the classes that this load has built, and denote them.
ThisLoad(t) ==
    /\ t.load = loads + 1
    /\ \A i \in 1..Len(t.infos) :
          /\ t.infos[i].load <= t.load
          /\ t.infos[i].load = t.load => t.infos[i].name \in t.done
    /\ \A n \in t.done : t.byId[n] # 0 /\ t.infos[t.byId[n]].load = t.load

OneSpace(t) ==
    \A n \in AllNames : t.byId[n] # 0 => t.infos[t.byId[n]].name = n /\ n \notin t.functions \cup Natives

InUse(t) == {n \in ClassNames : t.byId[n] # 0}
Counted(t) == t.count = Cardinality(InUse(t)) /\ t.count <= MaxClasses

Kept(t) == /\ t \in Tables /\ WellFormed(t.infos) /\ Versions(t.infos)
           /\ ThisLoad(t) /\ OneSpace(t) /\ Counted(t)

\* What the checks before the first class of a text is built have made sure of.
NamesIn(decls) == {decls[i].name : i \in DOMAIN decls}
Text(t, decls) ==
    /\ decls \in Seq(Declarations)
    /\ \A i, j \in DOMAIN decls : decls[i].name = decls[j].name => i = j
    /\ NamesIn(decls) \cap (t.functions \cup Natives \cup {Builtin.name}) = {}
    /\ t.count + Added(t, decls) <= MaxClasses
    /\ \A i \in 1..Len(t.infos) :
          t.infos[i].load = t.load /\ t.infos[i].parent # 0
          /\ t.infos[t.infos[i].parent].name \in NamesIn(decls)
              => t.infos[t.infos[i].parent].load = t.load

\* The parent that the text declares is built.
Ready(t, decls, i) == decls[i].parent \in NamesIn(decls) => decls[i].parent \in t.done

LEMMA BuiltVersions ==
    ASSUME NEW t, NEW decls, NEW i, Kept(t), Text(t, decls), i \in DOMAIN decls, Ready(t, decls, i),
           t.ok, decls[i].name \notin t.done, Buildable(t, decls[i]), NEW u, IsBuilt(t, decls[i], u)
    PROVE  /\ Versions(u.infos) /\ ThisLoad(u)
           /\ \A k \in 1..Len(u.infos) :
                 u.infos[k].load = u.load /\ u.infos[k].parent # 0
                 /\ u.infos[u.infos[k].parent].name \in NamesIn(decls)
                     => u.infos[u.infos[k].parent].load = u.load
  <1>. DEFINE d == decls[i]
              c == t.infos
              info == ClassInfo(t, d)
              this == Len(c) + 1
              e == u.infos
              p == ParentOf(t, d)
  <1>1. t \in Tables /\ d \in Declarations /\ c \in Seq(Info) /\ Len(c) \in Nat
    BY DEF Kept, Text, Tables, Table
  <1>2. /\ d.parent # NoParent => d.parent # d.name /\ d.parent \in AllNames /\ p # 0
    BY DEF Buildable
  <1>3. /\ info \in Info /\ info.parent = p /\ info.name = d.name /\ info.load = t.load
        /\ p \in 0..Len(c)
    BY <1>1, <1>2, InfoType, ParentIs
  <1>4. /\ e = Append(c, info) /\ u.byId = [t.byId EXCEPT ![d.name] = this]
        /\ u.done = t.done \cup {d.name} /\ u.load = t.load
    BY DEF IsBuilt
  <1>. HIDE DEF info
  <1>5. Len(e) = this /\ e[this] = info /\ \A j \in 1..Len(c) : e[j] = c[j]
    BY <1>1, <1>3, <1>4
  <1>. HIDE DEF e
  <1>6. p # 0 => /\ p \in 1..Len(c) /\ d.parent \in AllNames /\ p = t.byId[d.parent]
                 /\ c[p].name = d.parent /\ d.parent # d.name
    <2>1. SUFFICES ASSUME p # 0
                   PROVE  /\ p \in 1..Len(c) /\ d.parent \in AllNames /\ p = t.byId[d.parent]
                          /\ c[p].name = d.parent /\ d.parent # d.name
      OBVIOUS
    <2>2. d.parent # NoParent /\ p = t.byId[d.parent]
      BY <2>1 DEF ParentOf
    <2> QED
      BY <1>1, <1>2, <1>3, <2>1, <2>2 DEF Kept, OneSpace
  <1>7. \A k \in 1..Len(c) : c[k].parent # 0 => c[k].parent \in 1..Len(c)
    <2>1. ASSUME NEW k \in 1..Len(c), c[k].parent # 0
          PROVE  c[k].parent \in 1..Len(c)
      <3>1. c[k].parent \in Nat /\ c[k].parent < k
        <4>1. c[k] \in Info
          BY <1>1
        <4>2. Descends(c, k)
          BY DEF Kept, WellFormed
        <4> QED
          BY <4>1, <4>2 DEF Info, Descends
      <3> QED
        BY <1>1, <2>1, <3>1
    <2> QED
      BY <2>1
  <1>8. \A n \in t.done : /\ n \in AllNames /\ t.byId[n] \in 1..Len(c)
                          /\ c[t.byId[n]].load = t.load /\ c[t.byId[n]].name = n
    <2>1. ASSUME NEW n \in t.done
          PROVE  /\ n \in AllNames /\ t.byId[n] \in 1..Len(c)
                 /\ c[t.byId[n]].load = t.load /\ c[t.byId[n]].name = n
      <3>1. n \in AllNames /\ t.byId[n] \in Nat /\ t.byId[n] <= Len(c)
        BY <1>1 DEF Tables, Table
      <3>2. t.byId[n] # 0 /\ c[t.byId[n]].load = t.load
        BY DEF Kept, ThisLoad
      <3> QED
        BY <1>1, <3>1, <3>2 DEF Kept, OneSpace
    <2> QED
      BY <2>1
  <1>9. \A k \in 1..Len(c) : /\ c[k].load <= t.load
                             /\ c[k].load = t.load => c[k].name \in t.done /\ c[k].name # d.name
    BY DEF Kept, ThisLoad
  <1>10. /\ \A k, j \in 1..Len(c) : c[k].load = c[j].load /\ c[k].name = c[j].name => k = j
         /\ \A k, j \in 1..Len(c) :
               c[k].parent # 0 /\ c[j].load = c[k].load /\ c[j].name = c[c[k].parent].name
                   => j = c[k].parent
    BY DEF Kept, Versions
  <1>11. \A k \in 1..Len(e) : k \in 1..Len(c) \/ k = this
    BY <1>1, <1>5
  <1>12. ASSUME NEW k \in 1..Len(e), NEW j \in 1..Len(e), e[k].load = e[j].load, e[k].name = e[j].name
         PROVE  k = j
    <2>1. CASE k = this /\ j # this
      <3>1. j \in 1..Len(c) /\ c[j].load = t.load /\ c[j].name = d.name
        BY <1>3, <1>5, <1>11, <1>12, <2>1
      <3> QED
        BY <1>9, <3>1
    <2>2. CASE k # this /\ j = this
      <3>1. k \in 1..Len(c) /\ c[k].load = t.load /\ c[k].name = d.name
        BY <1>3, <1>5, <1>11, <1>12, <2>2
      <3> QED
        BY <1>9, <3>1
    <2>3. CASE k # this /\ j # this
      <3>1. /\ k \in 1..Len(c) /\ e[k] = c[k] /\ j \in 1..Len(c) /\ e[j] = c[j]
        BY <1>5, <1>11, <2>3
      <3> QED
        BY <1>10, <1>12, <3>1
    <2> QED
      BY <2>1, <2>2, <2>3
  <1>13. ASSUME NEW k \in 1..Len(e), NEW j \in 1..Len(e),
                e[k].parent # 0, e[j].load = e[k].load, e[j].name = e[e[k].parent].name
         PROVE  j = e[k].parent
    <2>1. CASE k = this
      <3>1. e[k].parent = p /\ p # 0 /\ e[p] = c[p] /\ e[j].load = t.load /\ e[j].name = d.parent
        BY <1>3, <1>5, <1>6, <1>13, <2>1
      <3>2. j # this
        BY <1>3, <1>5, <1>6, <3>1
      <3>3. j \in 1..Len(c) /\ e[j] = c[j]
        BY <1>5, <1>11, <3>2
      <3>4. c[j].name \in t.done /\ c[j].name = d.parent
        BY <1>9, <3>1, <3>3
      <3>5. c[p].load = t.load
        BY <1>6, <1>8, <3>1, <3>4
      <3> QED
        BY <1>6, <1>10, <3>1, <3>3, <3>5
    <2>2. CASE k # this
      <3>1. k \in 1..Len(c) /\ e[k] = c[k] /\ c[k].parent \in 1..Len(c) /\ e[c[k].parent] = c[c[k].parent]
        BY <1>5, <1>7, <1>11, <1>13, <2>2
      <3>2. CASE j = this
        <4>1. c[k].load = t.load /\ c[c[k].parent].name = d.name
          BY <1>3, <1>5, <1>13, <3>1, <3>2
        <4>2. d.name \in NamesIn(decls)
          BY DEF NamesIn
        <4>3. c[c[k].parent].load = t.load
          BY <1>13, <3>1, <4>1, <4>2 DEF Text
        <4> QED
          BY <1>9, <3>1, <4>1, <4>3
      <3>3. CASE j # this
        <4>1. j \in 1..Len(c) /\ e[j] = c[j]
          BY <1>5, <1>11, <3>3
        <4> QED
          BY <1>10, <1>13, <3>1, <4>1
      <3> QED
        BY <3>2, <3>3
    <2> QED
      BY <2>1, <2>2
  <1>14. Versions(e)
    BY <1>12, <1>13 DEF Versions
  <1>15. ThisLoad(u)
    <2>1. ASSUME NEW k \in 1..Len(e)
          PROVE  e[k].load <= u.load /\ (e[k].load = u.load => e[k].name \in u.done)
      <3>1. t.load \in Nat
        BY <1>1 DEF Tables, Table
      <3> QED
        BY <1>3, <1>4, <1>5, <1>9, <1>11, <3>1
    <2>2. ASSUME NEW n \in u.done
          PROVE  u.byId[n] # 0 /\ e[u.byId[n]].load = u.load
      <3>1. t.byId \in [AllNames -> Nat] /\ d.name \in AllNames
        BY <1>1 DEF Tables, Table, Declarations
      <3>2. CASE n = d.name
        BY <1>1, <1>3, <1>4, <1>5, <3>1, <3>2
      <3>3. CASE n # d.name
        <4>1. n \in t.done /\ n \in AllNames
          BY <1>4, <1>8, <3>3
        <4>2. u.byId[n] = t.byId[n]
          BY <1>4, <3>1, <3>3, <4>1
        <4>3. t.byId[n] \in 1..Len(c) /\ c[t.byId[n]].load = t.load
          BY <1>8, <4>1
        <4> QED
          BY <1>4, <1>5, <4>2, <4>3
      <3> QED
        BY <3>2, <3>3
    <2>3. u.load = loads + 1
      BY <1>4 DEF Kept, ThisLoad
    <2> QED
      BY <2>1, <2>2, <2>3 DEF ThisLoad, e
  <1>16. ASSUME NEW k \in 1..Len(e), e[k].load = u.load, e[k].parent # 0,
                e[e[k].parent].name \in NamesIn(decls)
         PROVE  e[e[k].parent].load = u.load
    <2>1. CASE k = this
      <3>1. e[k].parent = p /\ p # 0 /\ e[p] = c[p] /\ d.parent \in NamesIn(decls)
        BY <1>3, <1>5, <1>6, <1>16, <2>1
      <3>2. d.parent \in t.done
        BY <3>1 DEF Ready
      <3> QED
        BY <1>4, <1>6, <1>8, <3>1, <3>2
    <2>2. CASE k # this
      <3>1. k \in 1..Len(c) /\ e[k] = c[k] /\ c[k].parent \in 1..Len(c) /\ e[c[k].parent] = c[c[k].parent]
        BY <1>5, <1>7, <1>11, <1>16, <2>2
      <3> QED
        BY <1>4, <1>16, <3>1 DEF Text
    <2> QED
      BY <2>1, <2>2
  <1> QED
    BY <1>14, <1>15, <1>16 DEF e

-----------------------------------------------------------------------------
(* Names in use, and how many. *)

NewPlaces(t, decls) == {i \in DOMAIN decls : t.byId[decls[i].name] = 0}

LEMMA AddedType ==
    ASSUME NEW t, NEW decls \in Seq(Declarations)
    PROVE  IsFiniteSet(NewPlaces(t, decls)) /\ Added(t, decls) \in Nat
           /\ Added(t, decls) = Cardinality(NewPlaces(t, decls))
  <1>1. DOMAIN decls = 1..Len(decls) /\ Len(decls) \in Nat /\ NewPlaces(t, decls) \subseteq DOMAIN decls
    BY DEF NewPlaces
  <1>2. IsFiniteSet(1..Len(decls))
    BY <1>1, FS_Interval
  <1>3. IsFiniteSet(NewPlaces(t, decls))
    BY <1>1, <1>2, FS_Subset
  <1>4. Cardinality(NewPlaces(t, decls)) \in Nat
    BY <1>3, FS_CardinalityType
  <1> QED
    BY <1>3, <1>4 DEF Added, NewPlaces

LEMMA BuiltNames ==
    ASSUME NEW t, NEW decls, NEW i, Kept(t), Text(t, decls), i \in DOMAIN decls,
           NEW u, IsBuilt(t, decls[i], u)
    PROVE  OneSpace(u) /\ Counted(u) /\ u.count + Added(u, decls) <= MaxClasses
  <1>. DEFINE d == decls[i]
              this == Len(t.infos) + 1
  <1>1. /\ t \in Tables /\ d \in Declarations /\ t.infos \in Seq(Info) /\ Len(t.infos) \in Nat
        /\ t.byId \in [AllNames -> Nat] /\ t.count \in Nat /\ d.name \in AllNames
        /\ \A n \in AllNames : t.byId[n] <= Len(t.infos)
    <2>1. t \in Tables /\ d \in Declarations
      BY DEF Kept, Text
    <2>2. d.name \in AllNames
      BY <2>1 DEF Declarations
    <2> QED
      BY <2>1, <2>2 DEF Tables, Table
  <1>2. /\ u.byId = [t.byId EXCEPT ![d.name] = this] /\ u.functions = t.functions
        /\ u.infos = Append(t.infos, ClassInfo(t, d)) /\ u \in Tables
        /\ u.count = IF t.byId[d.name] = 0 THEN t.count + 1 ELSE t.count
    BY DEF IsBuilt
  <1>3. \A n \in AllNames : u.byId[n] = IF n = d.name THEN this ELSE t.byId[n]
    BY <1>1, <1>2
  <1>4. d.name \in NamesIn(decls)
    BY DEF NamesIn
  <1>5. d.name \in ClassNames /\ d.name \notin t.functions \cup Natives
    BY <1>1, <1>4 DEF Text, AllNames
  <1>6. OneSpace(u)
    <2>1. ASSUME NEW n \in AllNames, u.byId[n] # 0
          PROVE  u.infos[u.byId[n]].name = n /\ n \notin u.functions \cup Natives
      <3>1. CASE n = d.name
        <4>1. u.infos[this] = ClassInfo(t, d)
          BY <1>1, <1>2
        <4>2. ClassInfo(t, d).name = d.name
          BY DEF ClassInfo
        <4> QED
          BY <1>2, <1>3, <1>5, <3>1, <4>1, <4>2
      <3>2. CASE n # d.name
        <4>1. u.byId[n] = t.byId[n] /\ t.byId[n] \in 1..Len(t.infos)
          BY <1>1, <1>3, <2>1, <3>2
        <4>2. u.infos[t.byId[n]] = t.infos[t.byId[n]]
          BY <1>1, <1>2, <4>1
        <4> QED
          BY <1>2, <2>1, <4>1, <4>2 DEF Kept, OneSpace
      <3> QED
        BY <3>1, <3>2
    <2> QED
      BY <2>1 DEF OneSpace
  <1>7. /\ IsFiniteSet(InUse(t)) /\ InUse(u) = InUse(t) \cup {d.name}
        /\ d.name \in InUse(t) <=> t.byId[d.name] # 0
    <2>1. InUse(t) \subseteq ClassNames
      BY DEF InUse
    <2>2. IsFiniteSet(InUse(t))
      BY <2>1, ClassesAssumption, FS_Subset
    <2>3. ClassNames \subseteq AllNames
      BY DEF AllNames
    <2> QED
      BY <1>1, <1>3, <1>5, <2>2, <2>3 DEF InUse
  <1>8. u.count = Cardinality(InUse(u))
    <2>1. Cardinality(InUse(u)) = IF d.name \in InUse(t) THEN Cardinality(InUse(t))
                                  ELSE Cardinality(InUse(t)) + 1
      BY <1>7, FS_AddElement
    <2> QED
      BY <1>2, <1>7, <2>1 DEF Kept, Counted
  <1>9. NewPlaces(u, decls) = NewPlaces(t, decls) \ {i}
    <2>1. ASSUME NEW j \in DOMAIN decls
          PROVE  u.byId[decls[j].name] = 0 <=> t.byId[decls[j].name] = 0 /\ j # i
      <3>1. decls[j].name \in AllNames /\ (j # i => decls[j].name # d.name)
        <4>1. decls[j] \in Declarations
          BY DEF Text
        <4>2. decls[j].name \in AllNames
          BY <4>1 DEF Declarations
        <4> QED
          BY <4>2 DEF Text
      <3> QED
        BY <1>1, <1>3, <3>1
    <2> QED
      BY <2>1 DEF NewPlaces
  <1>10. u.count + Added(u, decls) = t.count + Added(t, decls)
    <2>1. /\ IsFiniteSet(NewPlaces(t, decls)) /\ Added(t, decls) \in Nat
          /\ Added(t, decls) = Cardinality(NewPlaces(t, decls))
          /\ Added(u, decls) = Cardinality(NewPlaces(u, decls))
      BY AddedType DEF Text
    <2>2. Cardinality(NewPlaces(u, decls)) = IF i \in NewPlaces(t, decls) THEN Cardinality(NewPlaces(t, decls)) - 1
                                         ELSE Cardinality(NewPlaces(t, decls))
      BY <1>9, <2>1, FS_RemoveElement
    <2>3. i \in NewPlaces(t, decls) <=> t.byId[d.name] = 0
      BY DEF NewPlaces
    <2> QED
      BY <1>1, <1>2, <2>1, <2>2, <2>3
  <1>11. u.count + Added(u, decls) <= MaxClasses
    BY <1>10 DEF Text
  <1>12. u.count <= MaxClasses
    <2>1. Added(u, decls) \in Nat
      BY AddedType DEF Text
    <2>2. u.count \in Nat /\ MaxClasses \in Nat
      BY <1>2, ClassesAssumption DEF Tables, Table
    <2> QED
      BY <1>11, <2>1, <2>2
  <1> QED
    BY <1>6, <1>8, <1>11, <1>12 DEF Counted

-----------------------------------------------------------------------------
(* Building a class of a text whose parent is ready keeps the table. *)

\* A table that has only failed is as good as before.
LEMMA FailedKept ==
    ASSUME NEW t, Kept(t), NEW u, IsFailed(t, u)
    PROVE  Kept(u) /\ \A decls : Text(t, decls) => Text(u, decls)
  <1>1. InUse(u) = InUse(t)
    BY DEF IsFailed, InUse
  <1>2. \A decls : Added(u, decls) = Added(t, decls)
    BY DEF IsFailed, Added
  <1>3. Kept(u)
    BY <1>1 DEF Kept, IsFailed, ThisLoad, OneSpace, Counted
  <1>4. \A decls : Text(t, decls) => Text(u, decls)
    BY <1>2 DEF Text, IsFailed
  <1> QED
    BY <1>3, <1>4

LEMMA BuildKeeps ==
    ASSUME NEW t, NEW decls, NEW i, Kept(t), Text(t, decls), i \in DOMAIN decls,
           t.ok => Ready(t, decls, i), NEW u, u = Build(t, decls[i])
    PROVE  Kept(u) /\ Text(u, decls) /\ (u.ok => decls[i].name \in u.done)
  <1>. DEFINE d == decls[i]
  <1>1. t \in Tables /\ d \in Declarations
    BY DEF Kept, Text
  <1>2. CASE t.ok /\ d.name \notin t.done /\ Buildable(t, d)
    <2>1. IsBuilt(t, d, u)
      BY <1>1, <1>2, Built
    <2>2. /\ Versions(u.infos) /\ ThisLoad(u)
          /\ \A k \in 1..Len(u.infos) :
                u.infos[k].load = u.load /\ u.infos[k].parent # 0
                /\ u.infos[u.infos[k].parent].name \in NamesIn(decls)
                    => u.infos[u.infos[k].parent].load = u.load
      BY <1>2, <2>1, BuiltVersions
    <2>3. OneSpace(u) /\ Counted(u) /\ u.count + Added(u, decls) <= MaxClasses
      BY <2>1, BuiltNames
    <2>4. u \in Tables /\ u.infos = Append(t.infos, ClassInfo(t, d)) /\ u.functions = t.functions
          /\ d.name \in u.done
      BY <2>1 DEF IsBuilt
    <2>5. WellFormed(u.infos)
      BY <1>1, <1>2, <2>4, ClassFormed DEF Kept
    <2>6. Kept(u)
      BY <2>2, <2>3, <2>4, <2>5 DEF Kept
    <2>7. Text(u, decls)
      BY <2>2, <2>3, <2>4 DEF Text
    <2> QED
      BY <2>4, <2>6, <2>7
  <1>3. CASE ~(t.ok /\ d.name \notin t.done /\ Buildable(t, d))
    <2>1. CASE u = t /\ (t.ok => d.name \in t.done)
      BY <2>1
    <2>2. CASE u = [t EXCEPT !.ok = FALSE]
      <3>1. IsFailed(t, u)
        BY <1>1, <2>2, Failed
      <3> QED
        BY <3>1, FailedKept DEF IsFailed
    <2> QED
      BY <1>3, <2>1, <2>2, NotBuilt
  <1> QED
    BY <1>2, <1>3

-----------------------------------------------------------------------------
(* A class and its ancestors of the same text. *)

LEMMA NamedIs ==
    ASSUME NEW decls \in Seq(Declarations), NEW n
    PROVE  /\ Named(decls, n) \in 0..Len(decls)
           /\ Named(decls, n) # 0 => Named(decls, n) \in DOMAIN decls /\ decls[Named(decls, n)].name = n
           /\ Named(decls, n) = 0 => n \notin NamesIn(decls)
  <1>. DEFINE I == {i \in 1..Len(decls) : decls[i].name = n}
  <1>1. Named(decls, n) = IF I # {} THEN Min(I) ELSE 0
    BY DEF Named, SelectInSeq
  <1>2. DOMAIN decls = 1..Len(decls) /\ Len(decls) \in Nat
    OBVIOUS
  <1>3. CASE I = {}
    <2>1. n \notin NamesIn(decls)
      BY <1>2, <1>3 DEF NamesIn
    <2> QED
      BY <1>1, <1>2, <1>3, <2>1
  <1>4. CASE I # {}
    <2>1. \E x \in I : \A y \in I : x <= y
      <3>1. I \subseteq Nat
        BY <1>2
      <3>. HIDE DEF I
      <3> QED
        BY <1>4, <3>1, Least
    <2>2. Min(I) \in I
      <3>. HIDE DEF I
      <3> QED
        BY <2>1 DEF Min
    <2>3. Named(decls, n) \in I
      BY <1>1, <1>4, <2>2
    <2> QED
      BY <1>2, <2>3
  <1> QED
    BY <1>3, <1>4

\* The place of the parent in the text, none when there is none.
Above(decls, k) == IF k = 0 THEN 0 ELSE Named(decls, decls[k].parent)

LEMMA AboveType ==
    ASSUME NEW decls \in Seq(Declarations), NEW k
    PROVE  Above(decls, k) \in 0..Len(decls)
  <1>1. Len(decls) \in Nat
    OBVIOUS
  <1> QED
    BY <1>1, NamedIs DEF Above

LEMMA LineageIs ==
    ASSUME NEW decls \in Seq(Declarations), NEW i \in DOMAIN decls
    PROVE  /\ Lineage(decls, i) \in Seq(0..Len(decls)) /\ Len(Lineage(decls, i)) = Len(decls) + 1
           /\ Lineage(decls, i)[1] = i
           /\ \A k \in 1..Len(decls) : Lineage(decls, i)[k + 1] = Above(decls, Lineage(decls, i)[k])
  <1>. DEFINE n == Len(decls)
              Is(f) == f = [k \in 0..n |-> IF k = 0 THEN i
                                           ELSE IF f[k - 1] = 0 THEN 0
                                                ELSE Named(decls, decls[f[k - 1]].parent)]
              up == CHOOSE f : Is(f)
              step == [p \in (0..n) \X {0} |-> Above(decls, p[1])]
              s == [k \in 1..n |-> 0]
  <1>1. n \in Nat /\ i \in 1..n
    OBVIOUS
  <1>2. Lineage(decls, i) = [k \in 1..(n + 1) |-> up[k - 1]]
    BY DEF Lineage
  <1>3. \A x \in 0..n : step[<<x, 0>>] = Above(decls, x)
    OBVIOUS
  <1>4. PICK g : IsChain(step, i, s, n, g)
    BY <1>1, ChainExists
  <1>5. \A k \in 1..n : s[k] = 0
    OBVIOUS
  <1>. HIDE DEF step, s, n
  <1>6. \A k \in 0..n : g[k] = IF k = 0 THEN i ELSE step[<<g[k - 1], s[k]>>]
    BY <1>4 DEF IsChain
  <1>7. \A k \in 0..n : g[k] \in 0..n
    <2>. DEFINE Outside == {k \in 0..n : g[k] \notin 0..n}
    <2>1. SUFFICES ASSUME Outside # {}
                   PROVE  FALSE
      OBVIOUS
    <2>2. PICK k \in Outside : \A j \in Outside : k <= j
      <3>1. Outside \subseteq Nat
        BY <1>1
      <3>. HIDE DEF Outside
      <3> QED
        BY <2>1, <3>1, Least
    <2>3. k # 0
      <3>1. 0 \in 0..n /\ g[0] = i /\ i \in 0..n
        <4>1. 0 \in 0..n /\ i \in 0..n
          BY <1>1
        <4> QED
          BY <1>6, <4>1
      <3> QED
        BY <2>2, <3>1
    <2>4. k \in 1..n /\ k - 1 \in 0..n /\ k - 1 \notin Outside
      BY <1>1, <2>2, <2>3
    <2>5. g[k] = Above(decls, g[k - 1])
      BY <1>3, <1>5, <1>6, <2>3, <2>4
    <2>6. g[k] \in 0..n
      BY <2>5, AboveType DEF n
    <2> QED
      BY <2>2, <2>6
  <1>8. Is(g)
    <2>1. ASSUME NEW k \in 0..n
          PROVE  g[k] = IF k = 0 THEN i
                        ELSE IF g[k - 1] = 0 THEN 0 ELSE Named(decls, decls[g[k - 1]].parent)
      <3>1. CASE k = 0
        BY <1>6, <3>1
      <3>2. CASE k # 0
        <4>1. k \in 1..n /\ k - 1 \in 0..n
          BY <1>1, <3>2
        <4>2. g[k] = Above(decls, g[k - 1])
          BY <1>3, <1>5, <1>6, <1>7, <3>2, <4>1
        <4> QED
          BY <3>2, <4>2 DEF Above
      <3> QED
        BY <3>1, <3>2
    <2>2. g = [k \in 0..n |-> g[k]]
      BY <1>4 DEF IsChain
    <2> QED
      BY <2>1, <2>2
  <1>9. Is(up)
    BY <1>8
  <1>. HIDE DEF up
  <1>10. up[0] = i /\ \A k \in 1..n : up[k] = Above(decls, up[k - 1])
    <2>1. up[0] = i
      BY <1>1, <1>9
    <2>2. ASSUME NEW k \in 1..n
          PROVE  up[k] = Above(decls, up[k - 1])
      <3>1. k \in 0..n /\ k # 0
        BY <1>1
      <3>2. up[k] = IF up[k - 1] = 0 THEN 0 ELSE Named(decls, decls[up[k - 1]].parent)
        BY <1>9, <3>1
      <3> QED
        BY <3>2 DEF Above
    <2> QED
      BY <2>1, <2>2
  <1>11. \A k \in 0..n : up[k] \in 0..n
    <2>1. ASSUME NEW k \in 0..n
          PROVE  up[k] \in 0..n
      <3>1. CASE k = 0
        BY <1>1, <1>10, <3>1
      <3>2. CASE k # 0
        <4>1. k \in 1..n
          BY <1>1, <3>2
        <4> QED
          BY <1>10, <4>1, AboveType DEF n
      <3> QED
        BY <3>1, <3>2
    <2> QED
      BY <2>1
  <1>. DEFINE l == Lineage(decls, i)
  <1>12. \A k \in 1..(n + 1) : l[k] = up[k - 1] /\ k - 1 \in 0..n
    BY <1>1, <1>2
  <1>13. l \in Seq(0..n) /\ Len(l) = n + 1
    <2>1. n + 1 \in Nat /\ l \in [1..(n + 1) -> 0..n]
      BY <1>1, <1>2, <1>11, <1>12
    <2>. DEFINE m == n + 1
                F == 0..n
    <2>. HIDE DEF l, m, F
    <2>2. m \in Nat /\ l \in [1..m -> F]
      BY <2>1 DEF m, F
    <2>3. l \in Seq(F) /\ Len(l) = m
      BY <2>2
    <2> QED
      BY <2>3 DEF m, F
  <1>14. ASSUME NEW k \in 1..n
         PROVE  l[k + 1] = Above(decls, l[k])
    <2>1. k + 1 \in 1..(n + 1) /\ k \in 1..(n + 1) /\ (k + 1) - 1 = k
      BY <1>1
    <2>2. l[k + 1] = up[k] /\ l[k] = up[k - 1]
      BY <1>12, <2>1
    <2> QED
      BY <1>10, <2>2
  <1>15. l[1] = i
    <2>1. 1 \in 1..(n + 1) /\ 1 - 1 = 0
      BY <1>1
    <2> QED
      BY <1>10, <1>12, <2>1
  <1> QED
    BY <1>13, <1>14, <1>15 DEF n

\* Read from the oldest on, nothing comes first and each is above the next.
LEMMA OldestFirst ==
    ASSUME NEW decls \in Seq(Declarations), NEW i \in DOMAIN decls, ~Circular(decls, i),
           NEW r, r = Reverse(Lineage(decls, i))
    PROVE  /\ r \in Seq(0..Len(decls)) /\ Len(r) = Len(decls) + 1
           /\ r[1] = 0 /\ r[Len(r)] = i
           /\ \A k \in 2..Len(r) : r[k - 1] = Above(decls, r[k])
  <1>. DEFINE n == Len(decls)
              l == Lineage(decls, i)
              F == 0..n
  <1>1. n \in Nat /\ l \in Seq(F) /\ Len(l) = n + 1 /\ l[1] = i
        /\ \A k \in 1..n : l[k + 1] = Above(decls, l[k])
    BY LineageIs
  <1>2. 0 \in ToSet(l)
    BY DEF Circular
  <1>. HIDE DEF l, F
  <1>3. r \in Seq(F) /\ Len(r) = n + 1 /\ \A k \in 1..(n + 1) : r[k] = l[n + 2 - k]
    <2>1. r = [k \in 1..(n + 1) |-> l[n + 1 - k + 1]]
      BY <1>1 DEF Reverse, l
    <2>2. \A k \in 1..(n + 1) : n + 1 - k + 1 = n + 2 - k /\ n + 2 - k \in 1..(n + 1)
      BY <1>1
    <2>3. \A k \in 1..(n + 1) : l[k] \in F
      BY <1>1
    <2>4. r \in [1..(n + 1) -> F] /\ \A k \in 1..(n + 1) : r[k] = l[n + 2 - k]
      BY <2>1, <2>2, <2>3
    <2>. DEFINE m == n + 1
    <2>5. m \in Nat
      BY <1>1
    <2>. HIDE DEF m
    <2>6. r \in [1..m -> F]
      BY <2>4 DEF m
    <2>7. r \in Seq(F) /\ Len(r) = m
      BY <2>5, <2>6
    <2> QED
      BY <2>4, <2>7 DEF m
  <1>4. l[n + 1] = 0
    <2>1. SUFFICES ASSUME l[n + 1] # 0
                   PROVE  FALSE
      OBVIOUS
    <2>. DEFINE Ends == {k \in 1..(n + 1) : l[k] = 0}
    <2>2. Ends # {} /\ Ends \subseteq 1..(n + 1)
      BY <1>1, <1>2 DEF ToSet
    <2>3. PICK k \in Ends : \A j \in Ends : j <= k
      <3>. DEFINE m == n + 1
      <3>1. m \in Nat /\ Ends \subseteq Nat /\ \A x \in Ends : x <= m
        BY <1>1
      <3>. HIDE DEF Ends, m
      <3> QED
        BY <2>2, <3>1, Greatest
    <2>4. k \in 1..n /\ k + 1 \in 1..(n + 1)
      BY <1>1, <2>1, <2>3
    <2>5. l[k + 1] = 0
      BY <1>1, <2>3, <2>4 DEF Above
    <2>6. k + 1 \in Ends /\ ~(k + 1 <= k)
      BY <2>4, <2>5
    <2> QED
      BY <2>3, <2>6
  <1>5. r[1] = 0 /\ r[n + 1] = i
    <2>1. 1 \in 1..(n + 1) /\ n + 1 \in 1..(n + 1) /\ n + 2 - 1 = n + 1 /\ n + 2 - (n + 1) = 1
      BY <1>1
    <2> QED
      BY <1>1, <1>3, <1>4, <2>1
  <1>6. ASSUME NEW k \in 2..(n + 1)
        PROVE  r[k - 1] = Above(decls, r[k])
    <2>. DEFINE j == n + 2 - k
    <2>1. k \in 1..(n + 1) /\ k - 1 \in 1..(n + 1) /\ j \in 1..n /\ n + 2 - (k - 1) = j + 1
      BY <1>1
    <2>2. r[k - 1] = l[j + 1] /\ r[k] = l[j]
      BY <1>3, <2>1
    <2>. HIDE DEF j
    <2> QED
      BY <1>1, <2>1, <2>2
  <1> QED
    BY <1>1, <1>3, <1>5, <1>6 DEF F

-----------------------------------------------------------------------------
(* Building a class and what is above it in its text. *)

Along(decls) == [p \in Tables \X (0..Len(decls)) |->
                    IF p[2] = 0 THEN p[1] ELSE Build(p[1], decls[p[2]])]

LEMMA AlongType ==
    ASSUME NEW decls \in Seq(Declarations)
    PROVE  /\ Along(decls) \in [Tables \X (0..Len(decls)) -> Tables]
           /\ \A t \in Tables, k \in 0..Len(decls) :
                 Along(decls)[<<t, k>>] = IF k = 0 THEN t ELSE Build(t, decls[k])
  <1>1. ASSUME NEW p \in Tables \X (0..Len(decls))
        PROVE  (IF p[2] = 0 THEN p[1] ELSE Build(p[1], decls[p[2]])) \in Tables
    <2>1. p[1] \in Tables /\ p[2] \in 0..Len(decls)
      OBVIOUS
    <2>2. p[2] # 0 => decls[p[2]] \in Declarations
      BY <2>1
    <2> QED
      BY <2>1, <2>2, BuildType
  <1> QED
    BY <1>1 DEF Along

LEMMA BuildClassIs ==
    ASSUME NEW t \in Tables, NEW decls \in Seq(Declarations), NEW i, ~Circular(decls, i),
           NEW s, s = Reverse(Lineage(decls, i)), s \in Seq(0..Len(decls))
    PROVE  BuildClass(t, decls, i) = After(Along(decls), t, s)
  <1>. DEFINE n == Len(s)
              A == 0..Len(decls)
              Is(f) == f = [T \in SUBSET (DOMAIN s) |->
                               IF T = {} THEN t
                               ELSE IF s[Max(T)] = 0 THEN f[T \ {Max(T)}]
                                    ELSE Build(f[T \ {Max(T)}], decls[s[Max(T)]])]
              f == CHOOSE f : Is(f)
  <1>1. BuildClass(t, decls, i) = f[DOMAIN s]
    BY DEF BuildClass, FoldLeft, MapThenFoldSet
  <1>2. n \in Nat /\ DOMAIN s = 1..n /\ n \in 0..n /\ \A k \in 1..n : s[k] \in A
    OBVIOUS
  <1>3. StaysIn(A, Tables, Along(decls), t)
    BY AlongType DEF StaysIn
  <1>4. \A x \in Tables, k \in A : Along(decls)[<<x, k>>] = IF k = 0 THEN x ELSE Build(x, decls[k])
    BY AlongType
  <1>. HIDE DEF A
  <1>5. PICK g \in [SUBSET (1..n) -> Tables] : IsLeftFold(Along(decls), t, s, 1..n, g)
    <2>1. s \in Seq(A)
      BY DEF A
    <2> QED
      BY <1>2, <1>3, <2>1, LeftFoldExists
  <1>. HIDE DEF n
  <1>6. Is(g)
    <2>1. ASSUME NEW T \in SUBSET (1..n)
          PROVE  g[T] = IF T = {} THEN t
                        ELSE IF s[Max(T)] = 0 THEN g[T \ {Max(T)}]
                             ELSE Build(g[T \ {Max(T)}], decls[s[Max(T)]])
      <3>1. g[T] = IF T = {} THEN t ELSE Along(decls)[<<g[T \ {Max(T)}], s[Max(T)]>>]
        BY <1>5 DEF IsLeftFold
      <3>2. ASSUME T # {}
            PROVE  g[T \ {Max(T)}] \in Tables /\ s[Max(T)] \in A
        <4>1. Max(T) \in 1..n
          BY <1>2, <3>2, MaxOf
        <4>2. T \ {Max(T)} \in SUBSET (1..n)
          OBVIOUS
        <4> QED
          BY <1>2, <1>5, <4>1, <4>2
      <3> QED
        BY <1>4, <3>1, <3>2
    <2>2. g = [T \in SUBSET (1..n) |-> g[T]]
      BY <1>5
    <2> QED
      BY <1>2, <2>1, <2>2
  <1>7. Is(f)
    BY <1>6
  <1>. HIDE DEF f
  <1>8. f[{}] = t
    BY <1>7
  <1>9. ASSUME NEW k \in 1..n, f[1..(k - 1)] \in Tables
        PROVE  f[1..k] = Along(decls)[<<f[1..(k - 1)], s[k]>>]
    <2>1. 1..k \in SUBSET (1..n) /\ 1..k # {} /\ Max(1..k) = k /\ (1..k) \ {k} = 1..(k - 1)
      BY <1>2, FirstPlaces
    <2>2. f[1..k] = IF s[k] = 0 THEN f[1..(k - 1)] ELSE Build(f[1..(k - 1)], decls[s[k]])
      <3>. DEFINE T == 1..k
                  x == f[T \ {Max(T)}]
      <3>1. T \in SUBSET (DOMAIN s) /\ T # {} /\ x = f[1..(k - 1)] /\ s[Max(T)] = s[k]
        BY <1>2, <2>1
      <3>2. f[T] = IF T = {} THEN t ELSE IF s[Max(T)] = 0 THEN x ELSE Build(x, decls[s[Max(T)]])
        <4>. HIDE DEF T
        <4> QED
          BY <1>7, <3>1
      <3>. HIDE DEF x
      <3> QED
        BY <3>1, <3>2
    <2> QED
      BY <1>2, <1>4, <1>9, <2>2
  <1>10. f[1..n] = After(Along(decls), t, s)
    <2>1. IsLeftRun(Along(decls), t, Tables, s, f)
      BY <1>8, <1>9 DEF n, IsLeftRun
    <2>2. s \in Seq(A)
      BY DEF A
    <2>3. f[1..Len(s)] = After(Along(decls), t, s)
      BY <1>3, <2>1, <2>2, LeftFoldIs
    <2> QED
      BY <2>3 DEF n
  <1> QED
    BY <1>1, <1>2, <1>10

\* From the oldest on, each is built when the one above it has been.
LEMMA BuildClassKeeps ==
    ASSUME NEW t, NEW decls, NEW i, Kept(t), Text(t, decls), i \in DOMAIN decls
    PROVE  Kept(BuildClass(t, decls, i)) /\ Text(BuildClass(t, decls, i), decls)
  <1>1. t \in Tables /\ decls \in Seq(Declarations) /\ DOMAIN decls = 1..Len(decls)
        /\ Len(decls) \in Nat
    BY DEF Kept, Text
  <1>2. CASE Circular(decls, i)
    <2>1. IsFailed(t, BuildClass(t, decls, i))
      BY <1>1, <1>2, Failed DEF BuildClass
    <2> QED
      BY <2>1, FailedKept
  <1>3. CASE ~Circular(decls, i)
    <2>. DEFINE s == Reverse(Lineage(decls, i))
                A == 0..Len(decls)
                Reached == {p \in (0..Len(s)) \X Tables :
                               /\ Kept(p[2]) /\ Text(p[2], decls)
                               /\ p[2].ok /\ p[1] # 0 /\ s[p[1]] # 0 => decls[s[p[1]]].name \in p[2].done}
    <2>1. /\ s \in Seq(A) /\ Len(s) = Len(decls) + 1 /\ s[1] = 0
          /\ \A k \in 2..Len(s) : s[k - 1] = Above(decls, s[k])
      <3>1. s = Reverse(Lineage(decls, i))
        OBVIOUS
      <3>. HIDE DEF s
      <3> QED
        BY <1>1, <1>3, <3>1, OldestFirst DEF A
    <2>2. BuildClass(t, decls, i) = After(Along(decls), t, s)
      BY <1>1, <1>3, <2>1, BuildClassIs
    <2>3. <<0, t>> \in Reached
      BY <1>1, <2>1
    <2>. HIDE DEF s
    <2>4. ASSUME NEW k \in 1..Len(s), NEW x, <<k - 1, x>> \in Reached
          PROVE  <<k, Along(decls)[<<x, s[k]>>]>> \in Reached
      <3>1. /\ x \in Tables /\ Kept(x) /\ Text(x, decls)
            /\ x.ok /\ k - 1 # 0 /\ s[k - 1] # 0 => decls[s[k - 1]].name \in x.done
        BY <2>4
      <3>2. s[k] \in A /\ k \in 0..Len(s) /\ k # 0
        BY <1>1, <2>1
      <3>3. Along(decls)[<<x, s[k]>>] = IF s[k] = 0 THEN x ELSE Build(x, decls[s[k]])
        BY <1>1, <3>1, <3>2, AlongType
      <3>4. CASE s[k] = 0
        BY <3>1, <3>2, <3>3, <3>4
      <3>5. CASE s[k] # 0
        <4>1. s[k] \in DOMAIN decls
          BY <1>1, <3>2, <3>5
        <4>2. k \in 2..Len(s) /\ k - 1 # 0
          BY <1>1, <2>1, <3>5
        <4>3. s[k - 1] = Named(decls, decls[s[k]].parent)
          BY <2>1, <3>5, <4>2 DEF Above
        <4>4. x.ok => Ready(x, decls, s[k])
          <5>1. CASE s[k - 1] = 0
            BY <1>1, <4>3, <5>1, NamedIs DEF Ready
          <5>2. CASE s[k - 1] # 0
            <6>1. decls[s[k - 1]].name = decls[s[k]].parent
              BY <1>1, <4>3, <5>2, NamedIs
            <6> QED
              BY <3>1, <4>2, <5>2, <6>1 DEF Ready
          <5> QED
            BY <5>1, <5>2
        <4>. DEFINE u == Build(x, decls[s[k]])
        <4>5. Kept(u) /\ Text(u, decls) /\ (u.ok => decls[s[k]].name \in u.done)
          BY <3>1, <4>1, <4>4, BuildKeeps
        <4>6. u \in Tables
          BY <4>5 DEF Kept
        <4>7. Along(decls)[<<x, s[k]>>] = u
          BY <3>3, <3>5
        <4>. HIDE DEF u
        <4> QED
          BY <3>2, <4>5, <4>6, <4>7
      <3> QED
        BY <3>4, <3>5
    <2>5. <<Len(s), After(Along(decls), t, s)>> \in Reached
      <3>. HIDE DEF Reached, A
      <3> QED
        BY <2>1, <2>3, <2>4, AfterAlong
    <2> QED
      BY <2>2, <2>5
  <1> QED
    BY <1>2, <1>3

-----------------------------------------------------------------------------
(* Loading a text: its classes in the order written, and before them its   *)
(* functions.                                                              *)

Sound(decls) == {t \in Tables : Kept(t) /\ Text(t, decls)}
BuildingAll(decls) == [p \in Sound(decls) \X DOMAIN decls |->
                          IF p[1].ok THEN BuildClass(p[1], decls, p[2]) ELSE p[1]]

LEMMA BuildingAllType ==
    ASSUME NEW decls
    PROVE  /\ BuildingAll(decls) \in [Sound(decls) \X DOMAIN decls -> Sound(decls)]
           /\ \A t \in Sound(decls), i \in DOMAIN decls :
                 BuildingAll(decls)[<<t, i>>] = IF t.ok THEN BuildClass(t, decls, i) ELSE t
  <1>1. ASSUME NEW p \in Sound(decls) \X DOMAIN decls
        PROVE  (IF p[1].ok THEN BuildClass(p[1], decls, p[2]) ELSE p[1]) \in Sound(decls)
    <2>1. p[1] \in Sound(decls) /\ p[2] \in DOMAIN decls /\ Kept(p[1]) /\ Text(p[1], decls)
      BY DEF Sound
    <2>. DEFINE u == BuildClass(p[1], decls, p[2])
    <2>2. Kept(u) /\ Text(u, decls)
      BY <2>1, BuildClassKeeps
    <2>3. u \in Tables
      BY <2>2 DEF Kept
    <2> QED
      BY <2>1, <2>2, <2>3 DEF Sound
  <1> QED
    BY <1>1 DEF BuildingAll

\* What registerClasses does once its checks have passed.
AllBuilt(t, decls) == FoldLeft(LAMBDA x, i : IF x.ok THEN BuildClass(x, decls, i) ELSE x,
                               t, [i \in DOMAIN decls |-> i])

LEMMA AllBuiltKept ==
    ASSUME NEW decls, NEW t, Kept(t), Text(t, decls)
    PROVE  Kept(AllBuilt(t, decls))
  <1>. DEFINE s == [i \in DOMAIN decls |-> i]
              n == Len(s)
              S == Sound(decls)
              A == DOMAIN decls
              step == BuildingAll(decls)
              Is(f) == f = [T \in SUBSET (DOMAIN s) |->
                               IF T = {} THEN t
                               ELSE IF f[T \ {Max(T)}].ok
                                    THEN BuildClass(f[T \ {Max(T)}], decls, s[Max(T)])
                                    ELSE f[T \ {Max(T)}]]
              f == CHOOSE f : Is(f)
  <1>1. AllBuilt(t, decls) = f[DOMAIN s]
    BY DEF AllBuilt, FoldLeft, MapThenFoldSet
  <1>2. A = 1..Len(decls) /\ Len(decls) \in Nat
    BY DEF Text
  <1>3. s \in Seq(A) /\ n \in Nat /\ DOMAIN s = 1..n /\ n \in 0..n /\ \A k \in 1..n : s[k] \in A
    <2>. DEFINE m == Len(decls)
    <2>. HIDE DEF m, A
    <2>1. A = 1..m /\ m \in Nat
      BY <1>2 DEF m
    <2>2. s \in [1..m -> A]
      BY <2>1 DEF A
    <2>. HIDE DEF s
    <2>3. s \in Seq(A)
      BY <2>1, <2>2
    <2> QED
      BY <2>3
  <1>4. StaysIn(A, S, step, t)
    BY BuildingAllType DEF StaysIn, Sound, Kept
  <1>5. \A x \in S, i \in A : step[<<x, i>>] = IF x.ok THEN BuildClass(x, decls, i) ELSE x
    BY BuildingAllType
  <1>. HIDE DEF A, S, step, s
  <1>6. PICK g \in [SUBSET (1..n) -> S] : IsLeftFold(step, t, s, 1..n, g)
    BY <1>3, <1>4, LeftFoldExists
  <1>. HIDE DEF n
  <1>7. Is(g)
    <2>1. ASSUME NEW T \in SUBSET (1..n)
          PROVE  g[T] = IF T = {} THEN t
                        ELSE IF g[T \ {Max(T)}].ok
                             THEN BuildClass(g[T \ {Max(T)}], decls, s[Max(T)])
                             ELSE g[T \ {Max(T)}]
      <3>1. g[T] = IF T = {} THEN t ELSE step[<<g[T \ {Max(T)}], s[Max(T)]>>]
        BY <1>6 DEF IsLeftFold
      <3>2. ASSUME T # {}
            PROVE  g[T \ {Max(T)}] \in S /\ s[Max(T)] \in A
        <4>1. Max(T) \in 1..n
          BY <1>3, <3>2, MaxOf
        <4>2. T \ {Max(T)} \in SUBSET (1..n)
          OBVIOUS
        <4> QED
          BY <1>3, <1>6, <4>1, <4>2
      <3> QED
        BY <1>5, <3>1, <3>2
    <2>2. g = [T \in SUBSET (1..n) |-> g[T]]
      BY <1>6
    <2> QED
      BY <1>3, <2>1, <2>2
  <1>8. Is(f)
    BY <1>7
  <1>. HIDE DEF f
  <1>9. f[{}] = t
    BY <1>8
  <1>10. ASSUME NEW k \in 1..n, f[1..(k - 1)] \in S
         PROVE  f[1..k] = step[<<f[1..(k - 1)], s[k]>>]
    <2>1. 1..k \in SUBSET (1..n) /\ 1..k # {} /\ Max(1..k) = k /\ (1..k) \ {k} = 1..(k - 1)
      BY <1>3, FirstPlaces
    <2>2. f[1..k] = IF f[1..(k - 1)].ok THEN BuildClass(f[1..(k - 1)], decls, s[k]) ELSE f[1..(k - 1)]
      <3>. DEFINE T == 1..k
                  x == f[T \ {Max(T)}]
      <3>1. T \in SUBSET (DOMAIN s) /\ T # {} /\ x = f[1..(k - 1)] /\ s[Max(T)] = s[k]
        BY <1>3, <2>1
      <3>2. f[T] = IF T = {} THEN t ELSE IF x.ok THEN BuildClass(x, decls, s[Max(T)]) ELSE x
        <4>. HIDE DEF T
        <4> QED
          BY <1>8, <3>1
      <3>. HIDE DEF x
      <3> QED
        BY <3>1, <3>2
    <2> QED
      BY <1>3, <1>5, <1>10, <2>2
  <1>11. f[1..n] = After(step, t, s)
    <2>1. IsLeftRun(step, t, S, s, f)
      BY <1>9, <1>10 DEF n, IsLeftRun
    <2>2. f[1..Len(s)] = After(step, t, s)
      BY <1>3, <1>4, <2>1, LeftFoldIs
    <2> QED
      BY <2>2 DEF n
  <1>12. After(step, t, s) \in S
    BY <1>3, <1>4, AfterType DEF StaysIn
  <1> QED
    BY <1>1, <1>3, <1>11, <1>12 DEF S, Sound

\* The checks of registerClasses are what the building of the classes rests on.
LEMMA ClassesKeep ==
    ASSUME NEW t, NEW decls \in Seq(Declarations), Kept(t), t.done = {}
    PROVE  Kept(RegisterClasses(t, decls))
  <1>. DEFINE refused == \/ t.count + Added(t, decls) > MaxClasses
                         \/ ~IsInjective([i \in DOMAIN decls |-> decls[i].name])
                         \/ \E i \in DOMAIN decls : ~ClassNameFree(t, decls[i].name)
  <1>1. t \in Tables
    BY DEF Kept
  <1>2. CASE ~t.ok
    BY <1>2 DEF RegisterClasses
  <1>3. CASE t.ok /\ refused
    <2>1. IsFailed(t, RegisterClasses(t, decls))
      BY <1>1, <1>3, Failed DEF RegisterClasses
    <2> QED
      BY <2>1, FailedKept
  <1>4. CASE t.ok /\ ~refused
    <2>1. RegisterClasses(t, decls) = AllBuilt(t, decls)
      BY <1>4 DEF RegisterClasses, AllBuilt
    <2>2. \A i, j \in DOMAIN decls : decls[i].name = decls[j].name => i = j
      BY <1>4 DEF IsInjective
    <2>3. NamesIn(decls) \cap (t.functions \cup Natives \cup {Builtin.name}) = {}
      BY <1>4 DEF NamesIn, ClassNameFree
    <2>4. t.count + Added(t, decls) <= MaxClasses
      <3>1. t.count \in Nat /\ Added(t, decls) \in Nat /\ MaxClasses \in Nat
        BY <1>1, AddedType, ClassesAssumption DEF Tables, Table
      <3> QED
        BY <1>4, <3>1
    <2>5. \A i \in 1..Len(t.infos) : t.infos[i].load # t.load
      BY DEF Kept, ThisLoad
    <2>6. Text(t, decls)
      BY <2>2, <2>3, <2>4, <2>5 DEF Text
    <2> QED
      BY <2>1, <2>6, AllBuiltKept
  <1> QED
    BY <1>2, <1>3, <1>4

\* A table in which no class of this load is built yet.
Unbuilt == {t \in Tables : Kept(t) /\ t.done = {}}
Registered(t, n) == IF ~t.ok THEN t
                    ELSE IF n \in AllNames /\ t.byId[n] # 0 THEN [t EXCEPT !.ok = FALSE]
                    ELSE [t EXCEPT !.functions = @ \cup {n}]
RegisteringAll == [p \in Unbuilt \X STRING |-> Registered(p[1], p[2])]

LEMMA RegisteredKept ==
    ASSUME NEW t \in Unbuilt, NEW n \in STRING
    PROVE  Registered(t, n) \in Unbuilt
  <1>1. t \in Tables /\ Kept(t) /\ t.done = {}
    BY DEF Unbuilt
  <1>2. CASE ~t.ok
    BY <1>2 DEF Registered
  <1>3. CASE t.ok /\ n \in AllNames /\ t.byId[n] # 0
    <2>1. IsFailed(t, Registered(t, n))
      BY <1>1, <1>3, Failed DEF Registered
    <2> QED
      BY <1>1, <2>1, FailedKept DEF Unbuilt, IsFailed
  <1>4. CASE t.ok /\ ~(n \in AllNames /\ t.byId[n] # 0)
    <2>. DEFINE u == [t EXCEPT !.functions = t.functions \cup {n}]
    <2>1. Registered(t, n) = u
      BY <1>4 DEF Registered
    <2>2. t \in Table /\ \A m \in AllNames : t.byId[m] <= Len(t.infos)
      BY <1>1 DEF Tables
    <2>3. u \in Table
      BY <2>2 DEF Table
    <2>4. /\ u.infos = t.infos /\ u.count = t.count /\ u.byId = t.byId
          /\ u.done = t.done /\ u.functions = t.functions \cup {n} /\ u.load = t.load
      BY <2>2 DEF Table
    <2>. HIDE DEF u
    <2>5. u \in Tables
      BY <2>2, <2>3, <2>4 DEF Tables
    <2>6. OneSpace(u)
      BY <1>1, <1>4, <2>4 DEF Kept, OneSpace
    <2>7. InUse(u) = InUse(t)
      BY <2>4 DEF InUse
    <2>8. Kept(u)
      BY <1>1, <2>4, <2>5, <2>6, <2>7 DEF Kept, ThisLoad, Counted
    <2> QED
      BY <1>1, <2>1, <2>4, <2>5, <2>8 DEF Unbuilt
  <1> QED
    BY <1>2, <1>3, <1>4

LEMMA FunctionsKeep ==
    ASSUME NEW t \in Unbuilt, NEW s \in Seq(STRING)
    PROVE  RegisterFunctions(t, s) \in Unbuilt
  <1>. DEFINE n == Len(s)
              step == RegisteringAll
              Is(f) == f = [T \in SUBSET (DOMAIN s) |->
                               IF T = {} THEN t ELSE Registered(f[T \ {Max(T)}], s[Max(T)])]
              f == CHOOSE f : Is(f)
  <1>1. RegisterFunctions(t, s) = f[DOMAIN s]
    BY DEF RegisterFunctions, FoldLeft, MapThenFoldSet, Registered
  <1>2. n \in Nat /\ DOMAIN s = 1..n /\ n \in 0..n /\ \A k \in 1..n : s[k] \in STRING
    OBVIOUS
  <1>3. /\ step \in [Unbuilt \X STRING -> Unbuilt]
        /\ \A x \in Unbuilt, m \in STRING : step[<<x, m>>] = Registered(x, m)
    <2>1. \A p \in Unbuilt \X STRING : Registered(p[1], p[2]) \in Unbuilt
      BY RegisteredKept
    <2> QED
      BY <2>1 DEF RegisteringAll
  <1>. HIDE DEF step
  <1>4. StaysIn(STRING, Unbuilt, step, t)
    BY <1>3 DEF StaysIn
  <1>5. PICK g \in [SUBSET (1..n) -> Unbuilt] : IsLeftFold(step, t, s, 1..n, g)
    BY <1>2, <1>4, LeftFoldExists
  <1>. HIDE DEF n
  <1>6. Is(g)
    <2>1. ASSUME NEW T \in SUBSET (1..n)
          PROVE  g[T] = IF T = {} THEN t ELSE Registered(g[T \ {Max(T)}], s[Max(T)])
      <3>1. g[T] = IF T = {} THEN t ELSE step[<<g[T \ {Max(T)}], s[Max(T)]>>]
        BY <1>5 DEF IsLeftFold
      <3>2. ASSUME T # {}
            PROVE  g[T \ {Max(T)}] \in Unbuilt /\ s[Max(T)] \in STRING
        <4>1. Max(T) \in 1..n
          BY <1>2, <3>2, MaxOf
        <4>2. T \ {Max(T)} \in SUBSET (1..n)
          OBVIOUS
        <4> QED
          BY <1>2, <1>5, <4>1, <4>2
      <3> QED
        BY <1>3, <3>1, <3>2
    <2>2. g = [T \in SUBSET (1..n) |-> g[T]]
      BY <1>5
    <2> QED
      BY <1>2, <2>1, <2>2
  <1>7. Is(f)
    BY <1>6
  <1>. HIDE DEF f
  <1>8. f[{}] = t
    BY <1>7
  <1>9. ASSUME NEW k \in 1..n, f[1..(k - 1)] \in Unbuilt
        PROVE  f[1..k] = step[<<f[1..(k - 1)], s[k]>>]
    <2>1. 1..k \in SUBSET (1..n) /\ 1..k # {} /\ Max(1..k) = k /\ (1..k) \ {k} = 1..(k - 1)
      BY <1>2, FirstPlaces
    <2>2. f[1..k] = Registered(f[1..(k - 1)], s[k])
      BY <1>2, <1>7, <2>1
    <2> QED
      BY <1>2, <1>3, <1>9, <2>2
  <1>10. f[1..n] = After(step, t, s)
    <2>1. IsLeftRun(step, t, Unbuilt, s, f)
      BY <1>8, <1>9 DEF n, IsLeftRun
    <2>2. f[1..Len(s)] = After(step, t, s)
      BY <1>4, <2>1, LeftFoldIs
    <2> QED
      BY <2>2 DEF n
  <1>11. After(step, t, s) \in Unbuilt
    BY <1>3, AfterType
  <1> QED
    BY <1>1, <1>2, <1>10, <1>11

-----------------------------------------------------------------------------
(* The invariant: what a load starts from. *)

Start(run) == [infos |-> infos, byId |-> classById, epoch |-> classEpoch, count |-> classCount,
               functions |-> functions, done |-> {}, ok |-> TRUE, run |-> run, load |-> loads + 1]

ClassInv == loads \in Nat /\ runEpoch \in Nat /\ Kept(Start(0))

LEMMA TableOf ==
    ASSUME NEW a \in Seq(Info), NEW b \in [AllNames -> Nat], NEW c \in [AllNames -> Nat],
           NEW e \in Nat, NEW f \in SUBSET STRING, NEW run \in Nat, NEW load \in Nat
    PROVE  [infos |-> a, byId |-> b, epoch |-> c, count |-> e, functions |-> f, done |-> {},
            ok |-> TRUE, run |-> run, load |-> load] \in Table
  <1>1. {} \in SUBSET AllNames /\ TRUE \in BOOLEAN
    OBVIOUS
  <1> QED
    BY <1>1 DEF Table

LEMMA StartIs ==
    ASSUME NEW run \in Nat, ClassInv
    PROVE  Start(run) \in Unbuilt
  <1>. DEFINE t == Start(run)
              o == Start(0)
  <1>1. /\ t.infos = o.infos /\ t.byId = o.byId /\ t.epoch = o.epoch /\ t.count = o.count
        /\ t.functions = o.functions /\ t.done = o.done /\ t.load = o.load /\ t.done = {}
    BY DEF Start
  <1>2. o \in Tables /\ Kept(o)
    BY DEF ClassInv, Kept
  <1>3. t \in Tables
    <2>1. o \in Table /\ \A n \in AllNames : o.byId[n] <= Len(o.infos)
      BY <1>2 DEF Tables
    <2>2. t \in Table
      BY <2>1 DEF Table, Start
    <2> QED
      BY <1>1, <2>1, <2>2 DEF Tables
  <1>. HIDE DEF t, o
  <1>4. InUse(t) = InUse(o)
    BY <1>1 DEF InUse
  <1>5. Kept(t)
    BY <1>1, <1>2, <1>3, <1>4 DEF Kept, ThisLoad, OneSpace, Counted
  <1> QED
    BY <1>1, <1>3, <1>5 DEF Unbuilt, t

LEMMA InitKept == ClassInit => ClassInv
  <1>. SUFFICES ASSUME ClassInit
                PROVE  ClassInv
    OBVIOUS
  <1>. DEFINE fs == [k \in DOMAIN Builtin.fields |-> [name |-> Builtin.fields[k], declaredIn |-> 1]]
              ms == [m \in ToSet(Builtin.methods) |-> 1]
              c == [name |-> Builtin.name, parent |-> 0, depth |-> 0, load |-> 0,
                    fields |-> fs, methods |-> ms]
              t == Start(0)
  <1>1. Builtin.fields \in Seq(STRING) /\ Builtin.methods \in Seq(STRING)
    BY ClassesAssumption
  <1>2. fs \in FieldLists /\ Len(fs) = Len(Builtin.fields) /\ Len(fs) \in Nat
        /\ \A k \in 1..Len(fs) : fs[k].name = Builtin.fields[k] /\ fs[k].declaredIn = 1
    <2>. DEFINE n == Len(Builtin.fields)
                F == [name : STRING, declaredIn : Nat]
    <2>1. n \in Nat /\ DOMAIN Builtin.fields = 1..n /\ \A k \in 1..n : Builtin.fields[k] \in STRING
      BY <1>1
    <2>2. \A k \in 1..n : fs[k] = [name |-> Builtin.fields[k], declaredIn |-> 1]
      BY <2>1
    <2>3. \A k \in 1..n : fs[k] \in F
      BY <2>1, <2>2
    <2>4. fs = [k \in 1..n |-> fs[k]]
      BY <2>1
    <2>. HIDE DEF fs, n, F
    <2>5. fs \in Seq(F) /\ Len(fs) = n
      BY <2>1, <2>3, <2>4
    <2>6. ASSUME NEW k \in 1..n
          PROVE  fs[k].name = Builtin.fields[k] /\ fs[k].declaredIn = 1
      <3>1. fs[k] = [name |-> Builtin.fields[k], declaredIn |-> 1]
        BY <2>2
      <3> QED
        BY <3>1
    <2> QED
      BY <2>1, <2>5, <2>6 DEF FieldLists, F, n
  <1>3. ms \in MethodTables
    <2>1. ToSet(Builtin.methods) \in SUBSET STRING
      BY <1>1 DEF ToSet
    <2>2. ms \in [ToSet(Builtin.methods) -> Nat]
      OBVIOUS
    <2> QED
      BY <2>1, <2>2 DEF MethodTables
  <1>4. Builtin.name \in AllNames /\ Builtin.name \notin ClassNames \cup Natives
    BY ClassesAssumption DEF AllNames
  <1>. HIDE DEF fs, ms
  <1>5. c \in Info
    BY <1>2, <1>3, <1>4 DEF Info
  <1>6. /\ t.infos = <<c>> /\ t.functions = {} /\ t.count = 0 /\ t.done = {} /\ t.load = 1
        /\ t.byId = [n \in AllNames |-> IF n = Builtin.name THEN 1 ELSE 0]
        /\ t.epoch = [n \in AllNames |-> 0]
        /\ loads = 0 /\ runEpoch = 0
    BY DEF ClassInit, Start, fs, ms
  <1>7. /\ c.name = Builtin.name /\ c.parent = 0 /\ c.depth = 0 /\ c.load = 0 /\ c.fields = fs
    OBVIOUS
  <1>8. t \in Tables
    <2>1. <<c>> \in Seq(Info) /\ Len(<<c>>) = 1
      BY <1>5
    <2>2. /\ [n \in AllNames |-> IF n = Builtin.name THEN 1 ELSE 0] \in [AllNames -> Nat]
          /\ [n \in AllNames |-> 0] \in [AllNames -> Nat]
      OBVIOUS
    <2>3. t = [infos |-> t.infos, byId |-> t.byId, epoch |-> t.epoch, count |-> t.count,
               functions |-> t.functions, done |-> {}, ok |-> TRUE, run |-> 0, load |-> t.load]
      BY DEF Start
    <2>. HIDE DEF c
    <2>4. t \in Table
      <3>. HIDE DEF t
      <3>1. /\ t.infos \in Seq(Info) /\ t.byId \in [AllNames -> Nat] /\ t.epoch \in [AllNames -> Nat]
            /\ t.count \in Nat /\ t.functions \in SUBSET STRING /\ t.load \in Nat
        BY <1>6, <2>1, <2>2
      <3>2. [infos |-> t.infos, byId |-> t.byId, epoch |-> t.epoch, count |-> t.count,
             functions |-> t.functions, done |-> {}, ok |-> TRUE, run |-> 0, load |-> t.load] \in Table
        BY <3>1, TableOf
      <3> QED
        BY <2>3, <3>2, Zenon
    <2>5. \A n \in AllNames : t.byId[n] <= 1
      BY <1>6
    <2> QED
      BY <1>6, <2>1, <2>4, <2>5 DEF Tables
  <1>. HIDE DEF c, t
  <1>9. Len(t.infos) = 1 /\ t.infos[1] = c
    BY <1>6
  <1>10. \A i \in 1..1 : i = 1
    OBVIOUS
  <1>11. WellFormed(t.infos)
    <2>1. InheritedBy(t.infos, 1) = <<>> /\ Len(<<>>) = 0
      BY <1>7, <1>9 DEF InheritedBy
    <2>2. LaidOut(t.infos, 1)
      <3>1. \A k, m \in 1..Len(fs) : fs[k].name = fs[m].name => k = m
        BY <1>1, <1>2, ClassesAssumption DEF IsInjective
      <3> QED
        BY <1>2, <1>7, <1>9, <2>1, <3>1 DEF LaidOut
    <2>3. Resolved(t.infos, 1)
      BY <1>7, <1>9 DEF Resolved
    <2>4. Descends(t.infos, 1)
      BY <1>7, <1>9, ClassesAssumption DEF Descends
    <2> QED
      BY <1>9, <1>10, <2>2, <2>3, <2>4 DEF WellFormed
  <1>12. Versions(t.infos)
    BY <1>7, <1>9, <1>10 DEF Versions
  <1>13. ThisLoad(t)
    BY <1>6, <1>7, <1>9, <1>10 DEF ThisLoad
  <1>14. OneSpace(t)
    BY <1>4, <1>6, <1>7, <1>9 DEF OneSpace
  <1>15. Counted(t)
    <2>1. InUse(t) = {}
      BY <1>4, <1>6 DEF InUse, AllNames
    <2> QED
      BY <1>6, <2>1, FS_EmptySet, ClassesAssumption DEF Counted
  <1> QED
    BY <1>6, <1>8, <1>11, <1>12, <1>13, <1>14, <1>15 DEF ClassInv, Kept, t

LEMMA LoadKeeps ==
    ASSUME ClassInv, NEW text \in Texts, NEW run \in Nat, Load(text, run)
    PROVE  ClassInv'
  <1>. DEFINE t == RegisterClasses(RegisterFunctions(Start(run), text.functions), text.classes)
  <1>1. text.functions \in Seq(STRING) /\ text.classes \in Seq(Declarations)
    BY ClassesAssumption
  <1>2. Start(run) \in Unbuilt
    BY StartIs
  <1>3. RegisterFunctions(Start(run), text.functions) \in Unbuilt
    BY <1>1, <1>2, FunctionsKeep
  <1>4. Kept(t)
    BY <1>1, <1>3, ClassesKeep DEF Unbuilt
  <1>5. /\ loads' = loads + 1 /\ infos' = t.infos /\ classById' = t.byId /\ classEpoch' = t.epoch
        /\ classCount' = t.count /\ functions' = t.functions /\ runEpoch' = run
    BY DEF Load, Start
  <1>. HIDE DEF t
  <1>. DEFINE o == Start(0)'
  <1>6. /\ o.infos = t.infos /\ o.byId = t.byId /\ o.epoch = t.epoch /\ o.count = t.count
        /\ o.functions = t.functions /\ o.done = {} /\ o.load = loads' + 1 /\ o.run = 0
        /\ o = [infos |-> o.infos, byId |-> o.byId, epoch |-> o.epoch, count |-> o.count,
                functions |-> o.functions, done |-> {}, ok |-> TRUE, run |-> 0, load |-> loads' + 1]
    BY <1>5 DEF Start
  <1>7. loads \in Nat /\ loads' \in Nat /\ t.load = loads'
    BY <1>4, <1>5 DEF ClassInv, Kept, ThisLoad
  <1>8. t \in Tables /\ t \in Table /\ \A n \in AllNames : t.byId[n] <= Len(t.infos)
    BY <1>4 DEF Kept, Tables
  <1>. HIDE DEF o
  <1>9. o \in Tables
    <2>1. o \in Table
      <3>1. /\ o.infos \in Seq(Info) /\ o.byId \in [AllNames -> Nat] /\ o.epoch \in [AllNames -> Nat]
            /\ o.count \in Nat /\ o.functions \in SUBSET STRING /\ loads' + 1 \in Nat
        BY <1>6, <1>7, <1>8 DEF Table
      <3>2. [infos |-> o.infos, byId |-> o.byId, epoch |-> o.epoch, count |-> o.count,
             functions |-> o.functions, done |-> {}, ok |-> TRUE, run |-> 0, load |-> loads' + 1] \in Table
        BY <3>1, TableOf
      <3> QED
        BY <1>6, <3>2, Zenon
    <2> QED
      BY <1>6, <1>8, <2>1 DEF Tables
  <1>10. WellFormed(o.infos) /\ Versions(o.infos) /\ OneSpace(o) /\ Counted(o)
    <2>1. InUse(o) = InUse(t)
      BY <1>6 DEF InUse
    <2> QED
      BY <1>4, <1>6, <2>1 DEF Kept, OneSpace, Counted
  <1>11. \A i \in 1..Len(o.infos) : o.infos[i].load <= o.load /\ o.infos[i].load # o.load
    <2>1. \A i \in 1..Len(t.infos) : t.infos[i].load <= t.load /\ t.infos[i].load \in Nat
      <3>1. \A i \in 1..Len(t.infos) : t.infos[i] \in Info
        BY <1>8 DEF Table
      <3> QED
        BY <1>4, <3>1 DEF Kept, ThisLoad, Info
    <2> QED
      BY <1>6, <1>7, <2>1
  <1>12. Kept(Start(0))'
    BY <1>6, <1>9, <1>10, <1>11 DEF Kept, ThisLoad, OneSpace, Counted, InUse, o
  <1> QED
    BY <1>5, <1>7, <1>12 DEF ClassInv

LEMMA ClassInvariance == ClassSpec => []ClassInv
  <1>1. ClassInit => ClassInv
    BY InitKept
  <1>2. ClassInv /\ [ClassNext]_classVars => ClassInv'
    <2>. SUFFICES ASSUME ClassInv, [ClassNext]_classVars
                  PROVE  ClassInv'
      OBVIOUS
    <2>1. CASE ClassNext
      <3>1. PICK text \in Texts : NewRun(text) \/ UseModule(text)
        BY <2>1 DEF ClassNext
      <3>2. runEpoch \in Nat /\ runEpoch + 1 \in Nat
        BY DEF ClassInv
      <3>3. Load(text, runEpoch + 1) \/ Load(text, runEpoch)
        BY <3>1 DEF NewRun, UseModule
      <3> QED
        BY <3>2, <3>3, LoadKeeps
    <2>2. CASE UNCHANGED classVars
      <3>1. Start(0)' = Start(0) /\ loads' = loads /\ runEpoch' = runEpoch
        BY <2>2 DEF classVars, Start
      <3>2. Kept(Start(0))'
        BY <3>1 DEF ClassInv, Kept, ThisLoad, OneSpace, Counted, InUse
      <3> QED
        BY <3>1, <3>2 DEF ClassInv
    <2> QED
      BY <2>1, <2>2
  <1> QED
    BY <1>1, <1>2, PTL DEF ClassSpec

LEMMA InvIsCoherent == ClassInv => ClassesCoherent
  <1>. SUFFICES ASSUME ClassInv
                PROVE  ClassesCoherent
    OBVIOUS
  <1>. DEFINE t == Start(0)
  <1>1. /\ infos = t.infos /\ classById = t.byId /\ classCount = t.count /\ functions = t.functions
    BY DEF Start
  <1>. HIDE DEF t
  <1>2. Kept(t) /\ t \in Tables
    BY DEF ClassInv, Kept, t
  <1>3. infos \in Seq(Info) /\ DOMAIN infos = 1..Len(infos)
        /\ \A i \in 1..Len(infos) : /\ infos[i] \in Info /\ infos[i].fields \in FieldLists
                                    /\ DOMAIN infos[i].fields = 1..Len(infos[i].fields)
                                    /\ infos[i].parent \in Nat
    <2>1. infos \in Seq(Info)
      BY <1>1, <1>2 DEF Tables, Table
    <2>2. ASSUME NEW i \in 1..Len(infos)
          PROVE  /\ infos[i] \in Info /\ infos[i].fields \in FieldLists
                 /\ DOMAIN infos[i].fields = 1..Len(infos[i].fields)
                 /\ infos[i].parent \in Nat
      <3>1. infos[i] \in Info
        BY <2>1
      <3>2. infos[i].fields \in FieldLists /\ infos[i].parent \in Nat
        BY <3>1 DEF Info
      <3>3. DOMAIN infos[i].fields = 1..Len(infos[i].fields)
        BY <3>2 DEF FieldLists
      <3> QED
        BY <3>1, <3>2, <3>3
    <2> QED
      BY <2>1, <2>2
  <1>4. \A i \in 1..Len(infos) : LaidOut(infos, i) /\ Resolved(infos, i) /\ Descends(infos, i)
    BY <1>1, <1>2 DEF Kept, WellFormed
  <1>5. ASSUME NEW i \in DOMAIN infos
        PROVE  LayoutExtendsParent(i) /\ MethodsFromNearest(i) /\ ParentOfSameText(i)
    <2>1. i \in 1..Len(infos) /\ Parent(i) = infos[i].parent /\ Parent(i) \in Nat /\ Parent(i) < i
      BY <1>3, <1>4 DEF Parent, Descends
    <2>2. Inherited(i) = InheritedBy(infos, i)
      BY DEF Inherited, InheritedBy, Parent
    <2>3. \A k \in 1..Len(Inherited(i)) : Inherited(i)[k].declaredIn # i
      <3>1. CASE Parent(i) = 0
        BY <3>1 DEF Inherited
      <3>2. CASE Parent(i) # 0
        <4>. DEFINE p == Parent(i)
        <4>1. p \in 1..Len(infos) /\ p \in Nat /\ i \in Nat /\ p < i
          BY <1>3, <2>1, <3>2
        <4>2. LaidOut(infos, p) /\ Inherited(i) = infos[p].fields
          BY <1>4, <3>2, <4>1 DEF Inherited
        <4>. HIDE DEF p
        <4>3. ASSUME NEW k \in 1..Len(infos[p].fields)
              PROVE  infos[p].fields[k].declaredIn # i
          <5>1. infos[p].fields[k].declaredIn \in Nat
            <6>1. infos[p].fields \in Seq([name : STRING, declaredIn : Nat])
              BY <1>3, <4>1 DEF FieldLists
            <6>. DEFINE F == [name : STRING, declaredIn : Nat]
            <6>2. infos[p].fields[k] \in F
              <7>. DEFINE fs == infos[p].fields
              <7>1. fs \in Seq(F) /\ k \in 1..Len(fs)
                BY <6>1
              <7>. HIDE DEF F, fs
              <7>2. fs[k] \in F
                BY <7>1
              <7> QED
                BY <7>2 DEF fs
            <6> QED
              BY <6>2
          <5>2. infos[p].fields[k].declaredIn <= p
            BY <4>2 DEF LaidOut
          <5> QED
            BY <4>1, <5>1, <5>2
        <4> QED
          BY <4>2, <4>3
      <3> QED
        BY <3>1, <3>2
    <2>4. LayoutExtendsParent(i)
      <3>1. \A k \in 1..Len(infos[i].fields) :
               /\ k <= Len(Inherited(i)) => infos[i].fields[k] = Inherited(i)[k]
               /\ ~(k <= Len(Inherited(i))) => infos[i].fields[k].declaredIn = i
        BY <1>4, <2>1, <2>2 DEF LaidOut
      <3>2. \A k \in 1..Len(infos[i].fields) : k <= Len(Inherited(i)) => k \in 1..Len(Inherited(i))
        <4>1. Len(Inherited(i)) \in Nat
          <5>1. CASE Parent(i) = 0
            BY <5>1 DEF Inherited
          <5>2. CASE Parent(i) # 0
            <6>1. Parent(i) \in 1..Len(infos) /\ Inherited(i) = infos[Parent(i)].fields
              BY <1>3, <2>1, <5>2 DEF Inherited
            <6> QED
              BY <1>3, <6>1 DEF FieldLists
          <5> QED
            BY <5>1, <5>2
        <4> QED
          BY <4>1
      <3>3. /\ Len(Inherited(i)) <= Len(infos[i].fields)
            /\ \A k, m \in 1..Len(infos[i].fields) :
                  infos[i].fields[k].name = infos[i].fields[m].name => k = m
        BY <1>4, <2>1, <2>2 DEF LaidOut
      <3> QED
        BY <1>3, <2>1, <2>3, <3>1, <3>2, <3>3 DEF LayoutExtendsParent
    <2>5. MethodsFromNearest(i)
      BY <1>4, <2>1 DEF Resolved, MethodsFromNearest
    <2>6. ParentOfSameText(i)
      <3>1. /\ infos[i].depth = IF Parent(i) = 0 THEN 0 ELSE infos[Parent(i)].depth + 1
            /\ infos[i].depth <= MaxInheritanceDepth
        BY <1>4, <2>1 DEF Descends
      <3>2. Versions(infos)
        BY <1>1, <1>2 DEF Kept
      <3>3. ASSUME Parent(i) # 0, NEW j \in DOMAIN infos,
                   infos[j].load = infos[i].load, infos[j].name = infos[Parent(i)].name
            PROVE  j = Parent(i)
        BY <1>3, <2>1, <3>2, <3>3 DEF Versions
      <3> QED
        BY <2>1, <3>1, <3>3 DEF ParentOfSameText
    <2> QED
      BY <2>4, <2>5, <2>6
  <1>6. \A n \in AllNames : classById[n] # 0 =>
           infos[classById[n]].name = n /\ n \notin functions \cup Natives
    BY <1>1, <1>2 DEF Kept, OneSpace
  <1>7. classCount = Cardinality({n \in ClassNames : classById[n] # 0}) /\ classCount <= MaxClasses
    BY <1>1, <1>2 DEF Kept, Counted, InUse
  <1> QED
    BY <1>5, <1>6, <1>7 DEF ClassesCoherent

\* Whatever texts are loaded, as runs or as modules, in whatever order and wherever a load fails,
\* the classes that registerClasses and buildClass leave are coherent.
THEOREM ClassesCorrect == ClassSpec => []ClassesCoherent
  <1>1. ClassInv => ClassesCoherent
    BY InvIsCoherent
  <1> QED
    BY <1>1, ClassInvariance, PTL
=============================================================================
