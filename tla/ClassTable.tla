----------------------------- MODULE ClassTable -----------------------------
(***************************************************************************)
(* The class table: what becomes of the classes and functions of a program *)
(* text when it is loaded, as the entry of a run or as a module during it. *)
(* Every class built stays alive as long as an object or a child points at *)
(* it, so a name is a handle on the newest of several versions.            *)
(***************************************************************************)
EXTENDS Naturals, SequencesExt

CONSTANTS
    ClassNames,           \* names that classes and functions compete for
    Natives,              \* the names the libraries registered
    Builtin,              \* Error, [name, fields, methods]
    Texts,                \* the texts that may be loaded: [functions, classes], a class being
                          \* [name, parent, fields, methods]
    MaxClasses, MaxInheritanceDepth, MaxClassMembers,
    MaxLoads              \* bound: texts loaded

VARIABLES
    infos,        \* every ClassInfo built; its place is its address
    classById,    \* name -> the newest ClassInfo, 0 when there is none
    classEpoch,   \* name -> the run that declared it
    functions,    \* userById_
    classCount, runEpoch,
    running,      \* the entry of this run was loaded, so that its statements can load modules
    loads         \* texts loaded so far

classVars == <<infos, classById, classEpoch, functions, classCount, runEpoch, running, loads>>

NoParent == "none"
AllNames == ClassNames \cup {Builtin.name}

\* What the parser leaves of a class: its members are names, in the order of the text.
Declarations == [name : AllNames, parent : STRING, fields : Seq(STRING), methods : Seq(STRING)]

ASSUME ClassesAssumption ==
    /\ IsFiniteSet(ClassNames)
    /\ Builtin \in [name : STRING, fields : Seq(STRING), methods : Seq(STRING)]
    /\ Builtin.name \notin ClassNames \cup Natives
    /\ IsInjective(Builtin.fields)
    /\ Texts \subseteq [functions : Seq(STRING), classes : Seq(Declarations)]
    /\ {MaxClasses, MaxInheritanceDepth, MaxClassMembers, MaxLoads} \subseteq Nat

----------------------------------------------------------------------------
(* Building one class, given the table `t` so far. *)

ParentOf(t, d) == IF d.parent = NoParent THEN 0 ELSE t.byId[d.parent]
DepthOf(t, parent) == IF parent = 0 THEN 0 ELSE t.infos[parent].depth + 1
FieldsOf(t, parent) == IF parent = 0 THEN <<>> ELSE t.infos[parent].fields
MethodsOf(t, parent) == IF parent = 0 THEN [m \in {} |-> 0] ELSE t.infos[parent].methods
NamesOf(fields) == {fields[k].name : k \in DOMAIN fields}

\* A field may not repeat another of the class or of its ancestors.
FieldsFree(inherited, d) == /\ IsInjective(d.fields)
                            /\ ToSet(d.fields) \cap NamesOf(inherited) = {}
\* A method may replace an inherited one; it may not repeat one of its class, nor be named as a field.
MethodsFree(inherited, d) == /\ IsInjective(d.methods)
                             /\ ToSet(d.methods) \cap (ToSet(d.fields) \cup NamesOf(inherited)) = {}

ClassInfo(t, d) ==
    LET parent == ParentOf(t, d)
        this == Len(t.infos) + 1
    IN [name |-> d.name, parent |-> parent, depth |-> DepthOf(t, parent), load |-> t.load,
        fields |-> FieldsOf(t, parent)
                     \o [k \in DOMAIN d.fields |-> [name |-> d.fields[k], declaredIn |-> this]],
        methods |-> [m \in DOMAIN MethodsOf(t, parent) \cup ToSet(d.methods) |->
                        IF m \in ToSet(d.methods) THEN this ELSE MethodsOf(t, parent)[m]]]

Buildable(t, d) ==
    /\ d.parent # NoParent => d.parent # d.name /\ d.parent \in AllNames /\ ParentOf(t, d) # 0
    /\ DepthOf(t, ParentOf(t, d)) <= MaxInheritanceDepth
    /\ FieldsFree(FieldsOf(t, ParentOf(t, d)), d)
    /\ MethodsFree(FieldsOf(t, ParentOf(t, d)), d)
    /\ Len(ClassInfo(t, d).fields) + Cardinality(DOMAIN ClassInfo(t, d).methods) <= MaxClassMembers

\* Building stops at the first class that cannot be built; those before it stay.
Build(t, d) ==
    IF ~t.ok \/ d.name \in t.done THEN t
    ELSE IF ~Buildable(t, d) THEN [t EXCEPT !.ok = FALSE]
    ELSE [t EXCEPT !.infos = Append(@, ClassInfo(t, d)),
                   !.count = IF t.byId[d.name] = 0 THEN @ + 1 ELSE @,
                   !.byId[d.name] = Len(t.infos) + 1,
                   !.epoch[d.name] = t.run,
                   !.done = @ \cup {d.name}]

----------------------------------------------------------------------------
(* Building the classes of one text. *)

Named(decls, n) == SelectInSeq(decls, LAMBDA d : d.name = n)

\* A class and its ancestors of the same text, youngest first; with as many steps as there are
\* classes in the text, one that inherits from itself comes back to a class it has met.
Lineage(decls, i) ==
    LET up[k \in 0 .. Len(decls)] ==
            IF k = 0 THEN i
            ELSE IF up[k - 1] = 0 THEN 0 ELSE Named(decls, decls[up[k - 1]].parent)
    IN [k \in 1 .. Len(decls) + 1 |-> up[k - 1]]
Circular(decls, i) == 0 \notin ToSet(Lineage(decls, i))

\* Mutant of BuildClass: a class is built before the parent that its text declares further down.
InWrittenOrder(t, decls, i) == Build(t, decls[i])

\* A class is built after the parent that its text declares, wherever that is written.
BuildClass(t, decls, i) ==
    IF Circular(decls, i) THEN [t EXCEPT !.ok = FALSE]
    ELSE FoldLeft(LAMBDA x, k : IF k = 0 THEN x ELSE Build(x, decls[k]),
                  t, Reverse(Lineage(decls, i)))

----------------------------------------------------------------------------
(* Loading a text: its functions, then its classes. *)

\* A function may not take the name of a class; those registered before it stay.
RegisterFunctions(t, names) ==
    FoldLeft(LAMBDA x, n : IF ~x.ok THEN x
                           ELSE IF n \in AllNames /\ x.byId[n] # 0 THEN [x EXCEPT !.ok = FALSE]
                           ELSE [x EXCEPT !.functions = @ \cup {n}], t, names)

Added(t, decls) == Cardinality({i \in DOMAIN decls : t.byId[decls[i].name] = 0})

\* A class may be declared again in a later run, never in the one that declared it.
ClassNameFree(t, n) ==
    /\ n # Builtin.name
    /\ t.byId[n] # 0 => t.epoch[n] # t.run
    /\ n \notin t.functions \cup Natives

RegisterClasses(t, decls) ==
    IF ~t.ok THEN t
    ELSE IF \/ t.count + Added(t, decls) > MaxClasses
            \/ ~IsInjective([i \in DOMAIN decls |-> decls[i].name])
            \/ \E i \in DOMAIN decls : ~ClassNameFree(t, decls[i].name)
         THEN [t EXCEPT !.ok = FALSE]
    ELSE FoldLeft(LAMBDA x, i : IF x.ok THEN BuildClass(x, decls, i) ELSE x,
                  t, [i \in DOMAIN decls |-> i])

Load(text, run) ==
    LET t == RegisterClasses(
                 RegisterFunctions(
                     [infos |-> infos, byId |-> classById, epoch |-> classEpoch, count |-> classCount,
                      functions |-> functions, done |-> {}, ok |-> TRUE, run |-> run, load |-> loads + 1],
                     text.functions),
                 text.classes)
    IN /\ loads < MaxLoads /\ loads' = loads + 1
       /\ infos' = t.infos /\ classById' = t.byId /\ classEpoch' = t.epoch
       /\ classCount' = t.count /\ functions' = t.functions
       /\ running' = (t.ok \/ run = runEpoch)  \* a module that fails may be caught by or_else
       /\ runEpoch' = run

\* The interpreter starts with the built-in class, which does not count.
ClassInit ==
    /\ infos = <<[name |-> Builtin.name, parent |-> 0, depth |-> 0, load |-> 0,
                  fields |-> [k \in DOMAIN Builtin.fields |->
                                 [name |-> Builtin.fields[k], declaredIn |-> 1]],
                  methods |-> [m \in ToSet(Builtin.methods) |-> 1]]>>
    /\ classById = [n \in AllNames |-> IF n = Builtin.name THEN 1 ELSE 0]
    /\ classEpoch = [n \in AllNames |-> 0]
    /\ functions = {} /\ classCount = 0 /\ runEpoch = 0 /\ running = FALSE /\ loads = 0

NewRun(text) == Load(text, runEpoch + 1)
UseModule(text) == running /\ Load(text, runEpoch)

ClassNext == \E text \in Texts : NewRun(text) \/ UseModule(text)

ClassSpec == ClassInit /\ [][ClassNext]_classVars

----------------------------------------------------------------------------
(* Properties. *)

Parent(i) == infos[i].parent
Inherited(i) == IF Parent(i) = 0 THEN <<>> ELSE infos[Parent(i)].fields

\* An object of a child can be used by the methods of its parent: the parent's fields come first,
\* at their own indexes, and no name is a field twice.
LayoutExtendsParent(i) ==
    /\ Len(Inherited(i)) <= Len(infos[i].fields)
    /\ \A k \in DOMAIN infos[i].fields :
          IF k <= Len(Inherited(i))
          THEN infos[i].fields[k] = Inherited(i)[k] /\ infos[i].fields[k].declaredIn # i
          ELSE infos[i].fields[k].declaredIn = i
    /\ \A k, m \in DOMAIN infos[i].fields :
          infos[i].fields[k].name = infos[i].fields[m].name => k = m

\* A method is the class's own or the one its parent has; none of the parent's is missing.
MethodsFromNearest(i) ==
    Parent(i) # 0 => \A m \in DOMAIN infos[i].methods \cup DOMAIN infos[Parent(i)].methods :
        /\ m \in DOMAIN infos[i].methods
        /\ infos[i].methods[m] # i => infos[i].methods[m] = infos[Parent(i)].methods[m]

\* The chain of parents ends, within the limit, and follows the text: when a text declares the
\* parent too, the child extends that version of it and not one of an earlier text.
ParentOfSameText(i) ==
    /\ Parent(i) < i
    /\ infos[i].depth = (IF Parent(i) = 0 THEN 0 ELSE infos[Parent(i)].depth + 1)
    /\ infos[i].depth <= MaxInheritanceDepth
    /\ Parent(i) # 0 => \A j \in DOMAIN infos :
           infos[j].load = infos[i].load /\ infos[j].name = infos[Parent(i)].name => j = Parent(i)

\* Whatever texts are loaded, in whatever order, and wherever loading one fails (registerClasses
\* keeps the classes built before the one that fails): every class is well formed, names are
\* shared by no function and class, and the limit counts the names that programs declared.
ClassesCoherent ==
    /\ \A i \in DOMAIN infos :
          LayoutExtendsParent(i) /\ MethodsFromNearest(i) /\ ParentOfSameText(i)
    /\ \A n \in AllNames : classById[n] # 0 =>
          infos[classById[n]].name = n /\ n \notin functions \cup Natives
    /\ classCount = Cardinality({n \in ClassNames : classById[n] # 0})
    /\ classCount <= MaxClasses

\* "a field and a method cannot share a name" (buildClass): a class never has both under one name.
MembersApart ==
    \A i \in DOMAIN infos : NamesOf(infos[i].fields) \cap DOMAIN infos[i].methods = {}
=============================================================================
