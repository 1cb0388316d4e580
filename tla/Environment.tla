----------------------------- MODULE Environment ----------------------------
(***************************************************************************)
(* Variables and scopes as the interpreter keeps them: a C++ stack of      *)
(* Environment objects, each an append-only list of variables that gains a *)
(* name index when it grows past a threshold; storage pooled between       *)
(* calls; and pointers to variables kept while an expression is evaluated. *)
(***************************************************************************)
EXTENDS Naturals, SequencesExt

CONSTANTS
    Names,           \* names of variables
    ConstantNames,   \* those written in capitals
    Signatures,      \* bound: the parameters the program's functions have
    Given,           \* values a name gets when it is declared
    Assigned,        \* values `change` gives it
    Empty,
    Members,         \* the members of the object that `with` blocks name
    IndexThreshold,  \* kIndexThreshold
    PoolCap,         \* kCallPoolCap
    MaxScopes,       \* bound: environments alive at once (the code bounds depth)
    MaxVariables,    \* bound: variables alive at once, those of the pool included
    MaxPending       \* bound: bridged names, changes in evaluation, or_elses in progress (of
                     \* each kind; twice as many of all)

ASSUME SignaturesAssumption == \A P \in Signatures : P \subseteq Names /\ IsFiniteSet(P)

VARIABLES
    envs,        \* innermost last: [kind, vars, constants, bridged, index, with]
    pool,        \* envVarsPool_
    evaluating,  \* the `change` statements in evaluation: the level and the place each has found
    handlers,    \* the or_else statements in progress: their level, the name their statement declares
    fields       \* the values of the members

envVars == <<envs, pool, evaluating, handlers, fields>>

Values == Given \cup Assigned
NoName == "none"
NoIndex == [n \in {} |-> 0]
Environment(kind, with) ==
    [kind |-> kind, vars |-> <<>>, constants |-> {}, bridged |-> {}, index |-> NoIndex,
     with |-> with]
Top == Len(envs)

----------------------------------------------------------------------------
(* One environment. *)

\* The position of a name's variable, 0 when there is none.
FindLocal(e, n) ==
    IF e.index # NoIndex
    THEN IF n \in DOMAIN e.index THEN e.index[n] ELSE 0
    ELSE SelectInSeq(e.vars, LAMBDA x : x.name = n)

Indexed(e) ==
    LET size == Len(e.vars) IN
    IF e.index # NoIndex
    THEN [n \in DOMAIN e.index \cup {e.vars[size].name} |->
             IF n \in DOMAIN e.index THEN e.index[n] ELSE size]
    ELSE IF size >= IndexThreshold
    THEN [n \in {x.name : x \in ToSet(e.vars)} |-> SelectLastInSeq(e.vars, LAMBDA x : x.name = n)]
    ELSE NoIndex

WithVariable(e, n, v) ==
    LET longer == [e EXCEPT !.vars = Append(@, [name |-> n, value |-> v])]
    IN [longer EXCEPT !.index = Indexed(longer)]

Stored(e, n, v) ==
    IF FindLocal(e, n) # 0 THEN [e EXCEPT !.vars[FindLocal(e, n)].value = v]
    ELSE WithVariable(e, n, v)

Declared(e, n, v, constant) ==
    [Stored(e, n, v) EXCEPT !.constants = IF constant THEN @ \cup {n} ELSE @ \ {n}]

DeclaredAll(e, entries) ==
    FoldLeft(LAMBDA x, d : Declared(x, d.name, d.value, d.constant), e, entries)

----------------------------------------------------------------------------
(* The stack of environments. *)

\* The environment where the search from level i ends: a function's, a module's or the global one.
Home(i) == Max({j \in 1 .. i : envs[j].kind # "block"})
GlobalOf(i) == IF envs[Home(i)].kind = "function" THEN 1 ELSE Home(i)
InFunctionBody == \E j \in 1 .. Top : envs[j].kind = "function"

\* A pointer into a list of variables is good as long as the list keeps its size.
Place(what, i, n) ==
    [what |-> what, level |-> i, slot |-> FindLocal(envs[i], n), size |-> Len(envs[i].vars)]
Slot(i, n) == Place("variable", i, n)
Nowhere == [what |-> "nowhere", level |-> 0, slot |-> 0, size |-> 0]

\* A function sees nothing outside itself except the names it has bridged.
Bridged(i, n) ==
    IF n \in envs[Home(i)].bridged /\ FindLocal(envs[GlobalOf(i)], n) # 0
    THEN Slot(GlobalOf(i), n) ELSE Nowhere

Resolve(n) ==
    LET here == {j \in Home(Top) .. Top : FindLocal(envs[j], n) # 0} IN
    IF here # {} THEN Slot(Max(here), n) ELSE Bridged(Top, n)

\* Inside a `with` block the members of its object come after its own variables.
LocateWith(n) ==
    LET members == {j \in Home(Top) .. Top : envs[j].with /\ n \in Members} IN
    IF members = {} \/ Resolve(n).level >= Max(members \cup {1}) THEN Resolve(n)
    ELSE Place("member", Max(members), n)

IsConstant(place, n) == place.what = "variable" /\ n \in envs[place.level].constants

----------------------------------------------------------------------------
(* Statements of the innermost environment. *)

\* No expression of the innermost environment is being evaluated, and no declaration is awaited.
AwaitsValue == evaluating # <<>> /\ Last(evaluating).at = Top
AwaitsName == handlers # <<>> /\ Last(handlers).at = Top /\ Last(handlers).name # NoName
Idle == ~AwaitsValue /\ ~AwaitsName

Lists == [i \in DOMAIN envs |-> envs[i].vars] \o pool
VariableCount == Cardinality(UNION {{i} \X DOMAIN Lists[i] : i \in DOMAIN Lists})
Room(n) == VariableCount + n <= MaxVariables
BridgedCount == Cardinality(UNION {{i} \X envs[i].bridged : i \in DOMAIN envs})
RoomPending(count) == /\ count < MaxPending
                      /\ BridgedCount + Len(evaluating) + Len(handlers) < 2 * MaxPending

EnvInit == /\ envs = <<Environment("global", FALSE)>>
           /\ pool = <<>> /\ evaluating = <<>> /\ handlers = <<>>
           /\ fields \in [Members -> Given]

Put(e) == envs' = [envs EXCEPT ![Top] = e]

Declare(n, v, constant) ==
    /\ Idle /\ Room(1)
    /\ constant => n \in ConstantNames
    /\ Put(Declared(envs[Top], n, v, constant))
    /\ UNCHANGED <<pool, evaluating, handlers, fields>>

AssignLoopVar(n, v) ==
    /\ Idle /\ Room(1)
    /\ n \notin envs[Top].constants
    /\ Put(Stored(envs[Top], n, v))
    /\ UNCHANGED <<pool, evaluating, handlers, fields>>

\* `global n`, written in a function or in a module that a function loads.
DeclareGlobal(n) ==
    /\ Idle /\ InFunctionBody /\ RoomPending(BridgedCount)
    /\ envs' = [envs EXCEPT ![Home(Top)].bridged = @ \cup {n}]
    /\ UNCHANGED <<pool, evaluating, handlers, fields>>

\* `change n to ...` finds the place first, then evaluates the value, then writes to that place.
BeginChange(n) ==
    /\ Idle /\ RoomPending(Len(evaluating))
    /\ LET place == LocateWith(n) IN
       /\ place # Nowhere /\ ~IsConstant(place, n)
       /\ evaluating' = Append(evaluating, [at |-> Top, name |-> n, place |-> place])
    /\ UNCHANGED <<envs, pool, handlers, fields>>

FinishChange(v) ==
    /\ AwaitsValue
    /\ LET c == Last(evaluating) IN
       IF c.place.what = "member"
       THEN fields' = [fields EXCEPT ![c.name] = v] /\ UNCHANGED envs
       ELSE /\ envs' = [envs EXCEPT ![c.place.level].vars[c.place.slot].value = v]
            /\ UNCHANGED fields
    /\ evaluating' = Front(evaluating)
    /\ UNCHANGED <<pool, handlers>>

----------------------------------------------------------------------------
(* Environments come and go. *)

\* Mutant of Cleared: the storage is adopted with what it holds.
NotCleared(storage) == storage

\* The storage of a finished call, adopted by the next one.
Cleared(storage) == <<>>
Adopted(e) == IF pool = <<>> THEN e ELSE [e EXCEPT !.vars = Cleared(Last(pool))]
Released(p, e) == IF e.kind = "function" /\ Len(p) < PoolCap THEN Append(p, e.vars) ELSE p

\* A call, in a statement or in the expression being evaluated; params are [name, value].
Call(params) ==
    /\ Top < MaxScopes /\ Room(Len(params))
    /\ envs' = Append(envs, DeclaredAll(Adopted(Environment("function", FALSE)),
                  [k \in DOMAIN params |->
                      [name |-> params[k].name, value |-> params[k].value, constant |-> FALSE]]))
    /\ pool' = IF pool = <<>> THEN pool ELSE Front(pool)
    /\ UNCHANGED <<evaluating, handlers, fields>>

Ended == /\ Idle
         /\ handlers # <<>> => Last(handlers).at < Top

Return ==
    /\ Ended /\ envs[Top].kind = "function"
    /\ envs' = Front(envs)
    /\ pool' = Released(pool, envs[Top])
    /\ UNCHANGED <<evaluating, handlers, fields>>

OpenWith ==
    /\ Idle /\ Top < MaxScopes
    /\ envs' = Append(envs, Environment("block", TRUE))
    /\ UNCHANGED <<pool, evaluating, handlers, fields>>

CloseBlock ==
    /\ Ended /\ envs[Top].kind = "block"
    /\ envs' = Front(envs)
    /\ UNCHANGED <<pool, evaluating, handlers, fields>>

\* `use`: the module's top level runs in an environment that is its own global one.
BeginModule ==
    /\ Idle /\ Top < MaxScopes
    /\ envs' = Append(envs, Environment("module", FALSE))
    /\ UNCHANGED <<pool, evaluating, handlers, fields>>

\* Mutant of UserOf: the variables of a module become global ones.
IntoGlobals(i) == GlobalOf(i)

\* The variables of a module are copied into the environment of the `use` statement.
UserOf(i) == i
EndModule ==
    /\ Ended /\ envs[Top].kind = "module"
    /\ LET m == envs[Top]
           entries == [k \in DOMAIN m.vars |->
                          [name |-> m.vars[k].name, value |-> m.vars[k].value,
                           constant |-> m.vars[k].name \in m.constants]]
           user == UserOf(Top - 1)
       IN envs' = [Front(envs) EXCEPT ![user] = DeclaredAll(@, entries)]
    /\ UNCHANGED <<pool, evaluating, handlers, fields>>

----------------------------------------------------------------------------
(* Errors. *)

\* A statement with or_else begins; n is the name it declares, if it is a declaration.
BeginOrElse(n) ==
    /\ Idle /\ RoomPending(Len(handlers)) /\ Top < MaxScopes
    /\ handlers' = Append(handlers, [at |-> Top, name |-> n])
    /\ UNCHANGED <<envs, pool, evaluating, fields>>

\* It ends without an error: a declaration binds its name.
EndOrElse(v) ==
    /\ handlers # <<>> /\ Last(handlers).at = Top /\ ~AwaitsValue
    /\ IF AwaitsName THEN Room(1) /\ Put(Declared(envs[Top], Last(handlers).name, v, FALSE))
       ELSE UNCHANGED envs
    /\ handlers' = Front(handlers)
    /\ UNCHANGED <<pool, evaluating, fields>>

\* The environments above level k are destroyed, innermost first; calls release their storage.
PoolAfter(k) == FoldLeft(Released, pool, Reverse(SubSeq(envs, k + 1, Top)))
EvaluatingBelow(k) == SubSeq(evaluating, 1, SelectLastInSeq(evaluating, LAMBDA c : c.at < k))

\* An error with a handler: a name whose declaration failed is bound to empty, and the handler's
\* block holds the error when it names one.
Handle(errorName, v) ==
    /\ handlers # <<>> /\ Room(2)
    /\ LET h == Last(handlers)
           below == envs[h.at]
           kept == IF h.name # NoName /\ FindLocal(below, h.name) = 0
                   THEN Declared(below, h.name, Empty, FALSE) ELSE below
           block == IF errorName = NoName THEN Environment("block", FALSE)
                    ELSE Declared(Environment("block", FALSE), errorName, v, FALSE)
       IN /\ envs' = SubSeq(envs, 1, h.at - 1) \o <<kept, block>>
          /\ pool' = PoolAfter(h.at)
          /\ evaluating' = EvaluatingBelow(h.at)
    /\ handlers' = Front(handlers)
    /\ UNCHANGED fields

\* An error nobody handles ends the entry; a session goes on with its global variables.
Abort ==
    /\ handlers = <<>> /\ (Top > 1 \/ AwaitsValue)
    /\ envs' = SubSeq(envs, 1, 1)
    /\ pool' = PoolAfter(1)
    /\ evaluating' = <<>>
    /\ UNCHANGED <<handlers, fields>>

Arguments(P, v) == [k \in 1 .. Cardinality(P) |-> [name |-> SetToSeq(P)[k], value |-> v]]

EnvNext ==
    \/ \E n \in Names, v \in Given, c \in BOOLEAN : Declare(n, v, c)
    \/ \E n \in Names, v \in Given : AssignLoopVar(n, v)
    \/ \E n \in Names : DeclareGlobal(n)
    \/ \E n \in Names : BeginChange(n)
    \/ \E v \in Assigned : FinishChange(v)
    \/ \E P \in Signatures, v \in Given : Call(Arguments(P, v))
    \/ Return \/ OpenWith \/ CloseBlock \/ BeginModule \/ EndModule
    \/ \E n \in Names \cup {NoName} : BeginOrElse(n)
    \/ \E v \in Given : EndOrElse(v)
    \/ \E n \in Names \cup {NoName}, v \in Given : Handle(n, v)
    \/ Abort

EnvSpec == EnvInit /\ [][EnvNext]_envVars

----------------------------------------------------------------------------
(* Properties. *)

\* The lists, the index, the pool and the pointers kept during an evaluation behave as the scopes
\* of the language: a name denotes the same binding whether it is found by scan or by index, a
\* call starts with its parameters only, and `change` assigns what its name denotes at the end.
Bound(e) == {n \in Names : FindLocal(e, n) # 0}
ScopeOf(e) == [kind |-> e.kind, bound |-> [n \in Bound(e) |-> e.vars[FindLocal(e, n)].value],
               constants |-> e.constants, bridged |-> e.bridged, with |-> e.with]
Language == INSTANCE Scopes WITH
    scopes <- [i \in DOMAIN envs |-> ScopeOf(envs[i])],
    changing <- [k \in DOMAIN evaluating |-> [at |-> evaluating[k].at, name |-> evaluating[k].name]],
    members <- fields
IsScopes == Language!Spec

\* "Evaluating an expression never adds a variable to the scope it runs in, so the slot found
\* above is still where the variable lives" (execChange): while a value is evaluated, with the
\* calls, modules and errors in it, the environment of the slot neither goes nor grows.
SlotsStay ==
    \A k \in DOMAIN evaluating :
        LET c == evaluating[k] IN
        c.place.what = "variable" =>
            /\ c.place.slot = FindLocal(envs[c.place.level], c.name)
            /\ c.place.size = Len(envs[c.place.level].vars)
=============================================================================
