------------------------------- MODULE Scopes -------------------------------
(***************************************************************************)
(* What the language promises about names: a program runs in a stack of    *)
(* scopes, a name denotes the nearest binding its function can see, a      *)
(* global only where it was bridged, and `change` assigns what the name    *)
(* denotes when the new value is known.                                    *)
(***************************************************************************)
EXTENDS Naturals, SequencesExt

CONSTANTS Names, Values, Empty, Members,
          Signatures  \* the sets of parameters that functions have

VARIABLES scopes,    \* innermost last: [kind, bound, constants, bridged, with]
          changing,  \* the `change` statements whose value is being worked out
          members    \* the members of the object that `with` blocks name

vars == <<scopes, changing, members>>

Scope(kind, bound, with) ==
    [kind |-> kind, bound |-> bound, constants |-> {}, bridged |-> {}, with |-> with]
Unbound == [n \in {} |-> Empty]
Top == Len(scopes)

\* The scopes a piece of code searches: its blocks, up to its function or module.
Home(i) == Max({j \in 1 .. i : scopes[j].kind # "block"})
Seen(i) == Home(i) .. i
GlobalOf(i) == IF scopes[Home(i)].kind = "function" THEN 1 ELSE Home(i)

\* What a name denotes in the innermost scope: a variable of a scope, a member, or nothing.
Holding(n) == {j \in Seen(Top) : n \in DOMAIN scopes[j].bound \/ (scopes[j].with /\ n \in Members)}
Nothing == [what |-> "nothing", scope |-> 0]
Denoted(n) ==
    IF Holding(n) # {} THEN
        LET j == Max(Holding(n)) IN
        [what |-> IF n \in DOMAIN scopes[j].bound THEN "variable" ELSE "member", scope |-> j]
    ELSE IF n \in scopes[Home(Top)].bridged /\ n \in DOMAIN scopes[GlobalOf(Top)].bound
    THEN [what |-> "variable", scope |-> GlobalOf(Top)]
    ELSE Nothing
Changeable(n) == /\ Denoted(n) # Nothing
                 /\ Denoted(n).what = "variable" => n \notin scopes[Denoted(n).scope].constants

Bind(s, n, v, constant) ==
    [s EXCEPT !.bound = [m \in DOMAIN @ \cup {n} |-> IF m = n THEN v ELSE @[m]],
              !.constants = IF constant THEN @ \cup {n} ELSE @ \ {n}]

Init == /\ scopes = <<Scope("global", Unbound, FALSE)>>
        /\ changing = <<>>
        /\ members \in [Members -> Values]

\* A declaration binds its name in the innermost scope, and there only.
Declare == /\ Len(scopes') = Top
           /\ \E n \in DOMAIN scopes'[Top].bound :
                 scopes' = [scopes EXCEPT ![Top] =
                     Bind(@, n, scopes'[Top].bound[n], n \in scopes'[Top].constants)]
           /\ UNCHANGED <<changing, members>>

Bridge ==
    /\ Len(scopes') = Top
    /\ \E n \in scopes'[Home(Top)].bridged :
          scopes' = [scopes EXCEPT ![Home(Top)].bridged = @ \cup {n}]
    /\ UNCHANGED <<changing, members>>

StartChange ==
    /\ Len(changing') = Len(changing) + 1
    /\ LET n == Last(changing').name IN
       /\ Changeable(n)
       /\ changing' = Append(changing, [at |-> Top, name |-> n])
    /\ UNCHANGED <<scopes, members>>

EndChange ==
    /\ changing # <<>> /\ changing' = Front(changing) /\ Last(changing).at = Top
    /\ LET n == Last(changing).name IN
       /\ Changeable(n)
       /\ \E v \in Values :
             IF Denoted(n).what = "member"
             THEN members' = [members EXCEPT ![n] = v] /\ UNCHANGED scopes
             ELSE scopes' = [scopes EXCEPT ![Denoted(n).scope].bound[n] = v] /\ UNCHANGED members

\* A function starts with its parameters and nothing else; so do a module and a block, with nothing.
Enter == /\ Len(scopes') = Top + 1 /\ Front(scopes') = scopes
         /\ LET new == Last(scopes') IN
            /\ new = Scope(new.kind, new.bound, new.with)
            /\ new.kind \in {"function", "block", "module"}
            /\ IF new.kind = "function" THEN DOMAIN new.bound \in Signatures
               ELSE new.bound = Unbound
            /\ new.with = (new.kind = "block")
         /\ UNCHANGED <<changing, members>>

Leave == /\ Len(scopes') = Top - 1
         /\ \A k \in 1 .. Len(changing) : changing[k].at < Top
         /\ scopes' = Front(scopes)
         /\ UNCHANGED <<changing, members>>

\* A module's variables, constants still constant, become variables of the scope that wrote `use`.
Import ==
    /\ Len(scopes') = Top - 1 /\ scopes[Top].kind = "module"
    /\ LET m == scopes[Top]
           user == scopes[Top - 1]
       IN scopes' = Append(SubSeq(scopes, 1, Top - 2),
              [user EXCEPT
                  !.bound = [n \in DOMAIN @ \cup DOMAIN m.bound |->
                                 IF n \in DOMAIN m.bound THEN m.bound[n] ELSE @[n]],
                  !.constants = (@ \ DOMAIN m.bound) \cup m.constants])
    /\ UNCHANGED <<changing, members>>

\* An error leaves the scopes above the statement that handles it. A declaration that failed leaves
\* its name bound, to empty unless it had a binding, and the handler runs in a block of its own.
Handled ==
    LET k == Len(scopes') - 1 IN
    /\ k \in 1 .. Top
    /\ Last(scopes') = Scope("block", Last(scopes').bound, FALSE)
    /\ Cardinality(DOMAIN Last(scopes').bound) <= 1
    /\ SubSeq(scopes', 1, k - 1) = SubSeq(scopes, 1, k - 1)
    /\ scopes'[k] = scopes[k] \/ \E n \in Names \ DOMAIN scopes[k].bound :
                                   scopes'[k] = Bind(scopes[k], n, Empty, FALSE)
    /\ \E m \in 0 .. Len(changing) :
          /\ changing' = SubSeq(changing, 1, m)
          /\ \A c \in 1 .. Len(changing) : c <= m <=> changing[c].at < k
    /\ UNCHANGED members

Unhandled == /\ scopes' = SubSeq(scopes, 1, 1) /\ changing' = <<>> /\ UNCHANGED members

Next == \/ Declare \/ Bridge \/ StartChange \/ EndChange
        \/ Enter \/ Leave \/ Import \/ Handled \/ Unhandled

Spec == Init /\ [][Next]_vars
=============================================================================
