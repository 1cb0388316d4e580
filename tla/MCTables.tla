------------------------------ MODULE MCTables ------------------------------
(***************************************************************************)
(* The tables a program works on: variables in scopes, classes in the      *)
(* class table, and the keys of a map.  No two of them ever meet (they     *)
(* have separate names), so each is explored alone, the part being chosen  *)
(* in the initial state.                                                   *)
(***************************************************************************)
EXTENDS Environment, ClassTable, ValueMap

VARIABLE part

Class(n, p, fs, ms) == [name |-> n, parent |-> p, fields |-> fs, methods |-> ms]
Bodies == {<< <<>>, <<>> >>, << <<"f">>, <<>> >>, << <<>>, <<"f">> >>}

\* A and B in any relation, to each other and to Error; then texts for the limits and the names.
Pairs == {Class(n, p, b[1], b[2]) : n \in {"A", "B"}, p \in {NoParent, "A", "B", "Error"}, b \in Bodies}
MCBuiltin == [name |-> "Error", fields |-> <<"message">>, methods |-> <<"to_str">>]
MCTexts ==
    {[functions |-> <<>>, classes |-> ds] : ds \in {<<d>> : d \in Pairs} \cup (Pairs \X Pairs)}
    \cup {[functions |-> fs, classes |-> <<Class("C", "B", <<>>, <<"to_str">>)>>] :
             fs \in {<<>>, <<"A">>, <<"C">>, <<"A", "B">>}}
    \cup {[functions |-> <<>>, classes |-> <<d>>] :
             d \in {Class("A", "Error", <<"message">>, <<>>), Class("A", NoParent, <<"f", "f">>, <<>>),
                    Class("A", NoParent, <<"f">>, <<"f">>), Class("B", "C", <<"f", "g">>, <<>>),
                    Class("Error", NoParent, <<>>, <<>>), Class("B", "print", <<>>, <<>>)}}

Init == EnvInit /\ ClassInit /\ MapInit /\ part \in {"scopes", "classes", "maps"}
Next == \/ part = "scopes" /\ EnvNext /\ UNCHANGED <<classVars, mapVars, part>>
        \/ part = "classes" /\ ClassNext /\ UNCHANGED <<envVars, mapVars, part>>
        \/ part = "maps" /\ MapNext /\ UNCHANGED <<envVars, classVars, part>>
Spec == Init /\ [][Next]_<<envVars, classVars, mapVars, part>>
=============================================================================
