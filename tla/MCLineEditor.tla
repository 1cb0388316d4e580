---------------------------- MODULE MCLineEditor ----------------------------
(***************************************************************************)
(* The three parts of the line editor meet only in the key that nextKey    *)
(* returns and in the entry that is submitted, so each is explored alone,  *)
(* the part being chosen in the initial state.                             *)
(***************************************************************************)
EXTENDS KeyDecoder, LineBuffer, LineHistory

VARIABLE part

MCPastes == {<<"dos", "text">>, <<"mac", "wide">>, <<"unix", "control">>}

Init == /\ KeyInit /\ BufferInit /\ HistoryInit
        /\ part \in {"keys", "buffer", "history"}

Next == \/ part = "keys" /\ KeyNext /\ UNCHANGED <<bufferVars, historyVars, part>>
        \/ part = "buffer" /\ BufferNext /\ UNCHANGED <<keyVars, historyVars, part>>
        \/ part = "history" /\ HistoryNext /\ UNCHANGED <<keyVars, bufferVars, part>>

\* The editor reads what there is, and poll() returns when its time is over.
Spec == /\ Init /\ [][Next]_<<keyVars, bufferVars, historyVars, part>>
        /\ WF_keyVars(part = "keys" /\ Decode)
=============================================================================
