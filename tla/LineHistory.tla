----------------------------- MODULE LineHistory ----------------------------
(***************************************************************************)
(* What readEntry of cli/LineEditor.h does with whole entries: the history *)
(* of what was submitted, walking through it with Up and Down, and the     *)
(* draft that waits at its end meanwhile.  An entry is one of a few texts. *)
(***************************************************************************)
EXTENDS Naturals, Sequences, SequencesExt

CONSTANTS
    Texts,     \* entries that are not blank
    Blank,     \* every entry isBlank answers true for, the empty one included
    MaxHistory \* kMaxHistory

ASSUME HistorySizeAssumption == Blank \notin Texts /\ MaxHistory \in Nat \ {0}

VARIABLES
    entry,      \* buffer_
    history,    \* history_, oldest first
    historyPos, \* historyPos_, counted from zero; Len(history) is the draft's place
    draft,      \* draft_
    active,     \* readEntry is running
    typed,      \* the entry as last typed at the end of the history
    submitted   \* what the last call that submitted gave to the session

historyVars == <<entry, history, historyPos, draft, active, typed, submitted>>

AtDraft == historyPos = Len(history)

HistoryInit ==
    /\ entry = Blank /\ history = <<>> /\ historyPos = 0 /\ draft = Blank
    /\ active = FALSE /\ typed = Blank /\ submitted = Blank

\* What starts an entry afresh: a call, or Enter on a blank one.
Restart == /\ entry' = Blank /\ historyPos' = Len(history) /\ draft' = Blank /\ typed' = Blank
           /\ active' = TRUE
           /\ UNCHANGED <<history, submitted>>

BeginEntry == ~active /\ Restart
EnterBlank == active /\ entry = Blank /\ Restart

\* Every key of LineBuffer.
Edit == /\ active
        /\ entry' \in Texts \cup {Blank}
        /\ typed' = IF AtDraft THEN entry' ELSE typed
        /\ UNCHANGED <<history, historyPos, draft, active, submitted>>

\* Mutant of SaveDraft: whatever is left becomes the draft.
SaveWhatIsLeft == draft' = entry

\* recallHistory.
SaveDraft == draft' = IF AtDraft THEN entry ELSE draft

Older == /\ active /\ historyPos > 0
         /\ SaveDraft
         /\ historyPos' = historyPos - 1
         /\ entry' = history[historyPos]
         /\ UNCHANGED <<history, active, typed, submitted>>

Newer == /\ active /\ ~AtDraft
         /\ historyPos' = historyPos + 1
         /\ entry' = IF historyPos + 1 = Len(history) THEN draft ELSE history[historyPos + 2]
         /\ UNCHANGED <<history, draft, active, typed, submitted>>

\* Mutant of Remembered: the entry is compared with the oldest one.
RememberedUnlessOldest(e) ==
    LET h == IF history # <<>> /\ Head(history) = e THEN history ELSE Append(history, e)
    IN  IF Len(h) > MaxHistory THEN Tail(h) ELSE h

Remembered(e) ==
    LET h == IF history # <<>> /\ Last(history) = e THEN history ELSE Append(history, e)
    IN  IF Len(h) > MaxHistory THEN Tail(h) ELSE h

Submit == /\ active /\ entry # Blank
          /\ history' = Remembered(entry)
          /\ submitted' = entry
          /\ active' = FALSE
          /\ UNCHANGED <<entry, historyPos, draft, typed>>

\* Ctrl+C.
Cancel == active /\ active' = FALSE
          /\ UNCHANGED <<entry, history, historyPos, draft, typed, submitted>>

HistoryNext == \/ BeginEntry \/ EnterBlank \/ Edit \/ Older \/ Newer \/ Submit \/ Cancel

HistorySpec == HistoryInit /\ [][HistoryNext]_historyVars

-----------------------------------------------------------------------------
\* However far the user walks through the history, and whatever they change of
\* the entries they pass, what they had typed is still there at its end.
DraftKept == active => IF AtDraft THEN entry = typed ELSE draft = typed

\* The newest entry of the history is the one the session was given last, no
\* entry follows an equal one, and editing a recalled entry never changes it.
HistoryFaithful ==
    /\ history \in Seq(Texts) /\ Len(history) <= MaxHistory
    /\ historyPos \in 0..MaxHistory /\ (active => historyPos <= Len(history))
    /\ submitted # Blank => history # <<>> /\ Last(history) = submitted
    /\ \A i \in 1..(Len(history) - 1) : history[i] # history[i + 1]
=============================================================================
