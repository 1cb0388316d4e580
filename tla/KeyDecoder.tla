----------------------------- MODULE KeyDecoder -----------------------------
(***************************************************************************)
(* How the line editor turns the bytes of a POSIX terminal into keys       *)
(* (readByte, nextKey, decodeEscape, decodeCsi, decodeUtf8 and probeKitty  *)
(* of cli/LineEditor.h).  An action is one answer of readByte; `at' is the *)
(* call that waits for it.  A byte is told apart from others only as far   *)
(* as the decoder does, a parameter of a control sequence being one byte.  *)
(***************************************************************************)
EXTENDS Naturals, Sequences, SequencesExt

CONSTANTS
    Keys,   \* the keys the user presses, a subset of DOMAIN Sent
    Pastes, \* what may be pasted: sequences of pieces of text, see PieceBytes
    MaxSent \* how many keys and pastes are sent, a bound

VARIABLES
    line,      \* bytes on their way from the terminal
    closed,    \* the terminal is gone: read() reports the end of input
    asked,     \* the editor's request for the terminal's abilities is out
    pending,   \* pending_
    stash,     \* stash of probeKitty
    params,    \* params of decodeCsi and probeKitty
    at,        \* the call of readByte that is waiting, "away" between entries
    inPaste,   \* inPaste_
    probed,    \* kittyProbed_
    supported, \* kittySupported_
    sent,      \* how many keys and pastes were sent
    expected,  \* the keys pressed, oldest first
    decoded,   \* the keys decoded, the ones swallowed left out
    late,      \* bytes were late, were lost or collided on the way
    dropped,   \* a new entry began with bytes still in pending_
    speaks     \* the terminal reported the Kitty protocol to the probe

terminalVars == <<line, closed, asked, sent, expected, speaks>>
keyVars == <<line, closed, asked, pending, stash, params, at, inPaste, probed, supported,
             sent, expected, decoded, late, dropped, speaks>>

-----------------------------------------------------------------------------
(* The terminal. *)

\* What a key sends, and the kind of key it is for the editor ("Unknown" for
\* one that it does not use; of the last two, parts are left in the entry as text).
Sent == [char       |-> <<"x">>,
         wide       |-> <<"lead", "more">>,
         enter      |-> <<"cr">>,
         ctrlC      |-> <<"etx">>,
         up         |-> <<"esc", "[", "A">>,
         ss3Up      |-> <<"esc", "O", "A">>,
         altEnter   |-> <<"esc", "cr">>,
         shiftEnter |-> <<"esc", "[", "13;2", "u">>,
         escape     |-> <<"esc">>,
         insert     |-> <<"esc", "[", "2", "~">>,
         altUp      |-> <<"esc", "esc", "[", "A">>,
         consoleF1  |-> <<"esc", "[", "[", "A">>]

Meant == [char |-> "Char", wide |-> "Char", enter |-> "Enter", ctrlC |-> "CtrlC",
          up |-> "Up", ss3Up |-> "Up", altEnter |-> "ShiftEnter", shiftEnter |-> "ShiftEnter",
          escape |-> "Unknown", insert |-> "Unknown", altUp |-> "Unknown", consoleF1 |-> "Unknown"]

PieceBytes == [text |-> <<"x">>, wide |-> <<"lead", "more">>, unix |-> <<"nl">>,
               mac |-> <<"cr">>, dos |-> <<"cr", "nl">>, control |-> <<"bel">>]
PieceMeant == [text |-> "Char", wide |-> "Char", unix |-> "ShiftEnter",
               mac |-> "ShiftEnter", dos |-> "ShiftEnter", control |-> "Unknown"]

PasteOpen  == <<"esc", "[", "200", "~">>
PasteClose == <<"esc", "[", "201", "~">>

\* The keys that leave parts of themselves in the entry are left out, and so is a paste in which a
\* carriage return and a line feed stand for two line ends: the bytes are those of one.
ASSUME KeysAssumption ==
    /\ Keys \subseteq DOMAIN Sent \ {"altUp", "consoleF1"}
    /\ \A p \in Pastes : /\ p \in Seq(DOMAIN PieceBytes)
                         /\ \A i \in 1..(Len(p) - 1) : ~(p[i] = "mac" /\ p[i + 1] = "unix")

PasteBody(p)  == FoldLeft(LAMBDA text, piece : text \o PieceBytes[piece], <<>>, p)
PasteBytes(p) == PasteOpen \o PasteBody(p) \o PasteClose
PasteMeant(p) == <<"PasteStart">> \o [i \in 1..Len(p) |-> PieceMeant[p[i]]] \o <<"PasteEnd">>

Used(keys) == FoldLeft(LAMBDA ks, k : IF k = "Unknown" THEN ks ELSE Append(ks, k), <<>>, keys)

Undecoded == stash \o (IF at \in {"escape", "probeEsc"} THEN <<"esc">> ELSE <<>>)
                   \o pending \o line

\* Escape was pressed, and is not decoded: what comes within 100 ms makes it
\* Alt, and so does what comes at any time while it waits in the stash.
AfterEscape == Undecoded # <<>> /\ Last(Undecoded) = "esc"

\* What is typed while an entry runs belongs to the program that runs.
CanSend == ~closed /\ at \notin {"away", "gone"} /\ sent < MaxSent

Typed(bytes, meant) == /\ CanSend
                       /\ line' = line \o bytes
                       /\ expected' = expected \o Used(meant)
                       /\ sent' = sent + 1
                       /\ late' = (late \/ AfterEscape)
                       /\ UNCHANGED <<closed, asked, pending, stash, params, at, inPaste, probed,
                                      supported, decoded, dropped, speaks>>

Press == \E k \in Keys : Typed(Sent[k], <<Meant[k]>>)
Paste == \E p \in Pastes : Typed(PasteBytes(p), PasteMeant(p))

\* The terminal answers the probe: with the Kitty report or without it.  Right
\* behind an Escape the answer is taken for more of that key.
Answer == /\ asked /\ ~closed
          /\ late' = (late \/ AfterEscape)
          /\ \E kitty \in BOOLEAN :
                /\ line' = line \o (IF kitty THEN <<"esc", "[", "?", "u">> ELSE <<>>)
                                \o <<"esc", "[", "?", "c">>
                /\ speaks' = (kitty /\ ~probed)
          /\ asked' = FALSE
          /\ UNCHANGED <<closed, pending, stash, params, at, inPaste, probed, supported,
                         sent, expected, decoded, dropped>>

\* The connection loses the mark that ends a paste.
LosePasteEnd == /\ Len(line) >= 4 /\ IsSuffix(PasteClose, line)
                /\ line' = SubSeq(line, 1, Len(line) - 4)
                /\ late' = TRUE
                /\ UNCHANGED <<closed, asked, pending, stash, params, at, inPaste, probed,
                               supported, sent, expected, decoded, dropped, speaks>>

HangUp == /\ ~closed /\ closed' = TRUE
          /\ UNCHANGED <<line, asked, pending, stash, params, at, inPaste, probed, supported,
                         sent, expected, decoded, late, dropped, speaks>>

-----------------------------------------------------------------------------
(* Keys, and what readEntry does with those that concern the decoder. *)

Finals == {"x", "O", "A", "[", "u", "c", "~"}  \* bytes from 0x40 to 0x7E
Inks   == Finals \cup {"13;2", "200", "201", "2", "?"}

\* nextKey returns k: Enter submits the entry unless it is blank.
Returned(k) ==
    /\ decoded' = decoded \o Used(<<k>>)
    /\ inPaste' = CASE k = "PasteStart" -> TRUE
                    [] k \in {"PasteEnd", "Enter", "CtrlC"} -> FALSE
                    [] OTHER -> inPaste
    /\ at' \in CASE k = "Enter" -> {"key", "away"}
                 [] k = "CtrlC" -> {"away"}
                 [] OTHER       -> {"key"}
    /\ params' = ""
    /\ UNCHANGED <<stash, probed, supported, dropped>>

\* The call in progress asks for another byte, at w.
ReadOn(w) == /\ at' = w
             /\ UNCHANGED <<stash, params, inPaste, probed, supported, decoded, dropped>>

\* What readByte hands out: what was read ahead first.
Ready == pending \o line

Consumed      == pending' = IF pending = <<>> THEN <<>> ELSE Tail(pending)
PushedBack(b) == pending' = <<b>> \o IF pending = <<>> THEN <<>> ELSE Tail(pending)

\* nextKey.
KeyByte(b) ==
    /\ Consumed
    /\ CASE b = "esc"                 -> ReadOn("escape")
         [] b = "lead"                -> ReadOn("wide")
         [] b = "cr" /\ inPaste       -> ReadOn("pasteCR")
         [] b = "cr" /\ ~inPaste      -> Returned("Enter")
         [] b = "nl"                  -> Returned(IF inPaste THEN "ShiftEnter" ELSE "Enter")
         [] b = "etx"                 -> Returned("CtrlC")
         [] b \in Inks                -> Returned("Char")
         [] OTHER                     -> Returned("Unknown")

\* Mutant of PasteCRByte: the byte looked at is gone.
PasteCRByteLost(b) == Consumed /\ Returned("ShiftEnter")

\* The byte after a carriage return in a paste.
PasteCRByte(b) == /\ IF b = "nl" THEN Consumed ELSE PushedBack(b)
                  /\ Returned("ShiftEnter")

WideByte(b) == IF b = "more" THEN Consumed /\ Returned("Char") ELSE PushedBack(b) /\ Returned("Unknown")

EscapeByte(b) ==
    /\ Consumed
    /\ CASE b = "["  -> ReadOn("csi")
         [] b = "O"  -> ReadOn("ss3")
         [] b \in {"cr", "nl"} -> Returned("ShiftEnter")
         [] OTHER    -> Returned("Unknown")

Ss3Byte(b) == Consumed /\ Returned(IF b = "A" THEN "Up" ELSE "Unknown")

CsiKey(fin) == CASE fin = "A"                      -> "Up"
                 [] fin = "u" /\ params = "13;2"   -> "ShiftEnter"
                 [] fin = "~" /\ params = "200"    -> "PasteStart"
                 [] fin = "~" /\ params = "201"    -> "PasteEnd"
                 [] OTHER                          -> "Unknown"

\* A parameter is collected; a final byte ends the sequence.
Parameter(b) == /\ params' = b
                /\ UNCHANGED <<stash, at, inPaste, probed, supported, decoded, dropped>>

CsiByte(b) == Consumed /\ IF b \in Finals THEN Returned(CsiKey(b)) ELSE Parameter(b)

-----------------------------------------------------------------------------
(* probeKitty. *)

\* Mutant of Kept: the bytes of a key pressed meanwhile are kept without its
\* parameter.
KeptBare(fin) == stash \o <<"esc", "[", fin>>

Kept(fin) == stash \o <<"esc", "[">> \o (IF params = "" THEN <<>> ELSE <<params>>) \o <<fin>>

\* done(result), pending_ being what is left of it.
Probed(result, rest, saved) ==
    /\ supported' = result /\ probed' = TRUE
    /\ pending' = saved \o rest
    /\ stash' = <<>> /\ params' = "" /\ at' = "key"
    /\ UNCHANGED <<inPaste, decoded, dropped>>

ProbeOn(result, saved) ==
    /\ Consumed
    /\ supported' = result
    /\ stash' = saved /\ params' = "" /\ at' = "probe"
    /\ UNCHANGED <<inPaste, probed, decoded, dropped>>

ProbeByte(b) == IF b = "esc" THEN Consumed /\ ReadOn("probeEsc")
                             ELSE ProbeOn(supported, Append(stash, b))

ProbeEscByte(b) == IF b = "[" THEN Consumed /\ ReadOn("probeCsi")
                              ELSE ProbeOn(supported, stash \o <<"esc", b>>)

IsAnswer(b) == params = "?" /\ b \in {"u", "c"}

ProbeCsiByte(b) ==
    IF b \notin Finals     THEN Consumed /\ Parameter(b)
    ELSE IF ~IsAnswer(b)   THEN ProbeOn(supported, Kept(b))
    ELSE IF b = "u"        THEN ProbeOn(TRUE, stash)
                           ELSE Probed(supported, <<>>, stash)

-----------------------------------------------------------------------------
(* The editor's actions. *)

Reading == {"key", "pasteCR", "wide", "escape", "csi", "ss3", "probe", "probeEsc", "probeCsi"}

\* readByte returns a byte to the call that waits.
ReadByte ==
    /\ Ready # <<>>
    /\ line' = IF pending = <<>> THEN Tail(line) ELSE line
    /\ LET b == Head(Ready) IN
       \/ at = "key" /\ KeyByte(b)
       \/ at = "pasteCR" /\ PasteCRByte(b)
       \/ at = "wide" /\ WideByte(b)
       \/ at = "escape" /\ EscapeByte(b)
       \/ at = "csi" /\ CsiByte(b)
       \/ at = "ss3" /\ Ss3Byte(b)
       \/ at = "probe" /\ ProbeByte(b)
       \/ at = "probeEsc" /\ ProbeEscByte(b)
       \/ at = "probeCsi" /\ ProbeCsiByte(b)
    /\ UNCHANGED <<closed, asked, sent, expected, late, speaks>>

\* Mutant of Patience: a paste is waited for without a limit.
EndlessPatience == at # "key"

\* The calls of readByte with a timeout.
Patience == at # "key" \/ inPaste

\* Mutant of Hangup: the end of input is a key that is not used.
HangupUnknown == at' = "key"

\* Kind::Hangup.
Hangup == at' = "gone"

\* readByte returns without a byte: no more comes, or none in time.  It gives up
\* on bytes that are on their way once at most, a bound.
NoByte ==
    /\ at \in Reading /\ pending = <<>>
    /\ \/ line = <<>> /\ closed /\ UNCHANGED late
       \/ ~closed /\ Patience /\ (line # <<>> => ~late) /\ late' = (late \/ line # <<>>)
    /\ \/ at = "key" /\ closed /\ Hangup
          /\ UNCHANGED <<pending, stash, params, inPaste, probed, supported, decoded, dropped>>
       \/ at = "key" /\ ~closed /\ inPaste' = FALSE
          /\ UNCHANGED <<at, pending, stash, params, probed, supported, decoded, dropped>>
       \/ at = "pasteCR" /\ UNCHANGED pending /\ Returned("ShiftEnter")
       \/ at \in {"wide", "escape", "csi", "ss3"} /\ UNCHANGED pending /\ Returned("Unknown")
       \/ at \in {"probe", "probeCsi"} /\ Probed(supported, <<>>, stash)
       \/ at = "probeEsc" /\ ProbeOn(supported, Append(stash, "esc"))
    /\ UNCHANGED terminalVars

\* enableRawMode, at the start of readEntry; without a terminal the entry is
\* the end of input.
StartEntry ==
    /\ at = "away"
    /\ IF closed
       THEN at' = "gone" /\ UNCHANGED <<asked, pending, dropped>>
       ELSE /\ dropped' = (dropped \/ pending # <<>>)
            /\ pending' = <<>>
            /\ IF probed THEN at' = "key" /\ UNCHANGED asked
                         ELSE at' = "probe" /\ asked' = TRUE
    /\ inPaste' = FALSE
    /\ UNCHANGED <<line, closed, sent, expected, speaks, stash, params, probed, supported,
                   decoded, late>>

KeyInit ==
    /\ line = <<>> /\ closed = FALSE /\ asked = FALSE /\ sent = 0
    /\ pending = <<>> /\ stash = <<>> /\ params = "" /\ at = "away"
    /\ inPaste = FALSE /\ probed = FALSE /\ supported = FALSE
    /\ expected = <<>> /\ decoded = <<>> /\ late = FALSE /\ dropped = FALSE /\ speaks = FALSE

Decode == ReadByte \/ NoByte \/ StartEntry

KeyNext == Decode \/ Press \/ Paste \/ Answer \/ LosePasteEnd \/ HangUp

KeySpec == KeyInit /\ [][KeyNext]_keyVars

-----------------------------------------------------------------------------
\* Every key pressed reaches the editor, once and in order, whatever the probe
\* was waiting for when it came, unless the connection was slow or lossy or a
\* new entry discarded what had been read ahead.
KeysInOrder ==
    late \/ dropped \/ /\ IsPrefix(decoded, expected)
                       /\ at = "key" /\ Ready = <<>> => decoded = expected

\* A paste whose end was lost does not leave the editor taking every Enter for
\* a line end: it leaves paste mode (LineEditor.h:1181).
PasteModeEnds == inPaste ~> (~inPaste \/ at = "gone")

\* With its terminal gone, the editor ends.
EndsWithTerminal == closed ~> at = "gone"

=============================================================================
