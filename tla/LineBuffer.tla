----------------------------- MODULE LineBuffer -----------------------------
(***************************************************************************)
(* The text being edited at the prompt and its cursor (buffer_ and cursor_ *)
(* of cli/LineEditor.h): one action per key that changes them.  The text   *)
(* is bytes, of which only what the keys look at is told apart: the bytes  *)
(* of a character that takes several, spaces and line ends.                *)
(***************************************************************************)
EXTENDS Naturals, SequencesExt

CONSTANTS
    MaxBuffer, \* limits::kMaxSourceBytes
    MoreBytes, \* continuation bytes of a wide character (1 to 3 in UTF-8)
    TabWidth   \* spaces a Tab stands for

ASSUME BufferSizeAssumption == MaxBuffer \in Nat /\ MoreBytes \in Nat \ {0} /\ TabWidth \in Nat \ {0}

VARIABLES
    buffer, \* buffer_
    cursor  \* cursor_, counted from zero

bufferVars == <<buffer, cursor>>

\* A character is named by its first byte; a "lead" is two columns wide.
Characters == {"letter", " ", "nl", "lead"}
TextBytes  == Characters \cup {"more"}

\* appendUtf8.
Encoded(c) == <<c>> \o IF c = "lead" THEN [i \in 1..MoreBytes |-> "more"] ELSE <<>>

Spaces == [i \in 1..TabWidth |-> " "]

Size      == Len(buffer)
ByteAt(p) == buffer[p + 1]

-----------------------------------------------------------------------------
(* Positions. *)

\* The last position up to p that is 0 or satisfies P.
BackTo(p, P(_)) == CHOOSE q \in 0..p : /\ q = 0 \/ P(q)
                                       /\ \A r \in (q + 1)..p : ~P(r)

\* The first position from p on that is the end of the text or satisfies P.
OnTo(p, P(_)) == CHOOSE q \in p..Size : /\ q = Size \/ P(q)
                                        /\ \A r \in p..(q - 1) : ~P(r)

Starts(p)      == ByteAt(p) # "more"
SpaceAt(p)     == ByteAt(p) \in {" ", "nl"}
SpaceBefore(p) == SpaceAt(p - 1)
InkBefore(p)   == ~SpaceAt(p - 1)
InkAt(p)       == ~SpaceAt(p)

\* Mutant of PrevBoundary: one byte back.
PrevByte(p) == IF p = 0 THEN 0 ELSE p - 1

PrevBoundary(p) == IF p = 0 THEN 0 ELSE BackTo(p - 1, Starts)
NextBoundary(p) == IF p = Size THEN Size ELSE OnTo(p + 1, Starts)

LineStart(p) == BackTo(p, LAMBDA q : ByteAt(q - 1) = "nl")
LineEnd(p)   == OnTo(p, LAMBDA q : ByteAt(q) = "nl")
WordLeft(p)  == BackTo(BackTo(p, InkBefore), SpaceBefore)
WordRight(p) == OnTo(OnTo(p, InkAt), SpaceAt)

\* The screen columns of the text between two positions.
Columns(s, e) == Cardinality({p \in s..(e - 1) : Starts(p)})
                     + Cardinality({p \in s..(e - 1) : ByteAt(p) = "lead"})

-----------------------------------------------------------------------------
BufferInit == buffer = <<>> /\ cursor = 0

\* Mutant of Insert: the text goes to the end.
InsertAtEnd(s) == /\ Size + Len(s) <= MaxBuffer
                  /\ buffer' = buffer \o s
                  /\ cursor' = cursor + Len(s)

\* insertText.
Insert(s) == /\ Size + Len(s) <= MaxBuffer
             /\ buffer' = SubSeq(buffer, 1, cursor) \o s \o SubSeq(buffer, cursor + 1, Size)
             /\ cursor' = cursor + Len(s)

\* buffer_.erase, and where the cursor is left.
Erase(s, e, c) == /\ buffer' = SubSeq(buffer, 1, s) \o SubSeq(buffer, e + 1, Size)
                  /\ cursor' = c

MoveTo(p) == cursor' = p /\ UNCHANGED buffer

TypeCharacter == \E c \in Characters \ {"nl"} : Insert(Encoded(c))
Tab           == Insert(Spaces)
ShiftEnter    == Insert(Encoded("nl"))

Backspace     == cursor > 0 /\ Erase(PrevBoundary(cursor), cursor, PrevBoundary(cursor))
DeleteForward == cursor < Size /\ Erase(cursor, NextBoundary(cursor), cursor)

Left      == cursor > 0 /\ MoveTo(PrevBoundary(cursor))
Right     == cursor < Size /\ MoveTo(NextBoundary(cursor))
Home      == MoveTo(LineStart(cursor))
End       == MoveTo(LineEnd(cursor))
WordBack  == MoveTo(WordLeft(cursor))
WordOn    == MoveTo(WordRight(cursor))

\* On a line end, the line end itself goes.
KillToEnd == Erase(cursor,
                   IF cursor < Size /\ ByteAt(cursor) = "nl" THEN cursor + 1 ELSE LineEnd(cursor),
                   cursor)

KillToStart == Erase(LineStart(cursor), cursor, LineStart(cursor))

DeleteWordBack == Erase(WordLeft(cursor), cursor, WordLeft(cursor))

\* moveLine: the last position of the line from target to end that is not
\* right of the cursor's column.
SameColumn(target, end) ==
    CHOOSE p \in target..end :
        /\ p = Size \/ Starts(p)
        /\ Columns(target, p) <= Columns(LineStart(cursor), cursor)
        /\ \A q \in (p + 1)..end : q = Size \/ Starts(q)
               => Columns(target, q) > Columns(LineStart(cursor), cursor)

Up == LET end == LineStart(cursor) - 1
      IN  LineStart(cursor) > 0 /\ MoveTo(SameColumn(LineStart(end), end))

Down == LET target == LineEnd(cursor) + 1
        IN  LineEnd(cursor) < Size /\ MoveTo(SameColumn(target, LineEnd(target)))

BufferNext == \/ TypeCharacter \/ Tab \/ ShiftEnter
              \/ Backspace \/ DeleteForward \/ KillToEnd \/ KillToStart \/ DeleteWordBack
              \/ Left \/ Right \/ Home \/ End \/ WordBack \/ WordOn \/ Up \/ Down

BufferSpec == BufferInit /\ [][BufferNext]_bufferVars

-----------------------------------------------------------------------------
\* The cursor is on the first byte of a character or at the end (the comment at
\* LineEditor.h:427), and every character is whole: no key ever leaves part of
\* one behind to be submitted.
CursorOnBoundary ==
    /\ buffer \in Seq(TextBytes) /\ Size <= MaxBuffer
    /\ cursor \in 0..Size
    /\ cursor < Size => Starts(cursor)
    /\ \A p \in 0..(Size - 1) :
           ByteAt(p) = "lead" => /\ p + MoreBytes < Size
                                 /\ \A q \in (p + 1)..(p + MoreBytes) : ByteAt(q) = "more"
    /\ \A p \in 0..(Size - 1) :
           ByteAt(p) = "more" => \E q \in 0..(p - 1) : ByteAt(q) = "lead" /\ p - q <= MoreBytes

CharactersOf(s) == FoldLeft(LAMBDA cs, b : IF b = "more" THEN cs ELSE Append(cs, b), <<>>, s)

Text == INSTANCE TextCursor WITH before <- CharactersOf(SubSeq(buffer, 1, cursor)),
                                 after  <- CharactersOf(SubSeq(buffer, cursor + 1, Size))

\* Seen as characters, a key puts some in at the cursor, takes some away right
\* before or right behind it, or moves it; it never touches the rest.
IsTextCursor == Text!Spec
=============================================================================
