-------------------------- MODULE LineEditorProofs --------------------------
(***************************************************************************)
(* Proofs about the parts of the line editor that keep text: its history   *)
(* and the draft that waits at the end of it (LineHistory), and the text   *)
(* being edited (LineBuffer), as bytes and as the characters it shows      *)
(* (TextCursor).                                                           *)
(***************************************************************************)
EXTENDS LineBuffer, LineHistory, SequenceLemmas, FiniteSetTheorems

-----------------------------------------------------------------------------
(* The history. *)

Entries == Texts \cup {Blank}

\* The entries are entries, and while one is read its place is in the history.
HistoryTypes ==
    /\ entry \in Entries /\ draft \in Entries /\ typed \in Entries /\ submitted \in Entries
    /\ active \in BOOLEAN
    /\ historyPos \in Nat

HistoryInv == HistoryTypes /\ DraftKept /\ HistoryFaithful

\* What the history keeps: entries in the order of their submission, bounded,
\* none after an equal one.
Kept(h) == /\ h \in Seq(Texts)
           /\ Len(h) <= MaxHistory
           /\ \A i \in 1..(Len(h) - 1) : h[i] # h[i + 1]

LEMMA HistorySize == MaxHistory \in Nat /\ MaxHistory > 0 /\ Blank \notin Texts
  BY HistorySizeAssumption

\* Remembering an entry keeps that, and makes the entry the newest one.
LEMMA RememberedIsNewest ==
    ASSUME Kept(history), NEW e \in Texts
    PROVE  Kept(Remembered(e)) /\ Remembered(e) # <<>> /\ Last(Remembered(e)) = e
  <1>. DEFINE n == Len(history)
              h == IF history # <<>> /\ Last(history) = e THEN history ELSE Append(history, e)
              m == Len(h)
  <1>1. history \in Seq(Texts) /\ n \in Nat /\ n <= MaxHistory
    BY DEF Kept
  <1>2. \A i \in 1..(n - 1) : history[i] # history[i + 1]
    BY DEF Kept
  <1>3. /\ h \in Seq(Texts) /\ m \in Nat /\ m > 0 /\ m <= MaxHistory + 1
        /\ h[m] = e
        /\ \A i \in 1..(m - 1) : h[i] # h[i + 1]
    <2>1. CASE history # <<>> /\ Last(history) = e
      BY <1>1, <1>2, <2>1, HistorySize DEF Last
    <2>2. CASE ~(history # <<>> /\ Last(history) = e)
      <3>. DEFINE a == Append(history, e)
      <3>1. h = a
        BY <2>2
      <3>2. /\ a \in Seq(Texts) /\ Len(a) = n + 1
            /\ \A i \in 1..n : a[i] = history[i]
            /\ a[n + 1] = e
        BY <1>1, Push
      <3>3. n > 0 => history[n] # e
        BY <1>1, <2>2 DEF Last
      <3>4. \A i \in 1..n : a[i] # a[i + 1]
        <4>. TAKE i \in 1..n
        <4>1. CASE i = n
          BY <1>1, <3>2, <3>3, <4>1
        <4>2. CASE i # n
          <5>1. i \in 1..(n - 1) /\ i + 1 \in 1..n
            BY <1>1, <4>2
          <5>. HIDE DEF a
          <5> QED
            BY <1>2, <3>2, <5>1
        <4> QED
          BY <4>1, <4>2
      <3>. HIDE DEF a, h
      <3> QED
        BY <1>1, <3>1, <3>2, <3>4, HistorySize
    <2> QED
      BY <2>1, <2>2
  <1>4. Remembered(e) = IF m > MaxHistory THEN Tail(h) ELSE h
    BY DEF Remembered
  <1>. HIDE DEF h
  <1>5. CASE m > MaxHistory
    <2>. DEFINE t == Tail(h)
    <2>1. /\ t \in Seq(Texts) /\ Len(t) = m - 1 /\ m - 1 > 0
          /\ \A i \in 1..(m - 1) : t[i] = h[i + 1]
      BY <1>3, <1>5, HistorySize
    <2>. HIDE DEF t
    <2>2. \A i \in 1..(Len(t) - 1) : t[i] # t[i + 1]
      <3>. TAKE i \in 1..(Len(t) - 1)
      <3>1. i \in 1..(m - 1) /\ i + 1 \in 1..(m - 1)
        BY <1>3, <2>1
      <3> QED
        BY <1>3, <2>1, <3>1
    <2>3. t # <<>> /\ t[Len(t)] = e
      BY <1>3, <2>1
    <2>4. Kept(t) /\ t # <<>> /\ Last(t) = e
      BY <1>3, <1>5, <2>1, <2>2, <2>3, HistorySize DEF Kept, Last
    <2> QED
      BY <1>4, <1>5, <2>4 DEF t
  <1>6. CASE ~(m > MaxHistory)
    BY <1>3, <1>4, <1>6, HistorySize DEF Kept, Last
  <1> QED
    BY <1>5, <1>6

\* The draft's place and the recalled ones.
LEMMA Places ==
    ASSUME HistoryInv
    PROVE  /\ Kept(history) /\ Len(history) \in Nat /\ historyPos \in Nat
           /\ active => historyPos <= Len(history)
           /\ \A i \in 1..Len(history) : history[i] \in Entries
  BY DEF HistoryInv, HistoryTypes, HistoryFaithful, Kept, Entries

LEMMA HistoryStep == HistoryInv /\ [HistoryNext]_historyVars => HistoryInv'
  <1>. SUFFICES ASSUME HistoryInv, [HistoryNext]_historyVars
                PROVE  HistoryInv'
    OBVIOUS
  <1>1. /\ Kept(history) /\ Len(history) \in Nat /\ Len(history) <= MaxHistory
        /\ historyPos \in Nat /\ (active => historyPos <= Len(history))
        /\ \A i \in 1..Len(history) : history[i] \in Entries
    BY Places DEF Kept
  <1>2. ASSUME UNCHANGED <<history, submitted>>, historyPos' \in 0..MaxHistory,
               active' => historyPos' <= Len(history)
        PROVE  HistoryFaithful'
    BY <1>2 DEF HistoryInv, HistoryFaithful
  <1>3. ASSUME Restart
        PROVE  HistoryInv'
    <2>1. HistoryTypes' /\ DraftKept'
      BY <1>1, <1>3 DEF Restart, HistoryInv, HistoryTypes, DraftKept, AtDraft, Entries
    <2>2. HistoryFaithful'
      BY <1>1, <1>2, <1>3, HistorySize DEF Restart
    <2> QED
      BY <2>1, <2>2 DEF HistoryInv
  <1>4. CASE Edit
    <2>1. HistoryTypes' /\ DraftKept'
      BY <1>1, <1>4 DEF Edit, HistoryInv, HistoryTypes, DraftKept, AtDraft, Entries
    <2>2. HistoryFaithful'
      BY <1>1, <1>2, <1>4 DEF Edit, HistoryInv, HistoryFaithful
    <2> QED
      BY <2>1, <2>2 DEF HistoryInv
  <1>5. CASE Older
    <2>1. historyPos \in 1..Len(history) /\ historyPos' = historyPos - 1 /\ active'
      BY <1>1, <1>5 DEF Older
    <2>2. HistoryTypes' /\ DraftKept'
      BY <1>1, <1>5, <2>1 DEF Older, SaveDraft, HistoryInv, HistoryTypes, DraftKept, AtDraft
    <2>3. HistoryFaithful'
      BY <1>1, <1>2, <1>5, <2>1, HistorySize DEF Older
    <2> QED
      BY <2>2, <2>3 DEF HistoryInv
  <1>6. CASE Newer
    <2>1. historyPos' = historyPos + 1 /\ historyPos + 1 <= Len(history) /\ active' /\ active
      BY <1>1, <1>6 DEF Newer, AtDraft
    <2>2. historyPos + 1 # Len(history) => historyPos + 2 \in 1..Len(history)
      BY <1>1, <2>1
    <2>3. HistoryTypes' /\ DraftKept'
      BY <1>1, <1>6, <2>1, <2>2
      DEF Newer, HistoryInv, HistoryTypes, DraftKept, AtDraft
    <2>4. HistoryFaithful'
      BY <1>1, <1>2, <1>6, <2>1, HistorySize DEF Newer
    <2> QED
      BY <2>3, <2>4 DEF HistoryInv
  <1>7. CASE Submit
    <2>1. entry \in Texts
      BY <1>7 DEF Submit, HistoryInv, HistoryTypes, Entries
    <2>2. Kept(history') /\ history' # <<>> /\ Last(history') = entry
      BY <1>1, <1>7, <2>1, RememberedIsNewest DEF Submit
    <2>3. HistoryTypes' /\ DraftKept'
      BY <1>7 DEF Submit, HistoryInv, HistoryTypes, DraftKept
    <2>4. HistoryFaithful'
      BY <1>7, <2>2 DEF Submit, HistoryInv, HistoryFaithful, Kept
    <2> QED
      BY <2>3, <2>4 DEF HistoryInv
  <1>8. CASE Cancel
    <2>1. HistoryTypes' /\ DraftKept'
      BY <1>8 DEF Cancel, HistoryInv, HistoryTypes, DraftKept
    <2>2. HistoryFaithful'
      BY <1>8 DEF Cancel, HistoryInv, HistoryFaithful
    <2> QED
      BY <2>1, <2>2 DEF HistoryInv
  <1>9. CASE UNCHANGED historyVars
    BY <1>9 DEF historyVars, HistoryInv, HistoryTypes, DraftKept, HistoryFaithful, AtDraft
  <1> QED
    BY <1>3, <1>4, <1>5, <1>6, <1>7, <1>8, <1>9 DEF HistoryNext, BeginEntry, EnterBlank

LEMMA HistoryStart == HistoryInit => HistoryInv
  <1>. SUFFICES ASSUME HistoryInit
                PROVE  HistoryInv
    OBVIOUS
  <1>1. history = <<>> /\ history \in Seq(Texts) /\ Len(history) = 0
    BY DEF HistoryInit
  <1>2. HistoryTypes
    BY DEF HistoryInit, HistoryTypes, Entries
  <1>3. DraftKept
    BY DEF HistoryInit, DraftKept
  <1>4. HistoryFaithful
    BY <1>1, HistorySize DEF HistoryInit, HistoryFaithful
  <1> QED
    BY <1>2, <1>3, <1>4 DEF HistoryInv

\* However far readEntry is sent through the history, and whatever is changed of
\* the entries it passes, the draft is at its end as it was last typed.
THEOREM DraftCorrect == HistorySpec => []DraftKept
  <1>1. HistoryInv => DraftKept
    BY DEF HistoryInv
  <1> QED
    BY <1>1, HistoryStart, HistoryStep, PTL DEF HistorySpec

\* The history holds at most MaxHistory entries, none equal to the one before
\* it, and the newest of them is what the session was given last; recalling and
\* editing entries does not change it.
THEOREM HistoryCorrect == HistorySpec => []HistoryFaithful
  <1>1. HistoryInv => HistoryFaithful
    BY DEF HistoryInv
  <1> QED
    BY <1>1, HistoryStart, HistoryStep, PTL DEF HistorySpec

-----------------------------------------------------------------------------
(* The text: whole characters. *)

\* Every wide character of b has all its bytes, and every continuation byte
\* belongs to one.
Whole(b) ==
    /\ b \in Seq(TextBytes)
    /\ \A p \in 1..Len(b) : b[p] = "lead" => /\ p + MoreBytes <= Len(b)
                                             /\ \A q \in (p + 1)..(p + MoreBytes) : b[q] = "more"
    /\ \A p \in 1..Len(b) : b[p] = "more" => \E q \in 1..(p - 1) : b[q] = "lead" /\ p - q <= MoreBytes

\* A character starts behind the first k bytes of b, or b ends there.
Cut(b, k) == k \in 0..Len(b) /\ (k < Len(b) => b[k + 1] # "more")

LEMMA BufferSizes == MaxBuffer \in Nat /\ MoreBytes \in Nat /\ MoreBytes > 0
                     /\ TabWidth \in Nat /\ TabWidth > 0
  BY BufferSizeAssumption

\* The invariant, counted from one.
LEMMA SoundForm ==
    CursorOnBoundary <=> Whole(buffer) /\ Size <= MaxBuffer /\ Cut(buffer, cursor)
  <1>. DEFINE Leads == \A p \in 0..(Size - 1) :
                  ByteAt(p) = "lead" => /\ p + MoreBytes < Size
                                        /\ \A q \in (p + 1)..(p + MoreBytes) : ByteAt(q) = "more"
              Mores == \A p \in 0..(Size - 1) :
                  ByteAt(p) = "more" => \E q \in 0..(p - 1) : ByteAt(q) = "lead" /\ p - q <= MoreBytes
              Leads1 == \A p \in 1..Size :
                  buffer[p] = "lead" => /\ p + MoreBytes <= Size
                                        /\ \A q \in (p + 1)..(p + MoreBytes) : buffer[q] = "more"
              Mores1 == \A p \in 1..Size :
                  buffer[p] = "more" => \E q \in 1..(p - 1) : buffer[q] = "lead" /\ p - q <= MoreBytes
  <1>. SUFFICES ASSUME buffer \in Seq(TextBytes)
                PROVE  (Leads <=> Leads1) /\ (Mores <=> Mores1)
    BY DEF CursorOnBoundary, Whole, Cut, Starts, ByteAt, Size
  <1>1. Size \in Nat /\ MoreBytes \in Nat
    BY BufferSizes DEF Size
  <1>2. ASSUME Leads PROVE Leads1
    <2>. SUFFICES ASSUME NEW p \in 1..Size, buffer[p] = "lead"
                  PROVE  /\ p + MoreBytes <= Size
                         /\ \A q \in (p + 1)..(p + MoreBytes) : buffer[q] = "more"
      OBVIOUS
    <2>1. p - 1 \in 0..(Size - 1) /\ ByteAt(p - 1) = "lead"
      BY <1>1 DEF ByteAt
    <2>2. /\ (p - 1) + MoreBytes < Size
          /\ \A q \in ((p - 1) + 1)..((p - 1) + MoreBytes) : ByteAt(q) = "more"
      BY <1>2, <2>1
    <2>3. \A q \in (p + 1)..(p + MoreBytes) :
             q - 1 \in ((p - 1) + 1)..((p - 1) + MoreBytes) /\ (q - 1) + 1 = q
      BY <1>1
    <2> QED
      BY <1>1, <2>2, <2>3 DEF ByteAt
  <1>3. ASSUME Leads1 PROVE Leads
    <2>. SUFFICES ASSUME NEW p \in 0..(Size - 1), ByteAt(p) = "lead"
                  PROVE  /\ p + MoreBytes < Size
                         /\ \A q \in (p + 1)..(p + MoreBytes) : ByteAt(q) = "more"
      OBVIOUS
    <2>1. p + 1 \in 1..Size /\ buffer[p + 1] = "lead"
      BY <1>1 DEF ByteAt
    <2>2. /\ (p + 1) + MoreBytes <= Size
          /\ \A q \in ((p + 1) + 1)..((p + 1) + MoreBytes) : buffer[q] = "more"
      BY <1>3, <2>1
    <2>3. \A q \in (p + 1)..(p + MoreBytes) : q + 1 \in ((p + 1) + 1)..((p + 1) + MoreBytes)
      BY <1>1
    <2> QED
      BY <1>1, <2>2, <2>3 DEF ByteAt
  <1>4. ASSUME Mores PROVE Mores1
    <2>. SUFFICES ASSUME NEW p \in 1..Size, buffer[p] = "more"
                  PROVE  \E q \in 1..(p - 1) : buffer[q] = "lead" /\ p - q <= MoreBytes
      OBVIOUS
    <2>1. p - 1 \in 0..(Size - 1) /\ ByteAt(p - 1) = "more"
      BY <1>1 DEF ByteAt
    <2>2. PICK q \in 0..((p - 1) - 1) : ByteAt(q) = "lead" /\ (p - 1) - q <= MoreBytes
      BY <1>4, <2>1
    <2>3. q + 1 \in 1..(p - 1) /\ buffer[q + 1] = "lead" /\ p - (q + 1) <= MoreBytes
      BY <1>1, <2>2 DEF ByteAt
    <2> QED
      BY <2>3
  <1>5. ASSUME Mores1 PROVE Mores
    <2>. SUFFICES ASSUME NEW p \in 0..(Size - 1), ByteAt(p) = "more"
                  PROVE  \E q \in 0..(p - 1) : ByteAt(q) = "lead" /\ p - q <= MoreBytes
      OBVIOUS
    <2>1. p + 1 \in 1..Size /\ buffer[p + 1] = "more"
      BY <1>1 DEF ByteAt
    <2>2. PICK q \in 1..((p + 1) - 1) : buffer[q] = "lead" /\ (p + 1) - q <= MoreBytes
      BY <1>5, <2>1
    <2>3. q - 1 \in 0..(p - 1) /\ (q - 1) + 1 = q /\ p - (q - 1) <= MoreBytes
      BY <1>1, <2>2
    <2> QED
      BY <2>2, <2>3 DEF ByteAt
  <1> QED
    BY <1>2, <1>3, <1>4, <1>5

\* A whole text cut between characters has a whole beginning ...
LEMMA WholeBefore ==
    ASSUME NEW b, Whole(b), NEW k, Cut(b, k)
    PROVE  /\ Whole(SubSeq(b, 1, k))
           /\ Len(SubSeq(b, 1, k)) = k
  <1>. DEFINE a == SubSeq(b, 1, k)
  <1>1. b \in Seq(TextBytes) /\ Len(b) \in Nat /\ k \in 0..Len(b) /\ MoreBytes \in Nat
    BY BufferSizes DEF Whole, Cut
  <1>2. a \in Seq(TextBytes) /\ Len(a) = k /\ \A i \in 1..k : a[i] = b[i]
    BY <1>1
  <1>. HIDE DEF a
  <1>3. ASSUME NEW p \in 1..k, a[p] = "lead"
        PROVE  p + MoreBytes <= k /\ \A q \in (p + 1)..(p + MoreBytes) : a[q] = "more"
    <2>1. p \in 1..Len(b) /\ b[p] = "lead"
      BY <1>1, <1>2, <1>3
    <2>2. p + MoreBytes <= Len(b) /\ \A q \in (p + 1)..(p + MoreBytes) : b[q] = "more"
      BY <2>1 DEF Whole
    <2>3. p + MoreBytes <= k
      <3>. SUFFICES ASSUME p + MoreBytes > k PROVE FALSE
        BY <1>1
      <3>1. k + 1 \in (p + 1)..(p + MoreBytes) /\ k < Len(b)
        BY <1>1, <2>2
      <3> QED
        BY <2>2, <3>1 DEF Cut
    <2>4. \A q \in (p + 1)..(p + MoreBytes) : q \in 1..k
      BY <1>1, <2>3
    <2> QED
      BY <1>2, <2>2, <2>3, <2>4
  <1>4. ASSUME NEW p \in 1..k, a[p] = "more"
        PROVE  \E q \in 1..(p - 1) : a[q] = "lead" /\ p - q <= MoreBytes
    <2>1. p \in 1..Len(b) /\ b[p] = "more"
      BY <1>1, <1>2, <1>4
    <2>2. PICK q \in 1..(p - 1) : b[q] = "lead" /\ p - q <= MoreBytes
      BY <2>1 DEF Whole
    <2>3. q \in 1..k
      BY <1>1
    <2> QED
      BY <1>2, <2>2, <2>3
  <1>5. Whole(a)
    BY <1>2, <1>3, <1>4 DEF Whole
  <1> QED
    BY <1>2, <1>5 DEF a

\* ... and a whole end.
LEMMA WholeBehind ==
    ASSUME NEW b, Whole(b), NEW k, Cut(b, k)
    PROVE  /\ Whole(SubSeq(b, k + 1, Len(b)))
           /\ Len(SubSeq(b, k + 1, Len(b))) = Len(b) - k
           /\ \A i \in 1..(Len(b) - k) : SubSeq(b, k + 1, Len(b))[i] = b[k + i]
  <1>. DEFINE a == SubSeq(b, k + 1, Len(b))
              n == Len(b) - k
  <1>1. b \in Seq(TextBytes) /\ Len(b) \in Nat /\ k \in 0..Len(b) /\ MoreBytes \in Nat /\ n \in Nat
    BY BufferSizes DEF Whole, Cut
  <1>2. a \in Seq(TextBytes) /\ Len(a) = n /\ \A i \in 1..n : a[i] = b[k + i]
    BY <1>1
  <1>. HIDE DEF a
  <1>3. ASSUME NEW p \in 1..n, a[p] = "lead"
        PROVE  p + MoreBytes <= n /\ \A q \in (p + 1)..(p + MoreBytes) : a[q] = "more"
    <2>1. k + p \in 1..Len(b) /\ b[k + p] = "lead"
      BY <1>1, <1>2, <1>3
    <2>2. (k + p) + MoreBytes <= Len(b)
          /\ \A q \in ((k + p) + 1)..((k + p) + MoreBytes) : b[q] = "more"
      BY <2>1 DEF Whole
    <2>3. \A q \in (p + 1)..(p + MoreBytes) :
              q \in 1..n /\ k + q \in ((k + p) + 1)..((k + p) + MoreBytes)
      BY <1>1, <2>2
    <2> QED
      BY <1>1, <1>2, <2>2, <2>3
  <1>4. ASSUME NEW p \in 1..n, a[p] = "more"
        PROVE  \E q \in 1..(p - 1) : a[q] = "lead" /\ p - q <= MoreBytes
    <2>1. k + p \in 1..Len(b) /\ b[k + p] = "more"
      BY <1>1, <1>2, <1>4
    <2>2. PICK q \in 1..((k + p) - 1) : b[q] = "lead" /\ (k + p) - q <= MoreBytes
      BY <2>1 DEF Whole
    <2>3. q > k
      <3>. SUFFICES ASSUME q <= k PROVE FALSE
        BY <1>1
      <3>1. k + 1 \in (q + 1)..(q + MoreBytes) /\ k < Len(b) /\ q \in 1..Len(b)
        BY <1>1, <2>2
      <3>2. b[k + 1] = "more"
        BY <2>2, <3>1 DEF Whole
      <3> QED
        BY <3>1, <3>2 DEF Cut
    <2>4. q - k \in 1..(p - 1) /\ q - k \in 1..n /\ k + (q - k) = q /\ p - (q - k) <= MoreBytes
      BY <1>1, <2>2, <2>3
    <2>5. a[q - k] = "lead"
      BY <1>2, <2>2, <2>4
    <2> QED
      BY <2>4, <2>5
  <1>5. Whole(a)
    BY <1>2, <1>3, <1>4 DEF Whole
  <1> QED
    BY <1>2, <1>5 DEF a

\* Two whole texts put together are one.
LEMMA WholeTogether ==
    ASSUME NEW a, Whole(a), NEW b, Whole(b)
    PROVE  /\ Whole(a \o b)
           /\ Len(a \o b) = Len(a) + Len(b)
           /\ \A i \in 1..Len(b) : (a \o b)[Len(a) + i] = b[i]
  <1>. DEFINE c == a \o b
              m == Len(a)
              n == Len(b)
  <1>1. /\ a \in Seq(TextBytes) /\ b \in Seq(TextBytes) /\ m \in Nat /\ n \in Nat
        /\ MoreBytes \in Nat
    BY BufferSizes DEF Whole
  <1>2. /\ c \in Seq(TextBytes) /\ Len(c) = m + n
        /\ \A i \in 1..m : c[i] = a[i]
        /\ \A i \in 1..n : c[m + i] = b[i]
    BY <1>1, Concat
  <1>3. \A p \in 1..(m + n) : p \in 1..m \/ (p - m \in 1..n /\ m + (p - m) = p)
    BY <1>1
  <1>. HIDE DEF c, m, n
  <1>4. ASSUME NEW p \in 1..(m + n), c[p] = "lead"
        PROVE  p + MoreBytes <= m + n /\ \A q \in (p + 1)..(p + MoreBytes) : c[q] = "more"
    <2>1. CASE p \in 1..m
      <3>1. p + MoreBytes <= m /\ \A q \in (p + 1)..(p + MoreBytes) : a[q] = "more"
        BY <1>2, <1>4, <2>1 DEF Whole, m
      <3>2. \A q \in (p + 1)..(p + MoreBytes) : q \in 1..m
        BY <1>1, <3>1
      <3> QED
        BY <1>1, <1>2, <3>1, <3>2
    <2>2. CASE p - m \in 1..n /\ m + (p - m) = p
      <3>. DEFINE r == p - m
      <3>1. r \in 1..n /\ b[r] = "lead" /\ p = m + r
        BY <1>2, <1>4, <2>2
      <3>. HIDE DEF r
      <3>2. r + MoreBytes <= n /\ \A q \in (r + 1)..(r + MoreBytes) : b[q] = "more"
        BY <3>1 DEF Whole, n
      <3>3. \A q \in (p + 1)..(p + MoreBytes) :
               q - m \in (r + 1)..(r + MoreBytes) /\ q - m \in 1..n /\ m + (q - m) = q
        BY <1>1, <3>1, <3>2
      <3>4. \A q \in (p + 1)..(p + MoreBytes) : c[q] = "more"
        BY <1>2, <3>2, <3>3
      <3> QED
        BY <1>1, <3>1, <3>2, <3>4
    <2> QED
      BY <1>3, <2>1, <2>2
  <1>5. ASSUME NEW p \in 1..(m + n), c[p] = "more"
        PROVE  \E q \in 1..(p - 1) : c[q] = "lead" /\ p - q <= MoreBytes
    <2>1. CASE p \in 1..m
      <3>1. PICK q \in 1..(p - 1) : a[q] = "lead" /\ p - q <= MoreBytes
        BY <1>2, <1>5, <2>1 DEF Whole, m
      <3>2. q \in 1..m
        BY <1>1, <2>1
      <3> QED
        BY <1>2, <3>1, <3>2
    <2>2. CASE p - m \in 1..n /\ m + (p - m) = p
      <3>1. b[p - m] = "more"
        BY <1>2, <1>5, <2>2
      <3>2. PICK q \in 1..((p - m) - 1) : b[q] = "lead" /\ (p - m) - q <= MoreBytes
        BY <2>2, <3>1 DEF Whole, n
      <3>3. q \in 1..n /\ m + q \in 1..(p - 1) /\ p - (m + q) <= MoreBytes
        BY <1>1, <2>2, <3>2
      <3>4. c[m + q] = "lead"
        BY <1>2, <3>2, <3>3
      <3> QED
        BY <3>3, <3>4
    <2> QED
      BY <1>3, <2>1, <2>2
  <1> QED
    BY <1>2, <1>4, <1>5 DEF Whole, c, m, n

-----------------------------------------------------------------------------
(* Positions: each search finds a place where the text can be cut. *)

\* What BackTo and OnTo look for is there.
LEMMA LastUpTo ==
    ASSUME NEW p \in Nat, NEW T
    PROVE  \E q \in 0..p : (q = 0 \/ q \in T) /\ \A r \in (q + 1)..p : ~(r \in T)
  <1>. DEFINE U == {q \in 0..p : q = 0 \/ q \in T}
  <1>1. U \subseteq Nat /\ U # {} /\ \A q \in U : q <= p
    <2>1. 0 \in U
      OBVIOUS
    <2> QED
      BY <2>1
  <1>2. PICK q \in U : \A r \in U : r <= q
    BY <1>1, Greatest
  <1>3. \A r \in (q + 1)..p : r \in 0..p /\ ~(r <= q)
    BY <1>2
  <1> QED
    BY <1>2, <1>3

LEMMA FirstFrom ==
    ASSUME NEW p \in Nat, NEW n \in Nat, p <= n, NEW T
    PROVE  \E q \in p..n : (q = n \/ q \in T) /\ \A r \in p..(q - 1) : ~(r \in T)
  <1>. DEFINE U == {q \in p..n : q = n \/ q \in T}
  <1>1. U \subseteq Nat /\ U # {}
    <2>1. n \in U
      OBVIOUS
    <2> QED
      BY <2>1
  <1>2. PICK q \in U : \A r \in U : q <= r
    BY <1>1, Least
  <1>3. \A r \in p..(q - 1) : r \in p..n /\ ~(q <= r)
    BY <1>2
  <1> QED
    BY <1>2, <1>3

\* No text begins inside a character; none is cut by its end.
LEMMA Ends ==
    ASSUME Whole(buffer)
    PROVE  Size \in Nat /\ Cut(buffer, 0) /\ Cut(buffer, Size)
  <1>1. Size \in Nat
    BY DEF Whole, Size
  <1>2. ASSUME 0 < Size PROVE buffer[1] # "more"
    <2>. SUFFICES ASSUME buffer[1] = "more" PROVE FALSE
      OBVIOUS
    <2>1. \E q \in 1..(1 - 1) : buffer[q] = "lead"
      BY <1>1, <1>2 DEF Whole, Size
    <2> QED
      BY <2>1
  <1> QED
    BY <1>1, <1>2 DEF Cut, Size

\* A character starts where a byte is not a continuation, and behind a space or
\* a line end.
LEMMA StartsAreCuts ==
    ASSUME Whole(buffer), NEW p \in 0..Size, p = Size \/ Starts(p)
    PROVE  Cut(buffer, p)
  BY Ends DEF Cut, Starts, ByteAt, Size

LEMMA BehindSpaces ==
    ASSUME Whole(buffer), NEW p \in 1..Size, SpaceBefore(p)
    PROVE  Cut(buffer, p)
  <1>1. Size \in Nat /\ MoreBytes \in Nat /\ (p - 1) + 1 = p
    BY BufferSizes, Ends
  <1>2. buffer[p] = " " \/ buffer[p] = "nl"
    BY <1>1 DEF SpaceBefore, SpaceAt, ByteAt
  <1>. SUFFICES ASSUME p < Size, buffer[p + 1] = "more" PROVE FALSE
    BY <1>1 DEF Cut, Size
  <1>3. p + 1 \in 1..Size
    BY <1>1
  <1>4. PICK q \in 1..((p + 1) - 1) : buffer[q] = "lead" /\ (p + 1) - q <= MoreBytes
    BY <1>3 DEF Whole, Size
  <1>5. q # p
    BY <1>2, <1>4
  <1>6. p \in (q + 1)..(q + MoreBytes)
    BY <1>1, <1>4, <1>5
  <1>7. q \in 1..Size
    BY <1>1, <1>4
  <1>8. buffer[p] = "more"
    BY <1>4, <1>6, <1>7 DEF Whole, Size
  <1> QED
    BY <1>2, <1>8

LEMMA OnSpaces ==
    ASSUME Whole(buffer), NEW p \in 0..Size, p = Size \/ SpaceAt(p)
    PROVE  Cut(buffer, p)
  BY StartsAreCuts DEF SpaceAt, Starts

LEMMA PrevPlace ==
    ASSUME Whole(buffer), NEW p \in 1..Size
    PROVE  PrevBoundary(p) \in 0..(p - 1) /\ Cut(buffer, PrevBoundary(p))
  <1>1. Size \in Nat /\ p - 1 \in Nat /\ p # 0
    BY Ends
  <1>. DEFINE Found(q) == /\ q = 0 \/ Starts(q)
                          /\ \A r \in (q + 1)..(p - 1) : ~Starts(r)
  <1>2. \E q \in 0..(p - 1) : Found(q)
    <2>1. PICK q \in 0..(p - 1) :
             /\ q = 0 \/ q \in {r \in 0..(p - 1) : Starts(r)}
             /\ \A r \in (q + 1)..(p - 1) : ~(r \in {i \in 0..(p - 1) : Starts(i)})
      BY <1>1, LastUpTo
    <2>2. \A r \in (q + 1)..(p - 1) : r \in 0..(p - 1)
      BY <1>1
    <2> QED
      BY <2>1, <2>2
  <1>3. PrevBoundary(p) = CHOOSE q \in 0..(p - 1) : Found(q)
    BY <1>1 DEF PrevBoundary, BackTo
  <1>4. PrevBoundary(p) \in 0..(p - 1) /\ (PrevBoundary(p) = 0 \/ Starts(PrevBoundary(p)))
    BY <1>2, <1>3
  <1>5. PrevBoundary(p) \in 0..Size
    BY <1>1, <1>4
  <1> QED
    BY <1>4, <1>5, Ends, StartsAreCuts

LEMMA NextPlace ==
    ASSUME Whole(buffer), NEW p \in 0..Size, p < Size
    PROVE  NextBoundary(p) \in (p + 1)..Size /\ Cut(buffer, NextBoundary(p))
  <1>1. Size \in Nat /\ p + 1 \in Nat /\ p + 1 <= Size /\ p # Size
    BY Ends
  <1>. DEFINE Found(q) == /\ q = Size \/ Starts(q)
                          /\ \A r \in (p + 1)..(q - 1) : ~Starts(r)
  <1>2. \E q \in (p + 1)..Size : Found(q)
    <2>1. PICK q \in (p + 1)..Size :
             /\ q = Size \/ q \in {r \in 0..Size : Starts(r)}
             /\ \A r \in (p + 1)..(q - 1) : ~(r \in {i \in 0..Size : Starts(i)})
      BY <1>1, FirstFrom
    <2>2. \A r \in (p + 1)..(q - 1) : r \in 0..Size
      BY <1>1
    <2> QED
      BY <2>1, <2>2
  <1>3. NextBoundary(p) = CHOOSE q \in (p + 1)..Size : Found(q)
    BY <1>1 DEF NextBoundary, OnTo
  <1>4. NextBoundary(p) \in (p + 1)..Size /\ (NextBoundary(p) = Size \/ Starts(NextBoundary(p)))
    BY <1>2, <1>3
  <1>5. NextBoundary(p) \in 0..Size
    BY <1>1, <1>4
  <1> QED
    BY <1>4, <1>5, StartsAreCuts

LEMMA LineStartPlace ==
    ASSUME Whole(buffer), NEW p \in 0..Size
    PROVE  LineStart(p) \in 0..p /\ Cut(buffer, LineStart(p))
  <1>1. Size \in Nat /\ p \in Nat
    BY Ends
  <1>. DEFINE Found(q) == /\ q = 0 \/ ByteAt(q - 1) = "nl"
                          /\ \A r \in (q + 1)..p : ~(ByteAt(r - 1) = "nl")
  <1>2. \E q \in 0..p : Found(q)
    <2>1. PICK q \in 0..p :
             /\ q = 0 \/ q \in {r \in 0..p : ByteAt(r - 1) = "nl"}
             /\ \A r \in (q + 1)..p : ~(r \in {i \in 0..p : ByteAt(i - 1) = "nl"})
      BY <1>1, LastUpTo
    <2>2. \A r \in (q + 1)..p : r \in 0..p
      BY <1>1
    <2> QED
      BY <2>1, <2>2
  <1>3. LineStart(p) = CHOOSE q \in 0..p : Found(q)
    BY DEF LineStart, BackTo
  <1>4. LineStart(p) \in 0..p /\ (LineStart(p) = 0 \/ ByteAt(LineStart(p) - 1) = "nl")
    BY <1>2, <1>3
  <1>5. ByteAt(LineStart(p) - 1) = "nl" => SpaceBefore(LineStart(p))
    BY DEF SpaceBefore, SpaceAt
  <1>6. LineStart(p) = 0 \/ LineStart(p) \in 1..Size
    BY <1>1, <1>4
  <1> QED
    BY <1>4, <1>5, <1>6, Ends, BehindSpaces

LEMMA LineEndPlace ==
    ASSUME Whole(buffer), NEW p \in 0..Size
    PROVE  /\ LineEnd(p) \in p..Size /\ Cut(buffer, LineEnd(p))
           /\ LineEnd(p) = Size \/ ByteAt(LineEnd(p)) = "nl"
  <1>1. Size \in Nat /\ p \in Nat /\ p <= Size
    BY Ends
  <1>. DEFINE Found(q) == /\ q = Size \/ ByteAt(q) = "nl"
                          /\ \A r \in p..(q - 1) : ~(ByteAt(r) = "nl")
  <1>2. \E q \in p..Size : Found(q)
    <2>1. PICK q \in p..Size :
             /\ q = Size \/ q \in {r \in 0..Size : ByteAt(r) = "nl"}
             /\ \A r \in p..(q - 1) : ~(r \in {i \in 0..Size : ByteAt(i) = "nl"})
      BY <1>1, FirstFrom
    <2>2. \A r \in p..(q - 1) : r \in 0..Size
      BY <1>1
    <2> QED
      BY <2>1, <2>2
  <1>3. LineEnd(p) = CHOOSE q \in p..Size : Found(q)
    BY DEF LineEnd, OnTo
  <1>4. LineEnd(p) \in p..Size /\ (LineEnd(p) = Size \/ ByteAt(LineEnd(p)) = "nl")
    BY <1>2, <1>3
  <1>5. ByteAt(LineEnd(p)) = "nl" => SpaceAt(LineEnd(p))
    BY DEF SpaceAt
  <1>6. LineEnd(p) \in 0..Size
    BY <1>1, <1>4
  <1> QED
    BY <1>4, <1>5, <1>6, OnSpaces

LEMMA WordLeftPlace ==
    ASSUME Whole(buffer), NEW p \in 0..Size
    PROVE  WordLeft(p) \in 0..p /\ Cut(buffer, WordLeft(p))
  <1>1. Size \in Nat /\ p \in Nat
    BY Ends
  <1>. DEFINE Ink(q)   == /\ q = 0 \/ InkBefore(q)
                          /\ \A r \in (q + 1)..p : ~InkBefore(r)
              m        == CHOOSE q \in 0..p : Ink(q)
              Found(q) == /\ q = 0 \/ SpaceBefore(q)
                          /\ \A r \in (q + 1)..m : ~SpaceBefore(r)
  <1>2. m \in 0..p
    <2>1. PICK q \in 0..p :
             /\ q = 0 \/ q \in {r \in 0..p : InkBefore(r)}
             /\ \A r \in (q + 1)..p : ~(r \in {i \in 0..p : InkBefore(i)})
      BY <1>1, LastUpTo
    <2>2. \A r \in (q + 1)..p : r \in 0..p
      BY <1>1
    <2>3. \E i \in 0..p : Ink(i)
      BY <2>1, <2>2
    <2> QED
      BY <2>3
  <1>3. WordLeft(p) = CHOOSE q \in 0..m : Found(q)
    BY DEF WordLeft, BackTo
  <1>. HIDE DEF m
  <1>4. m \in Nat
    BY <1>1, <1>2
  <1>5. \E q \in 0..m : Found(q)
    <2>1. PICK q \in 0..m :
             /\ q = 0 \/ q \in {r \in 0..m : SpaceBefore(r)}
             /\ \A r \in (q + 1)..m : ~(r \in {i \in 0..m : SpaceBefore(i)})
      BY <1>4, LastUpTo
    <2>2. \A r \in (q + 1)..m : r \in 0..m
      BY <1>4
    <2> QED
      BY <2>1, <2>2
  <1>6. WordLeft(p) \in 0..m /\ (WordLeft(p) = 0 \/ SpaceBefore(WordLeft(p)))
    BY <1>3, <1>5
  <1>7. WordLeft(p) \in 0..p /\ (WordLeft(p) = 0 \/ WordLeft(p) \in 1..Size)
    BY <1>1, <1>2, <1>6
  <1> QED
    BY <1>6, <1>7, Ends, BehindSpaces

LEMMA WordRightPlace ==
    ASSUME Whole(buffer), NEW p \in 0..Size
    PROVE  WordRight(p) \in 0..Size /\ Cut(buffer, WordRight(p))
  <1>1. Size \in Nat /\ p \in Nat /\ p <= Size
    BY Ends
  <1>. DEFINE Ink(q)   == /\ q = Size \/ InkAt(q)
                          /\ \A r \in p..(q - 1) : ~InkAt(r)
              m        == CHOOSE q \in p..Size : Ink(q)
              Found(q) == /\ q = Size \/ SpaceAt(q)
                          /\ \A r \in m..(q - 1) : ~SpaceAt(r)
  <1>2. m \in p..Size
    <2>1. PICK q \in p..Size :
             /\ q = Size \/ q \in {r \in 0..Size : InkAt(r)}
             /\ \A r \in p..(q - 1) : ~(r \in {i \in 0..Size : InkAt(i)})
      BY <1>1, FirstFrom
    <2>2. \A r \in p..(q - 1) : r \in 0..Size
      BY <1>1
    <2>3. \E i \in p..Size : Ink(i)
      BY <2>1, <2>2
    <2> QED
      BY <2>3
  <1>3. WordRight(p) = CHOOSE q \in m..Size : Found(q)
    BY DEF WordRight, OnTo
  <1>. HIDE DEF m
  <1>4. m \in Nat /\ m <= Size
    BY <1>1, <1>2
  <1>5. \E q \in m..Size : Found(q)
    <2>1. PICK q \in m..Size :
             /\ q = Size \/ q \in {r \in 0..Size : SpaceAt(r)}
             /\ \A r \in m..(q - 1) : ~(r \in {i \in 0..Size : SpaceAt(i)})
      BY <1>1, <1>4, FirstFrom
    <2>2. \A r \in m..(q - 1) : r \in 0..Size
      BY <1>1, <1>4
    <2> QED
      BY <2>1, <2>2
  <1>6. WordRight(p) \in m..Size /\ (WordRight(p) = Size \/ SpaceAt(WordRight(p)))
    BY <1>3, <1>5
  <1>7. WordRight(p) \in 0..Size
    BY <1>1, <1>4, <1>6
  <1> QED
    BY <1>6, <1>7, OnSpaces

-----------------------------------------------------------------------------
(* The keys. *)

Sound == Whole(buffer) /\ Size <= MaxBuffer /\ Cut(buffer, cursor)

LEMMA EncodedIsWhole ==
    ASSUME NEW c \in Characters
    PROVE  Whole(Encoded(c))
  <1>. MoreBytes \in Nat /\ MoreBytes > 0
    BY BufferSizes
  <1>1. CASE c = "lead"
    <2>. DEFINE m == [i \in 1..MoreBytes |-> "more"]
                s == <<c>> \o m
    <2>1. m \in Seq(TextBytes) /\ Len(m) = MoreBytes /\ \A i \in 1..MoreBytes : m[i] = "more"
      BY DEF TextBytes
    <2>2. <<c>> \in Seq(TextBytes) /\ Len(<<c>>) = 1 /\ <<c>>[1] = "lead"
      BY <1>1 DEF TextBytes, Characters
    <2>. HIDE DEF m
    <2>3. /\ s \in Seq(TextBytes) /\ Len(s) = 1 + MoreBytes /\ s[1] = "lead"
          /\ \A i \in 1..MoreBytes : s[1 + i] = "more"
      BY <2>1, <2>2, Concat
    <2>. HIDE DEF s
    <2>4. \A p \in 2..(1 + MoreBytes) : s[p] = "more"
      <3>1. \A p \in 2..(1 + MoreBytes) : p - 1 \in 1..MoreBytes /\ 1 + (p - 1) = p
        OBVIOUS
      <3> QED
        BY <2>3, <3>1
    <2>5. ASSUME NEW p \in 1..Len(s), s[p] = "lead"
          PROVE  p + MoreBytes <= Len(s) /\ \A q \in (p + 1)..(p + MoreBytes) : s[q] = "more"
      <3>1. p = 1
        BY <2>3, <2>4, <2>5
      <3> QED
        BY <2>3, <2>4, <3>1
    <2>6. ASSUME NEW p \in 1..Len(s), s[p] = "more"
          PROVE  \E q \in 1..(p - 1) : s[q] = "lead" /\ p - q <= MoreBytes
      <3>1. p # 1
        BY <2>3, <2>6
      <3>2. 1 \in 1..(p - 1) /\ p - 1 <= MoreBytes
        BY <2>3, <3>1
      <3> QED
        BY <2>3, <3>2
    <2>7. Whole(s)
      BY <2>3, <2>5, <2>6 DEF Whole
    <2> QED
      BY <1>1, <2>7 DEF Encoded, s, m
  <1>2. CASE c # "lead"
    <2>1. Encoded(c) = <<c>>
      BY <1>2 DEF Encoded
    <2>2. <<c>> \in Seq(TextBytes) /\ Len(<<c>>) = 1 /\ <<c>>[1] = c
      BY DEF TextBytes
    <2>3. c # "more"
      BY DEF Characters
    <2> QED
      BY <1>2, <2>1, <2>2, <2>3 DEF Whole
  <1> QED
    BY <1>1, <1>2

LEMMA SpacesAreWhole == Whole(Spaces)
  <1>1. TabWidth \in Nat
    BY BufferSizes
  <1>2. Spaces \in Seq(TextBytes) /\ Len(Spaces) = TabWidth /\ \A i \in 1..TabWidth : Spaces[i] = " "
    BY <1>1 DEF Spaces, TextBytes, Characters
  <1> QED
    BY <1>2 DEF Whole

LEMMA InsertKeeps ==
    ASSUME Sound, NEW s, Whole(s), Insert(s)
    PROVE  Sound'
  <1>. DEFINE a == SubSeq(buffer, 1, cursor)
              z == SubSeq(buffer, cursor + 1, Size)
              n == Len(s)
  <1>1. /\ Whole(a) /\ Len(a) = cursor /\ Whole(z) /\ Len(z) = Size - cursor
        /\ \A i \in 1..(Size - cursor) : z[i] = buffer[cursor + i]
    BY WholeBefore, WholeBehind DEF Sound, Size
  <1>2. cursor \in 0..Size /\ Size \in Nat /\ n \in Nat
    BY Ends DEF Sound, Cut, Whole, Size
  <1>3. buffer' = (a \o s) \o z /\ Size + n <= MaxBuffer /\ cursor' = cursor + n
    BY DEF Insert
  <1>. HIDE DEF a, z, n
  <1>4. Whole(a \o s) /\ Len(a \o s) = cursor + n
    BY <1>1, WholeTogether DEF n
  <1>5. PICK as : as = a \o s /\ Whole(as) /\ Len(as) = cursor + n
    BY <1>4
  <1>6. /\ Whole(as \o z) /\ Len(as \o z) = (cursor + n) + (Size - cursor)
        /\ \A i \in 1..(Size - cursor) : (as \o z)[(cursor + n) + i] = z[i]
    <2>1. Whole(as \o z)
      BY <1>1, <1>5, WholeTogether
    <2>2. Len(as \o z) = Len(as) + Len(z)
      BY <1>1, <1>5, WholeTogether
    <2>3. ASSUME NEW i \in 1..Len(z) PROVE (as \o z)[Len(as) + i] = z[i]
      <3>1. Whole(as) /\ Whole(z)
        BY <1>1, <1>5
      <3> QED
        BY <3>1, WholeTogether
    <2> QED
      BY <1>1, <1>5, <2>1, <2>2, <2>3
  <1>7. Whole(buffer') /\ Size' = Size + n
    BY <1>2, <1>3, <1>5, <1>6 DEF Size
  <1>8. ASSUME cursor' < Size' PROVE buffer'[cursor' + 1] # "more"
    <2>1. 1 \in 1..(Size - cursor) /\ cursor < Size
      BY <1>2, <1>3, <1>7, <1>8
    <2>2. buffer'[(cursor + n) + 1] = z[1] /\ z[1] = buffer[cursor + 1]
      BY <1>1, <1>3, <1>5, <1>6, <2>1
    <2> QED
      BY <1>3, <2>1, <2>2 DEF Sound, Cut, Size
  <1>9. cursor' \in 0..Size'
    BY <1>2, <1>3, <1>7
  <1> QED
    BY <1>3, <1>7, <1>8, <1>9 DEF Sound, Cut, Size

LEMMA EraseKeeps ==
    ASSUME Sound, NEW s, NEW e, Cut(buffer, s), Cut(buffer, e), s <= e, Erase(s, e, s)
    PROVE  Sound'
  <1>. DEFINE a == SubSeq(buffer, 1, s)
              z == SubSeq(buffer, e + 1, Size)
  <1>1. /\ Whole(a) /\ Len(a) = s /\ Whole(z) /\ Len(z) = Size - e
        /\ \A i \in 1..(Size - e) : z[i] = buffer[e + i]
    BY WholeBefore, WholeBehind DEF Sound, Size
  <1>2. s \in 0..Size /\ e \in 0..Size /\ Size \in Nat
    BY Ends DEF Sound, Cut, Size
  <1>3. buffer' = a \o z /\ cursor' = s
    BY DEF Erase
  <1>. HIDE DEF a, z
  <1>4. /\ Whole(a \o z) /\ Len(a \o z) = s + (Size - e)
        /\ \A i \in 1..(Size - e) : (a \o z)[s + i] = z[i]
    <2>1. Whole(a \o z)
      BY <1>1, WholeTogether
    <2>2. Len(a \o z) = Len(a) + Len(z)
      BY <1>1, WholeTogether
    <2>3. ASSUME NEW i \in 1..Len(z) PROVE (a \o z)[Len(a) + i] = z[i]
      BY <1>1, WholeTogether
    <2> QED
      BY <1>1, <2>1, <2>2, <2>3
  <1>5. Whole(buffer') /\ Size' = s + (Size - e)
    BY <1>3, <1>4 DEF Size
  <1>6. MaxBuffer \in Nat
    BY BufferSizes
  <1>7. Size' <= MaxBuffer
    BY <1>2, <1>5, <1>6 DEF Sound
  <1>8. ASSUME s < Size' PROVE buffer'[s + 1] # "more"
    <2>1. 1 \in 1..(Size - e) /\ e < Size
      BY <1>2, <1>5, <1>8
    <2>2. buffer'[s + 1] = z[1] /\ z[1] = buffer[e + 1]
      BY <1>1, <1>3, <1>4, <2>1
    <2> QED
      BY <2>1, <2>2 DEF Cut, Size
  <1>9. s \in 0..Size'
    BY <1>2, <1>5
  <1> QED
    BY <1>3, <1>5, <1>7, <1>8, <1>9 DEF Sound, Cut, Size

LEMMA MoveKeeps ==
    ASSUME Sound, NEW p, Cut(buffer, p), MoveTo(p)
    PROVE  Sound'
  BY DEF Sound, MoveTo, Size

\* moveLine finds a place: the start of the line it goes to, if nothing better.
LEMMA ColumnPlace ==
    ASSUME Sound, NEW t \in 0..Size, NEW e \in t..Size, t = Size \/ Starts(t)
    PROVE  Cut(buffer, SameColumn(t, e))
  <1>. DEFINE limit   == Columns(LineStart(cursor), cursor)
              fits    == {p \in t..e : (p = Size \/ Starts(p)) /\ Columns(t, p) <= limit}
              Final(p) == /\ p = Size \/ Starts(p)
                          /\ Columns(t, p) <= limit
                          /\ \A q \in (p + 1)..e : q = Size \/ Starts(q) => Columns(t, q) > limit
  <1>1. Size \in Nat /\ t \in Nat /\ e \in Nat /\ t <= e /\ cursor \in 0..Size
    BY Ends DEF Sound, Cut, Size
  <1>2. LineStart(cursor) \in Nat
    BY <1>1, LineStartPlace DEF Sound
  <1>3. \A i \in Nat : \A j \in Nat : Columns(i, j) \in Nat
    <2>. TAKE i \in Nat, j \in Nat
    <2>. DEFINE span == i..(j - 1)
    <2>1. IsFiniteSet(span)
      BY FS_Interval
    <2>. HIDE DEF span
    <2>2. /\ Cardinality({p \in span : Starts(p)}) \in Nat
          /\ Cardinality({p \in span : ByteAt(p) = "lead"}) \in Nat
      BY <2>1, FS_Subset, FS_CardinalityType
    <2> QED
      BY <2>2 DEF Columns, span
  <1>4. Columns(t, t) = 0
    <2>1. {p \in t..(t - 1) : Starts(p)} = {} /\ {p \in t..(t - 1) : ByteAt(p) = "lead"} = {}
      BY <1>1
    <2> QED
      BY <2>1, FS_EmptySet DEF Columns
  <1>5. limit \in Nat
    BY <1>1, <1>2, <1>3
  <1>. HIDE DEF limit
  <1>6. fits \subseteq Nat /\ fits # {} /\ \A p \in fits : p <= e
    <2>1. t \in fits
      BY <1>1, <1>4, <1>5
    <2> QED
      BY <1>1, <2>1
  <1>7. PICK p \in fits : \A q \in fits : q <= p
    BY <1>1, <1>6, Greatest
  <1>8. \A q \in (p + 1)..e : q = Size \/ Starts(q) => Columns(t, q) > limit
    <2>. SUFFICES ASSUME NEW q \in (p + 1)..e, q = Size \/ Starts(q)
                  PROVE  Columns(t, q) > limit
      OBVIOUS
    <2>1. p \in t..e /\ q \in t..e /\ q \in Nat /\ ~(q <= p)
      BY <1>1, <1>7
    <2>2. ~(Columns(t, q) <= limit)
      BY <1>7, <2>1
    <2>3. Columns(t, q) \in Nat
      BY <1>1, <1>3, <2>1
    <2> QED
      BY <1>5, <2>2, <2>3
  <1>9. \E q \in t..e : Final(q)
    BY <1>7, <1>8
  <1>10. SameColumn(t, e) = CHOOSE q \in t..e : Final(q)
    BY DEF SameColumn, limit
  <1>11. SameColumn(t, e) \in t..e /\ (SameColumn(t, e) = Size \/ Starts(SameColumn(t, e)))
    BY <1>9, <1>10
  <1>12. SameColumn(t, e) \in 0..Size
    BY <1>1, <1>11
  <1> QED
    BY <1>11, <1>12, StartsAreCuts DEF Sound

\* What the keys come to: text goes in at the cursor, text goes before or
\* behind it, or it moves, and all of that at cuts.
TypesIn      == (\E c \in Characters : Insert(Encoded(c))) \/ Insert(Spaces)
ErasesBefore == \E p \in 0..cursor : Cut(buffer, p) /\ Erase(p, cursor, p)
ErasesBehind == \E p \in cursor..Size : Cut(buffer, p) /\ Erase(cursor, p, cursor)
Moves        == \E p : Cut(buffer, p) /\ MoveTo(p)

LEMMA KeySteps ==
    ASSUME Sound, BufferNext
    PROVE  TypesIn \/ ErasesBefore \/ ErasesBehind \/ Moves
  <1>. Whole(buffer) /\ Size \in Nat /\ cursor \in 0..Size /\ Cut(buffer, cursor)
    BY Ends DEF Sound, Cut, Size
  <1>1. CASE TypeCharacter
    BY <1>1 DEF TypeCharacter, TypesIn
  <1>2. CASE Tab
    BY <1>2 DEF Tab, TypesIn
  <1>3. CASE ShiftEnter
    <2>1. "nl" \in Characters
      BY DEF Characters
    <2> QED
      BY <1>3, <2>1 DEF ShiftEnter, TypesIn
  <1>4. CASE Backspace
    <2>. DEFINE p == PrevBoundary(cursor)
    <2>1. cursor \in 1..Size /\ Erase(p, cursor, p)
      BY <1>4 DEF Backspace
    <2>2. p \in 0..cursor /\ Cut(buffer, p)
      BY <2>1, PrevPlace
    <2>. HIDE DEF p
    <2> QED
      BY <2>1, <2>2 DEF ErasesBefore
  <1>5. CASE DeleteForward
    <2>. DEFINE p == NextBoundary(cursor)
    <2>1. cursor < Size /\ Erase(cursor, p, cursor)
      BY <1>5 DEF DeleteForward
    <2>2. p \in cursor..Size /\ Cut(buffer, p)
      BY <2>1, NextPlace
    <2>. HIDE DEF p
    <2> QED
      BY <2>1, <2>2 DEF ErasesBehind
  <1>6. CASE KillToEnd
    <2>1. CASE cursor < Size /\ ByteAt(cursor) = "nl"
      <3>1. cursor + 1 \in 1..Size /\ (cursor + 1) - 1 = cursor
        BY <2>1
      <3>2. SpaceBefore(cursor + 1)
        BY <2>1, <3>1 DEF SpaceBefore, SpaceAt
      <3>3. Cut(buffer, cursor + 1)
        BY <3>1, <3>2, BehindSpaces
      <3>4. Erase(cursor, cursor + 1, cursor) /\ cursor + 1 \in cursor..Size
        BY <1>6, <2>1, <3>1 DEF KillToEnd
      <3> QED
        BY <3>3, <3>4 DEF ErasesBehind
    <2>2. CASE ~(cursor < Size /\ ByteAt(cursor) = "nl")
      <3>1. Erase(cursor, LineEnd(cursor), cursor)
        BY <1>6, <2>2 DEF KillToEnd
      <3>2. LineEnd(cursor) \in cursor..Size /\ Cut(buffer, LineEnd(cursor))
        BY LineEndPlace
      <3> QED
        BY <3>1, <3>2 DEF ErasesBehind
    <2> QED
      BY <2>1, <2>2
  <1>7. CASE KillToStart
    <2>1. LineStart(cursor) \in 0..cursor /\ Cut(buffer, LineStart(cursor))
      BY LineStartPlace
    <2> QED
      BY <1>7, <2>1 DEF KillToStart, ErasesBefore
  <1>8. CASE DeleteWordBack
    <2>1. WordLeft(cursor) \in 0..cursor /\ Cut(buffer, WordLeft(cursor))
      BY WordLeftPlace
    <2> QED
      BY <1>8, <2>1 DEF DeleteWordBack, ErasesBefore
  <1>9. CASE Left
    <2>1. cursor \in 1..Size /\ MoveTo(PrevBoundary(cursor))
      BY <1>9 DEF Left
    <2> QED
      BY <2>1, PrevPlace DEF Moves
  <1>10. CASE Right
    BY <1>10, NextPlace DEF Right, Moves
  <1>11. CASE Home
    BY <1>11, LineStartPlace DEF Home, Moves
  <1>12. CASE End
    BY <1>12, LineEndPlace DEF End, Moves
  <1>13. CASE WordBack
    BY <1>13, WordLeftPlace DEF WordBack, Moves
  <1>14. CASE WordOn
    BY <1>14, WordRightPlace DEF WordOn, Moves
  <1>15. CASE Up
    <2>. DEFINE e == LineStart(cursor) - 1
                t == LineStart(e)
    <2>1. LineStart(cursor) > 0 /\ MoveTo(SameColumn(t, e))
      BY <1>15 DEF Up
    <2>2. e \in 0..Size
      BY <2>1, LineStartPlace
    <2>. HIDE DEF e
    <2>3. t \in 0..e /\ Cut(buffer, t)
      BY <2>2, LineStartPlace
    <2>4. t \in 0..Size /\ e \in t..Size /\ (t = Size \/ Starts(t))
      BY <2>2, <2>3 DEF Cut, Starts, ByteAt, Size
    <2> QED
      BY <2>1, <2>4, ColumnPlace DEF Moves
  <1>16. CASE Down
    <2>. DEFINE t == LineEnd(cursor) + 1
                e == LineEnd(t)
    <2>1. LineEnd(cursor) < Size /\ MoveTo(SameColumn(t, e))
      BY <1>16 DEF Down
    <2>2. /\ t \in 1..Size /\ t - 1 = LineEnd(cursor)
          /\ ByteAt(LineEnd(cursor)) = "nl"
      BY <2>1, LineEndPlace
    <2>3. SpaceBefore(t)
      BY <2>2 DEF SpaceBefore, SpaceAt
    <2>. HIDE DEF t
    <2>4. Cut(buffer, t) /\ t \in 0..Size
      BY <2>2, <2>3, BehindSpaces
    <2>5. e \in t..Size
      BY <2>4, LineEndPlace
    <2>6. t = Size \/ Starts(t)
      BY <2>4 DEF Cut, Starts, ByteAt, Size
    <2> QED
      BY <2>1, <2>4, <2>5, <2>6, ColumnPlace DEF Moves
  <1> QED
    BY <1>1, <1>2, <1>3, <1>4, <1>5, <1>6, <1>7, <1>8, <1>9, <1>10, <1>11, <1>12, <1>13,
       <1>14, <1>15, <1>16 DEF BufferNext

LEMMA SoundStep ==
    ASSUME Sound, [BufferNext]_bufferVars
    PROVE  Sound'
  <1>. Whole(buffer) /\ Size \in Nat /\ cursor \in 0..Size /\ Cut(buffer, cursor)
    BY Ends DEF Sound, Cut, Size
  <1>1. CASE TypesIn
    BY <1>1, EncodedIsWhole, SpacesAreWhole, InsertKeeps DEF TypesIn
  <1>2. CASE ErasesBefore
    BY <1>2, EraseKeeps DEF ErasesBefore
  <1>3. CASE ErasesBehind
    BY <1>3, EraseKeeps DEF ErasesBehind
  <1>4. CASE Moves
    BY <1>4, MoveKeeps DEF Moves
  <1>5. CASE UNCHANGED bufferVars
    BY <1>5 DEF bufferVars, Sound, Size
  <1> QED
    BY <1>1, <1>2, <1>3, <1>4, <1>5, KeySteps

\* The cursor is on the first byte of a character or at the end, and every
\* character is whole, whatever keys are pressed.
THEOREM CursorCorrect == BufferSpec => []CursorOnBoundary
  <1>1. BufferInit => Sound
    BY BufferSizes DEF BufferInit, Sound, Whole, Cut, Size
  <1>2. Sound /\ [BufferNext]_bufferVars => Sound'
    BY SoundStep
  <1>3. Sound => CursorOnBoundary
    BY SoundForm DEF Sound
  <1> QED
    BY <1>1, <1>2, <1>3, PTL DEF BufferSpec

-----------------------------------------------------------------------------
(* The text as characters. *)

\* The characters are the bytes that start one.
LEMMA CharactersRemoved ==
    ASSUME NEW s
    PROVE  CharactersOf(s) = Removed("more", s)
  BY DEF CharactersOf, Removed

LEMMA CharactersAre == Characters = TextBytes \ {"more"}
  BY DEF Characters, TextBytes

LEMMA CharactersType ==
    ASSUME NEW s \in Seq(TextBytes)
    PROVE  CharactersOf(s) \in Seq(Characters)
  BY CharactersRemoved, CharactersAre, RemovedType

\* One byte more.
LEMMA CharactersPush ==
    ASSUME NEW s \in Seq(TextBytes), NEW b \in TextBytes
    PROVE  CharactersOf(Append(s, b)) =
              IF b = "more" THEN CharactersOf(s) ELSE Append(CharactersOf(s), b)
  BY CharactersRemoved, RemovedPush

LEMMA CharactersNone == CharactersOf(<<>>) = <<>>
  BY CharactersRemoved, RemovedNone

LEMMA CharactersConcat ==
    ASSUME NEW s \in Seq(TextBytes), NEW t \in Seq(TextBytes)
    PROVE  CharactersOf(s \o t) = CharactersOf(s) \o CharactersOf(t)
  <1>1. Removed("more", s \o t) = Removed("more", s) \o Removed("more", t)
    BY RemovedConcat
  <1> QED
    BY <1>1, CharactersRemoved

\* Bytes that start a character stand for themselves.
LEMMA CharactersSame ==
    ASSUME NEW s \in Seq(Characters)
    PROVE  CharactersOf(s) = s
  BY CharactersRemoved, CharactersAre, RemovedSame

\* The other bytes stand for nothing.
LEMMA NoCharacters ==
    ASSUME NEW s \in Seq({"more"})
    PROVE  CharactersOf(s) = <<>>
  BY CharactersRemoved, RemovedAll

\* What a key puts in is one character, or the spaces of a Tab.
LEMMA CharactersOfEncoded ==
    ASSUME NEW c \in Characters
    PROVE  CharactersOf(Encoded(c)) = <<c>>
  <1>. DEFINE one == <<c>>
              rest == IF c = "lead" THEN [i \in 1..MoreBytes |-> "more"] ELSE <<>>
  <1>1. MoreBytes \in Nat
    BY BufferSizes
  <1>2. rest \in Seq({"more"})
    <2>1. <<>> \in Seq({"more"})
      OBVIOUS
    <2>2. [i \in 1..MoreBytes |-> "more"] \in Seq({"more"})
      BY <1>1
    <2> QED
      BY <2>1, <2>2
  <1>3. one \in Seq(Characters) /\ one \in Seq(TextBytes)
    BY DEF TextBytes
  <1>. HIDE DEF rest
  <1>4. rest \in Seq(TextBytes)
    BY <1>2 DEF TextBytes
  <1>5. Encoded(c) = one \o rest
    BY DEF Encoded, rest
  <1>. HIDE DEF one
  <1>6. CharactersOf(one) = one /\ CharactersOf(rest) = <<>>
    BY <1>2, <1>3, CharactersSame, NoCharacters
  <1>7. CharactersOf(one \o rest) = one \o <<>>
    BY <1>3, <1>4, <1>6, CharactersConcat
  <1>8. one \o <<>> = one
    BY <1>3
  <1> QED
    BY <1>5, <1>7, <1>8 DEF one

LEMMA CharactersOfSpaces == CharactersOf(Spaces) = [i \in 1..TabWidth |-> " "]
  <1>1. TabWidth \in Nat /\ " " \in Characters
    BY BufferSizes DEF Characters
  <1>2. Spaces \in Seq(Characters)
    BY <1>1, AllSame DEF Spaces
  <1> QED
    BY <1>2, CharactersSame DEF Spaces

-----------------------------------------------------------------------------
(* The buffer implements the text with a cursor. *)

Before == CharactersOf(SubSeq(buffer, 1, cursor))
Behind == CharactersOf(SubSeq(buffer, cursor + 1, Size))

\* A text, cut in three at two places.
LEMMA InThree ==
    ASSUME NEW b \in Seq(TextBytes), NEW p \in 0..Len(b), NEW q \in p..Len(b)
    PROVE  /\ SubSeq(b, 1, p) \in Seq(TextBytes)
           /\ SubSeq(b, p + 1, q) \in Seq(TextBytes)
           /\ SubSeq(b, q + 1, Len(b)) \in Seq(TextBytes)
           /\ SubSeq(b, 1, q) = SubSeq(b, 1, p) \o SubSeq(b, p + 1, q)
           /\ SubSeq(b, p + 1, Len(b)) = SubSeq(b, p + 1, q) \o SubSeq(b, q + 1, Len(b))
           /\ b = SubSeq(b, 1, q) \o SubSeq(b, q + 1, Len(b))
  <1>. DEFINE n == Len(b)
  <1>1. n \in Nat /\ p \in Nat /\ q \in Nat /\ p <= q /\ q <= n /\ \A i \in 1..n : b[i] \in TextBytes
    OBVIOUS
  <1>2. /\ SubSeq(b, 1, p) \in Seq(TextBytes) /\ Len(SubSeq(b, 1, p)) = p
        /\ \A i \in 1..p : SubSeq(b, 1, p)[i] = b[i]
    BY <1>1
  <1>3. /\ SubSeq(b, 1, q) \in Seq(TextBytes) /\ Len(SubSeq(b, 1, q)) = q
        /\ \A i \in 1..q : SubSeq(b, 1, q)[i] = b[i]
    BY <1>1
  <1>4. /\ SubSeq(b, p + 1, q) \in Seq(TextBytes) /\ Len(SubSeq(b, p + 1, q)) = q - p
        /\ \A i \in 1..(q - p) : SubSeq(b, p + 1, q)[i] = b[p + i]
    BY <1>1
  <1>5. /\ SubSeq(b, q + 1, n) \in Seq(TextBytes) /\ Len(SubSeq(b, q + 1, n)) = n - q
        /\ \A i \in 1..(n - q) : SubSeq(b, q + 1, n)[i] = b[q + i]
    BY <1>1
  <1>6. /\ SubSeq(b, p + 1, n) \in Seq(TextBytes) /\ Len(SubSeq(b, p + 1, n)) = n - p
        /\ \A i \in 1..(n - p) : SubSeq(b, p + 1, n)[i] = b[p + i]
    BY <1>1
  <1>. DEFINE low == SubSeq(b, 1, p)
              left == SubSeq(b, 1, q)
              mid == SubSeq(b, p + 1, q)
              high == SubSeq(b, q + 1, n)
              right == SubSeq(b, p + 1, n)
  <1>. HIDE DEF n, low, left, mid, high, right
  <1>7. /\ low \in Seq(TextBytes) /\ Len(low) = p /\ \A i \in 1..p : low[i] = b[i]
        /\ left \in Seq(TextBytes) /\ Len(left) = q /\ \A i \in 1..q : left[i] = b[i]
        /\ mid \in Seq(TextBytes) /\ Len(mid) = q - p /\ \A i \in 1..(q - p) : mid[i] = b[p + i]
        /\ high \in Seq(TextBytes) /\ Len(high) = n - q /\ \A i \in 1..(n - q) : high[i] = b[q + i]
        /\ right \in Seq(TextBytes) /\ Len(right) = n - p /\ \A i \in 1..(n - p) : right[i] = b[p + i]
        /\ Len(b) = n
    BY <1>2, <1>3, <1>4, <1>5, <1>6 DEF low, left, mid, high, right, n
  <1>8. left = low \o mid
    <2>1. /\ Len(left) = Len(low) + Len(mid)
          /\ \A i \in 1..Len(low) : left[i] = low[i]
          /\ \A i \in 1..Len(mid) : left[Len(low) + i] = mid[i]
      BY <1>1, <1>7
    <2> QED
      BY <1>7, <2>1, Joined
  <1>9. right = mid \o high
    <2>1. /\ Len(right) = Len(mid) + Len(high)
          /\ \A i \in 1..Len(mid) : right[i] = mid[i]
      BY <1>1, <1>7
    <2>2. ASSUME NEW i \in 1..Len(high)
          PROVE  right[Len(mid) + i] = high[i]
      <3>1. (q - p) + i \in 1..(n - p) /\ p + ((q - p) + i) = q + i /\ i \in 1..(n - q)
        BY <1>1, <1>7
      <3> QED
        BY <1>7, <3>1
    <2> QED
      BY <1>7, <2>1, <2>2, Joined
  <1>10. b = left \o high
    <2>1. /\ Len(b) = Len(left) + Len(high)
          /\ \A i \in 1..Len(left) : b[i] = left[i]
          /\ \A i \in 1..Len(high) : b[Len(left) + i] = high[i]
      BY <1>1, <1>7
    <2> QED
      BY <1>7, <2>1, Joined
  <1> QED
    BY <1>2, <1>4, <1>5, <1>8, <1>9, <1>10 DEF low, left, mid, high, right, n

\* Two texts put together, cut where they were.
LEMMA Rejoined ==
    ASSUME NEW a \in Seq(TextBytes), NEW z \in Seq(TextBytes)
    PROVE  /\ a \o z \in Seq(TextBytes)
           /\ SubSeq(a \o z, 1, Len(a)) = a
           /\ SubSeq(a \o z, Len(a) + 1, Len(a \o z)) = z
  <1>. DEFINE m == Len(a)
              n == Len(z)
              c == a \o z
  <1>1. m \in Nat /\ n \in Nat /\ Len(a) = m /\ Len(z) = n
    OBVIOUS
  <1>2. /\ c \in Seq(TextBytes) /\ Len(c) = m + n
        /\ \A i \in 1..m : c[i] = a[i]
        /\ \A i \in 1..n : c[m + i] = z[i]
    BY Concat
  <1>. HIDE DEF m, n, c
  <1>3. SubSeq(c, 1, m) = a
    BY <1>1, <1>2
  <1>4. SubSeq(c, m + 1, m + n) = z
    <2>. DEFINE y == SubSeq(c, m + 1, m + n)
    <2>1. y \in Seq(TextBytes) /\ Len(y) = n /\ \A i \in 1..n : y[i] = c[m + i]
      BY <1>1, <1>2
    <2>. HIDE DEF y
    <2>2. y = z
      BY <1>1, <1>2, <2>1
    <2> QED
      BY <2>2 DEF y
  <1> QED
    BY <1>2, <1>3, <1>4 DEF m, n, c

\* What is seen, when the text is that up to p, s, and that from q on, and the cursor is behind s.
LEMMA SeenAfter ==
    ASSUME Sound, NEW p \in 0..Size, NEW q \in p..Size, NEW s \in Seq(TextBytes),
           buffer' = (SubSeq(buffer, 1, p) \o s) \o SubSeq(buffer, q + 1, Size),
           cursor' = p + Len(s)
    PROVE  /\ Before' = CharactersOf(SubSeq(buffer, 1, p)) \o CharactersOf(s)
           /\ Behind' = CharactersOf(SubSeq(buffer, q + 1, Size))
  <1>. DEFINE low == SubSeq(buffer, 1, p)
              a == low \o s
              z == SubSeq(buffer, q + 1, Size)
  <1>1. buffer \in Seq(TextBytes) /\ Size = Len(buffer) /\ Size \in Nat
    BY Ends DEF Sound, Whole, Size
  <1>2. low \in Seq(TextBytes) /\ z \in Seq(TextBytes) /\ Len(low) = p
    BY <1>1, InThree
  <1>3. a \in Seq(TextBytes) /\ Len(a) = p + Len(s) /\ CharactersOf(a) = CharactersOf(low) \o CharactersOf(s)
    <2>. HIDE DEF low
    <2> QED
      BY <1>2, Concat, CharactersConcat
  <1>. HIDE DEF a, z
  <1>4. buffer' = a \o z /\ cursor' = Len(a)
    BY <1>3 DEF a, z
  <1>5. SubSeq(buffer', 1, cursor') = a /\ SubSeq(buffer', cursor' + 1, Len(buffer')) = z
    <2>1. z \in Seq(TextBytes)
      BY <1>2 DEF z
    <2>2. SubSeq(a \o z, 1, Len(a)) = a /\ SubSeq(a \o z, Len(a) + 1, Len(a \o z)) = z
      BY <1>3, <2>1, Rejoined
    <2> QED
      BY <1>4, <2>2
  <1> QED
    BY <1>3, <1>5 DEF Before, Behind, Size, z

\* Each of the things that the keys come to is a step of the text with a cursor.
LEMMA TypedText ==
    ASSUME Sound, NEW s \in Seq(TextBytes), Insert(s)
    PROVE  Before' = Before \o CharactersOf(s) /\ Behind' = Behind
  <1>1. Size \in Nat /\ cursor \in 0..Size /\ cursor \in cursor..Size
    BY Ends DEF Sound, Cut, Size
  <1>2. /\ buffer' = (SubSeq(buffer, 1, cursor) \o s) \o SubSeq(buffer, cursor + 1, Size)
        /\ cursor' = cursor + Len(s)
    BY DEF Insert
  <1> QED
    BY <1>1, <1>2, SeenAfter DEF Before, Behind

LEMMA ErasedText ==
    ASSUME Sound, NEW p \in 0..Size, NEW q \in p..Size, Erase(p, q, p)
    PROVE  /\ Before' = CharactersOf(SubSeq(buffer, 1, p))
           /\ Behind' = CharactersOf(SubSeq(buffer, q + 1, Size))
  <1>. DEFINE low == SubSeq(buffer, 1, p)
              none == <<>>
  <1>1. buffer \in Seq(TextBytes) /\ Size = Len(buffer) /\ Size \in Nat
    BY Ends DEF Sound, Whole, Size
  <1>2. low \in Seq(TextBytes) /\ low \o none = low /\ none \in Seq(TextBytes) /\ Len(none) = 0
    BY <1>1, InThree
  <1>3. CharactersOf(low) \in Seq(Characters)
    BY <1>2, CharactersType
  <1>4. CharactersOf(low) \o CharactersOf(none) = CharactersOf(low)
    BY <1>3, CharactersNone
  <1>. HIDE DEF none
  <1>5. /\ buffer' = (low \o none) \o SubSeq(buffer, q + 1, Size)
        /\ cursor' = p + Len(none)
    <2>1. buffer' = low \o SubSeq(buffer, q + 1, Size) /\ cursor' = p /\ p + 0 = p
      BY DEF Erase
    <2>. HIDE DEF low
    <2> QED
      BY <1>2, <2>1
  <1> QED
    BY <1>2, <1>4, <1>5, SeenAfter

\* What is seen on both sides of a place is the whole.
LEMMA WholeText ==
    ASSUME NEW b \in Seq(TextBytes), NEW p \in 0..Len(b)
    PROVE  CharactersOf(SubSeq(b, 1, p)) \o CharactersOf(SubSeq(b, p + 1, Len(b))) = CharactersOf(b)
  <1>1. p \in p..Len(b)
    OBVIOUS
  <1>2. /\ SubSeq(b, 1, p) \in Seq(TextBytes) /\ SubSeq(b, p + 1, Len(b)) \in Seq(TextBytes)
        /\ b = SubSeq(b, 1, p) \o SubSeq(b, p + 1, Len(b))
    BY <1>1, InThree
  <1> QED
    BY <1>2, CharactersConcat

LEMMA TextStep ==
    ASSUME Sound, [BufferNext]_bufferVars
    PROVE  [Text!Next]_<<Before, Behind>>
  <1>1. buffer \in Seq(TextBytes) /\ Size = Len(buffer) /\ Size \in Nat /\ cursor \in 0..Size
    BY Ends DEF Sound, Whole, Cut, Size
  <1>2. Before \in Seq(Characters) /\ Behind \in Seq(Characters)
    <2>1. cursor \in cursor..Size
      BY <1>1
    <2>2. /\ SubSeq(buffer, 1, cursor) \in Seq(TextBytes)
          /\ SubSeq(buffer, cursor + 1, Size) \in Seq(TextBytes)
      BY <1>1, <2>1, InThree
    <2> QED
      BY <2>2, CharactersType DEF Before, Behind
  <1>3. CASE TypesIn
    <2>1. ASSUME NEW c \in Characters, Insert(Encoded(c))
          PROVE  Text!Type
      <3>1. Encoded(c) \in Seq(TextBytes)
        BY EncodedIsWhole DEF Whole
      <3>2. Before' = Before \o <<c>> /\ Behind' = Behind
        BY <2>1, <3>1, TypedText, CharactersOfEncoded
      <3>3. Before \o <<c>> = Append(Before, c)
        BY <1>2
      <3> QED
        BY <3>2, <3>3 DEF Text!Type, Before, Behind
    <2>2. ASSUME Insert(Spaces)
          PROVE  Text!Type
      <3>1. Spaces \in Seq(TextBytes)
        BY SpacesAreWhole DEF Whole
      <3>2. Before' = Before \o [i \in 1..TabWidth |-> " "] /\ Behind' = Behind
        BY <2>2, <3>1, TypedText, CharactersOfSpaces
      <3> QED
        BY <3>2 DEF Text!Type, Before, Behind
    <2>3. Text!Type
      BY <1>3, <2>1, <2>2 DEF TypesIn
    <2> QED
      BY <2>3 DEF Text!Next
  <1>4. CASE ErasesBefore
    <2>1. PICK p \in 0..cursor : Erase(p, cursor, p)
      BY <1>4 DEF ErasesBefore
    <2>2. p \in 0..Size /\ cursor \in p..Size /\ p \in 0..Len(buffer)
      BY <1>1, <2>1
    <2>. DEFINE low == CharactersOf(SubSeq(buffer, 1, p))
                mid == CharactersOf(SubSeq(buffer, p + 1, cursor))
    <2>3. Before' = low /\ Behind' = Behind
      BY <2>1, <2>2, ErasedText DEF Behind
    <2>4. Before = low \o mid /\ low \in Seq(Characters) /\ mid \in Seq(Characters)
      <3>1. /\ SubSeq(buffer, 1, p) \in Seq(TextBytes) /\ SubSeq(buffer, p + 1, cursor) \in Seq(TextBytes)
            /\ SubSeq(buffer, 1, cursor) = SubSeq(buffer, 1, p) \o SubSeq(buffer, p + 1, cursor)
        BY <1>1, <2>2, InThree
      <3> QED
        BY <3>1, CharactersConcat, CharactersType DEF Before
    <2>. HIDE DEF low, mid
    <2>5. Len(low) \in 0..Len(Before) /\ low = SubSeq(Before, 1, Len(low))
      <3>1. /\ Len(low) \in Nat /\ Len(mid) \in Nat /\ Len(Before) = Len(low) + Len(mid)
            /\ \A i \in 1..Len(low) : Before[i] = low[i]
        BY <2>4, Concat
      <3> QED
        BY <1>2, <2>4, <3>1
    <2>6. Text!DeleteBefore
      BY <2>3, <2>5 DEF Text!DeleteBefore, Before, Behind
    <2> QED
      BY <2>6 DEF Text!Next
  <1>5. CASE ErasesBehind
    <2>1. PICK p \in cursor..Size : Erase(cursor, p, cursor)
      BY <1>5 DEF ErasesBehind
    <2>. DEFINE mid == CharactersOf(SubSeq(buffer, cursor + 1, p))
                high == CharactersOf(SubSeq(buffer, p + 1, Size))
    <2>2. Before' = Before /\ Behind' = high
      BY <1>1, <2>1, ErasedText DEF Before
    <2>3. Behind = mid \o high /\ mid \in Seq(Characters) /\ high \in Seq(Characters)
      <3>1. /\ SubSeq(buffer, cursor + 1, p) \in Seq(TextBytes)
            /\ SubSeq(buffer, p + 1, Size) \in Seq(TextBytes)
            /\ SubSeq(buffer, cursor + 1, Size) = SubSeq(buffer, cursor + 1, p) \o SubSeq(buffer, p + 1, Size)
        BY <1>1, <2>1, InThree
      <3> QED
        BY <3>1, CharactersConcat, CharactersType DEF Behind
    <2>. HIDE DEF mid, high
    <2>4. CASE high = <<>>
      <3>1. Text!DeleteRest
        BY <2>2, <2>4 DEF Text!DeleteRest, Before, Behind
      <3> QED
        BY <3>1 DEF Text!Next
    <2>5. CASE high # <<>>
      <3>. DEFINE m == Len(mid)
                  h == Len(high)
      <3>1. /\ m \in Nat /\ h \in Nat /\ h > 0 /\ Len(Behind) = m + h
            /\ \A i \in 1..h : Behind[m + i] = high[i]
        BY <2>3, <2>5, Concat
      <3>. DEFINE y == SubSeq(Behind, m + 1, m + h)
      <3>. HIDE DEF m
      <3>2. y \in Seq(Characters) /\ Len(y) = h /\ \A i \in 1..h : y[i] = Behind[m + i]
        <4>1. Behind \in Seq(Characters) /\ m + 1 \in 1..(Len(Behind) + 1) /\ m + h \in 0..Len(Behind)
          BY <1>2, <3>1
        <4>2. y \in Seq(Characters) /\ Len(y) = h
          BY <3>1, <4>1
        <4>3. \A i \in 1..h : y[i] = Behind[m + i]
          BY <3>1, <4>1
        <4> QED
          BY <4>2, <4>3
      <3>. HIDE DEF y
      <3>3. y = high
        <4>1. Len(y) = Len(high) /\ \A i \in 1..Len(y) : y[i] = high[i]
          BY <3>1, <3>2
        <4> QED
          BY <2>3, <3>2, <4>1, SameElements
      <3>4. m + 1 \in 1..Len(Behind) /\ high = SubSeq(Behind, m + 1, Len(Behind))
        BY <3>1, <3>3 DEF y
      <3>5. Text!DeleteAfter
        BY <2>2, <3>4 DEF Text!DeleteAfter, Before, Behind
      <3> QED
        BY <3>5 DEF Text!Next
    <2> QED
      BY <2>4, <2>5
  <1>6. CASE Moves
    <2>1. PICK p \in 0..Size : MoveTo(p)
      BY <1>6 DEF Moves, Cut, Size
    <2>2. Before \o Behind = CharactersOf(buffer)
      BY <1>1, WholeText DEF Before, Behind
    <2>3. Before' \o Behind' = CharactersOf(buffer)
      <3>1. buffer' = buffer /\ cursor' = p
        BY <2>1 DEF MoveTo
      <3> QED
        BY <1>1, <3>1, WholeText DEF Before, Behind, Size
    <2>4. Text!Move
      BY <2>2, <2>3 DEF Text!Move, Before, Behind
    <2> QED
      BY <2>4 DEF Text!Next
  <1>7. CASE UNCHANGED bufferVars
    BY <1>7 DEF bufferVars, Before, Behind, Size
  <1> QED
    BY <1>3, <1>4, <1>5, <1>6, <1>7, KeySteps

\* Seen as characters, a key puts some in at the cursor, takes some away right
\* before or right behind it, or moves it; it never touches the rest.
THEOREM TextKeyed == BufferSpec => IsTextCursor
  <1>1. BufferInit => Sound
    BY BufferSizes DEF BufferInit, Sound, Whole, Cut, Size
  <1>2. Sound /\ [BufferNext]_bufferVars => Sound'
    BY SoundStep
  <1>3. BufferInit => Text!Init
    <2>. SUFFICES ASSUME BufferInit PROVE Text!Init
      OBVIOUS
    <2>1. buffer = <<>> /\ cursor = 0 /\ Size = 0
      BY DEF BufferInit, Size
    <2>2. SubSeq(buffer, 1, cursor) = <<>> /\ SubSeq(buffer, cursor + 1, Size) = <<>>
      BY <2>1
    <2> QED
      BY <2>2, CharactersNone DEF Text!Init
  <1>4. Sound /\ [BufferNext]_bufferVars => [Text!Next]_<<Before, Behind>>
    BY TextStep
  <1> QED
    BY <1>1, <1>2, <1>3, <1>4, PTL DEF BufferSpec, IsTextCursor, Text!Spec, Before, Behind

=============================================================================
