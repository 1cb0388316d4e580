-------------------------- MODULE KeyDecoderProofs --------------------------
(***************************************************************************)
(* Proofs about the decoding of keys (KeyDecoder): whatever is pressed and *)
(* pasted, and whatever the probe was waiting for, every key reaches the   *)
(* editor once and in order unless bytes were late, lost or dropped.       *)
(*                                                                         *)
(* The argument: the decoder is an automaton (`Decoder') that takes one    *)
(* byte at a time.  What was decoded already, followed by what the         *)
(* automaton makes of all the bytes that are still somewhere, in the order *)
(* in which readByte will hand them out (`Rest'), is what was pressed: a   *)
(* key sent adds its bytes at the far end, and the automaton reads a whole *)
(* key or paste out of them; a byte read only moves from one side to the   *)
(* other; and the answers of the terminal, that probeKitty takes out, mean *)
(* nothing to the automaton.                                               *)
(***************************************************************************)
EXTENDS KeyDecoder, SequenceLemmas

-----------------------------------------------------------------------------
(* The decoder as an automaton: what it does with bytes that come in time. *)

Bytes == {"x", "lead", "more", "cr", "nl", "etx", "bel", "esc"} \cup Inks
Kinds == {"Char", "Enter", "CtrlC", "Up", "ShiftEnter", "PasteStart", "PasteEnd"}

\* Where it is, "lost" when the bytes are none that a terminal sends: `at', `params' and
\* `inPaste' of the decoder and the keys decoded.
States ==
    {q \in [at : {"key", "pasteCR", "wide", "escape", "csi", "ss3", "lost"},
            params : {""} \cup Bytes, paste : BOOLEAN, out : Seq(Kinds)] :
        /\ q.at = "pasteCR" => q.paste
        /\ q.params # "" => q.at = "csi"}

\* The key k is returned.
Given(q, k) == [at     |-> "key",
                params |-> "",
                paste  |-> k = "PasteStart" \/ (q.paste /\ k \notin {"PasteEnd", "Enter", "CtrlC"}),
                out    |-> q.out \o Used(<<k>>)]
Wait(q, w) == [at |-> w, params |-> "", paste |-> q.paste, out |-> q.out]
Lost(q)    == Wait(q, "lost")
Got(q, b)  == [at |-> "csi", params |-> b, paste |-> q.paste, out |-> q.out]

KeyMeant(paste, b) ==
    IF b \in {"cr", "nl"} THEN IF paste THEN "ShiftEnter" ELSE "Enter"
    ELSE IF b = "etx" THEN "CtrlC"
    ELSE IF b \in Inks THEN "Char" ELSE "Unknown"

AtKey(q, b) ==
    IF b = "esc" THEN Wait(q, "escape")
    ELSE IF b = "lead" THEN Wait(q, "wide")
    ELSE IF b = "cr" /\ q.paste THEN Wait(q, "pasteCR")
    ELSE Given(q, KeyMeant(q.paste, b))

CsiMeant(par, fin) ==
    IF fin = "A" THEN "Up"
    ELSE IF fin = "u" /\ par = "13;2" THEN "ShiftEnter"
    ELSE IF fin = "~" /\ par = "200" THEN "PasteStart"
    ELSE IF fin = "~" /\ par = "201" THEN "PasteEnd" ELSE "Unknown"

AtPasteCR(q, b) == IF b = "nl" THEN Given(q, "ShiftEnter") ELSE AtKey(Given(q, "ShiftEnter"), b)
AtWide(q, b)    == IF b = "more" THEN Given(q, "Char") ELSE Lost(q)
AtSs3(q, b)     == IF b = "A" THEN Given(q, "Up") ELSE Lost(q)

AtEscape(q, b) ==
    IF b = "[" THEN Wait(q, "csi")
    ELSE IF b = "O" THEN Wait(q, "ss3")
    ELSE IF b \in {"cr", "nl"} THEN Given(q, "ShiftEnter") ELSE Lost(q)

AtCsi(q, b) ==
    IF b \in Finals
    THEN IF q.params = "?" /\ q.paste THEN Lost(q) ELSE Given(q, CsiMeant(q.params, b))
    ELSE IF q.params = "" /\ b \in Inks THEN Got(q, b) ELSE Lost(q)

Stepped(q, b) ==
    IF q.at = "key" THEN AtKey(q, b)
    ELSE IF q.at = "pasteCR" THEN AtPasteCR(q, b)
    ELSE IF q.at = "wide" THEN AtWide(q, b)
    ELSE IF q.at = "escape" THEN AtEscape(q, b)
    ELSE IF q.at = "ss3" THEN AtSs3(q, b)
    ELSE IF q.at = "csi" THEN AtCsi(q, b) ELSE Lost(q)

Decoder == [p \in States \X Bytes |-> Stepped(p[1], p[2])]

\* Where the decoder is, and what it is still to decode: while it probes, all that was kept.
Probing == {"probe", "probeEsc", "probeCsi"}
Phase == IF at \in Probing \cup {"away", "gone"}
         THEN [at |-> "key", params |-> "", paste |-> FALSE, out |-> decoded]
         ELSE [at |-> at, params |-> params, paste |-> inPaste, out |-> decoded]
Held == CASE at = "probeEsc" -> <<"esc">>
          [] at = "probeCsi" -> <<"esc", "[">> \o (IF params = "" THEN <<>> ELSE <<params>>)
          [] OTHER           -> <<>>
Rest == (stash \o Held) \o (pending \o line)

\* All of it decodes to the keys expected.
Settled(q) == q.at \in {"key", "escape"} /\ q.params = "" /\ ~q.paste
Decodes(q) == Settled(q) /\ q.out = expected

\* The variables the decoder reads, each where it may be set.
KeyTypes ==
    /\ line \in Seq(Bytes) /\ pending \in Seq(Bytes) /\ stash \in Seq(Bytes)
    /\ params \in {""} \cup (Bytes \ Finals)
    /\ at \in Reading \cup {"away", "gone"}
    /\ inPaste \in BOOLEAN /\ late \in BOOLEAN /\ dropped \in BOOLEAN
    /\ expected \in Seq(Kinds) /\ decoded \in Seq(Kinds)
    /\ at = "pasteCR" => inPaste
    /\ params # "" => at \in {"csi", "probeCsi"}
    /\ at \in Probing => pending = <<>>
    /\ at \notin Probing => stash = <<>>
    /\ at \in Probing \cup {"away"} => ~inPaste

KeysInv == KeyTypes /\ (late \/ dropped \/ Decodes(After(Decoder, Phase, Rest)))

-----------------------------------------------------------------------------
(* The keys that are used. *)

LEMMA UsedRemoved ==
    ASSUME NEW s
    PROVE  Used(s) = Removed("Unknown", s)
  BY DEF Used, Removed

AllKinds == Kinds \cup {"Unknown"}

LEMMA UsedType ==
    ASSUME NEW s \in Seq(AllKinds)
    PROVE  Used(s) \in Seq(Kinds)
  <1>1. Kinds = AllKinds \ {"Unknown"}
    BY DEF Kinds, AllKinds
  <1> QED
    BY <1>1, UsedRemoved, RemovedType

LEMMA UsedOne ==
    ASSUME NEW k \in AllKinds
    PROVE  /\ <<k>> \in Seq(AllKinds)
           /\ Used(<<k>>) = IF k = "Unknown" THEN <<>> ELSE <<k>>
  <1>. DEFINE none == <<>>
  <1>1. none \in Seq(AllKinds) /\ <<k>> = Append(none, k) /\ Used(none) = none
    BY UsedRemoved, RemovedNone
  <1>. HIDE DEF none
  <1>2. Used(Append(none, k)) = IF k = "Unknown" THEN Used(none) ELSE Append(Used(none), k)
    BY <1>1, UsedRemoved, RemovedPush
  <1>3. <<k>> \in Seq(AllKinds)
    OBVIOUS
  <1> QED
    BY <1>1, <1>2, <1>3 DEF none

LEMMA UsedConcat ==
    ASSUME NEW s \in Seq(AllKinds), NEW t \in Seq(AllKinds)
    PROVE  Used(s \o t) = Used(s) \o Used(t)
  <1>1. Removed("Unknown", s \o t) = Removed("Unknown", s) \o Removed("Unknown", t)
    BY RemovedConcat
  <1> QED
    BY <1>1, UsedRemoved

-----------------------------------------------------------------------------
(* The automaton. *)

Ats == {"key", "pasteCR", "wide", "escape", "csi", "ss3", "lost"}

LEMMA StateParts ==
    ASSUME NEW q \in States
    PROVE  /\ q.at \in Ats /\ q.params \in {""} \cup Bytes /\ q.paste \in BOOLEAN
           /\ q.out \in Seq(Kinds)
           /\ q.at = "pasteCR" => q.paste
           /\ q.params # "" => q.at = "csi"
           /\ q = [at |-> q.at, params |-> q.params, paste |-> q.paste, out |-> q.out]
  BY DEF States, Ats

LEMMA GivenType ==
    ASSUME NEW q \in States, NEW k \in AllKinds
    PROVE  Given(q, k) \in States
  <1>1. Used(<<k>>) \in Seq(Kinds)
    BY UsedOne, UsedType
  <1>2. q.out \o Used(<<k>>) \in Seq(Kinds)
    BY <1>1, StateParts, Concat
  <1> QED
    BY <1>2, StateParts DEF Given, States, Ats

LEMMA WaitType ==
    ASSUME NEW q \in States, NEW w \in Ats, w = "pasteCR" => q.paste
    PROVE  Wait(q, w) \in States
  BY StateParts DEF Wait, States, Ats

LEMMA KeyMeantType ==
    ASSUME NEW i \in BOOLEAN, NEW b, NEW par
    PROVE  KeyMeant(i, b) \in AllKinds /\ CsiMeant(par, b) \in AllKinds /\ "ShiftEnter" \in AllKinds
  BY DEF KeyMeant, CsiMeant, AllKinds, Kinds

\* What a byte does: it ends a key, or more of the key is waited for, or both.
LEMMA AtKeySteps ==
    ASSUME NEW q \in States, NEW b \in Bytes
    PROVE  \/ \E k \in AllKinds : AtKey(q, b) = Given(q, k)
           \/ \E w \in Ats : AtKey(q, b) = Wait(q, w) /\ (w = "pasteCR" => q.paste)
                                                     /\ (w = "escape" => b = "esc")
  <1>1. KeyMeant(q.paste, b) \in AllKinds
    BY StateParts, KeyMeantType
  <1> QED
    BY <1>1 DEF AtKey, Ats

LEMMA Steps ==
    ASSUME NEW q \in States, NEW b \in Bytes
    PROVE  \/ \E k \in AllKinds : Stepped(q, b) = Given(q, k)
           \/ \E w \in Ats : Stepped(q, b) = Wait(q, w) /\ (w = "pasteCR" => q.paste)
                                                       /\ (w = "escape" => b = "esc")
           \/ q.at = "csi" /\ Stepped(q, b) = Got(q, b)
           \/ q.at = "pasteCR" /\ Stepped(q, b) = AtKey(Given(q, "ShiftEnter"), b)
  <1>1. CASE q.at = "key"
    BY <1>1, AtKeySteps DEF Stepped
  <1>2. CASE q.at = "pasteCR"
    BY <1>2, KeyMeantType DEF Stepped, AtPasteCR
  <1>3. CASE q.at = "wide"
    BY <1>3 DEF Stepped, AtWide, Lost, Ats, AllKinds, Kinds
  <1>4. CASE q.at = "escape"
    BY <1>4 DEF Stepped, AtEscape, Lost, Ats, AllKinds, Kinds
  <1>5. CASE q.at = "ss3"
    BY <1>5 DEF Stepped, AtSs3, Lost, Ats, AllKinds, Kinds
  <1>6. CASE q.at = "csi"
    <2>1. CsiMeant(q.params, b) \in AllKinds
      BY KeyMeantType
    <2> QED
      BY <1>6, <2>1 DEF Stepped, AtCsi, Lost, Ats
  <1>7. CASE q.at = "lost"
    BY <1>7 DEF Stepped, Lost, Ats
  <1> QED
    BY <1>1, <1>2, <1>3, <1>4, <1>5, <1>6, <1>7, StateParts DEF Ats

LEMMA SteppedType ==
    ASSUME NEW q \in States, NEW b \in Bytes
    PROVE  Stepped(q, b) \in States
  <1>1. ASSUME NEW r \in States
        PROVE  AtKey(r, b) \in States
    BY AtKeySteps, GivenType, WaitType
  <1>2. Given(q, "ShiftEnter") \in States
    BY GivenType, KeyMeantType
  <1>3. Got(q, b) \in States
    BY StateParts DEF Got, States, Ats
  <1> QED
    BY <1>1, <1>2, <1>3, Steps, GivenType, WaitType

LEMMA DecoderType ==
    /\ Decoder \in [States \X Bytes -> States]
    /\ \A q \in States, b \in Bytes : Decoder[<<q, b>>] = Stepped(q, b)
  <1>1. \A p \in States \X Bytes : Stepped(p[1], p[2]) \in States
    BY SteppedType
  <1> QED
    BY <1>1 DEF Decoder

LEMMA DecodedType ==
    ASSUME NEW q \in States, NEW s \in Seq(Bytes)
    PROVE  After(Decoder, q, s) \in States
  BY DecoderType, AfterType

LEMMA DecodedPush ==
    ASSUME NEW q \in States, NEW s \in Seq(Bytes), NEW b \in Bytes
    PROVE  After(Decoder, q, Append(s, b)) = Stepped(After(Decoder, q, s), b)
  <1>1. After(Decoder, q, Append(s, b)) = Decoder[<<After(Decoder, q, s), b>>]
    BY AfterPush
  <1> QED
    BY <1>1, DecoderType, DecodedType

LEMMA DecodedFirst ==
    ASSUME NEW q \in States, NEW s \in Seq(Bytes), NEW b \in Bytes
    PROVE  After(Decoder, q, <<b>> \o s) = After(Decoder, Stepped(q, b), s)
  <1>1. After(Decoder, q, <<b>> \o s) = After(Decoder, Decoder[<<q, b>>], s)
    BY AfterFirst
  <1> QED
    BY <1>1, DecoderType

\* The states a few bytes lead through.
LEMMA DecodedTwo ==
    ASSUME NEW q \in States, NEW a \in Bytes, NEW b \in Bytes
    PROVE  After(Decoder, q, <<a, b>>) = Stepped(Stepped(q, a), b)
  <1>1. <<a, b>> = Append(<<a>>, b) /\ <<a>> \in Seq(Bytes)
    OBVIOUS
  <1>2. After(Decoder, q, <<a>>) = Stepped(q, a)
    BY AfterOne, DecoderType
  <1> QED
    BY <1>1, <1>2, DecodedPush

LEMMA DecodedThree ==
    ASSUME NEW q \in States, NEW a \in Bytes, NEW b \in Bytes, NEW c \in Bytes
    PROVE  After(Decoder, q, <<a, b, c>>) = Stepped(Stepped(Stepped(q, a), b), c)
  <1>1. <<a, b, c>> = Append(<<a, b>>, c) /\ <<a, b>> \in Seq(Bytes)
    OBVIOUS
  <1>2. After(Decoder, q, Append(<<a, b>>, c)) = Stepped(After(Decoder, q, <<a, b>>), c)
    BY <1>1, DecodedPush
  <1> QED
    BY <1>1, <1>2, DecodedTwo

LEMMA DecodedFour ==
    ASSUME NEW q \in States, NEW a \in Bytes, NEW b \in Bytes, NEW c \in Bytes, NEW d \in Bytes
    PROVE  After(Decoder, q, <<a, b, c, d>>) = Stepped(Stepped(Stepped(Stepped(q, a), b), c), d)
  <1>1. <<a, b, c, d>> = Append(<<a, b, c>>, d) /\ <<a, b, c>> \in Seq(Bytes)
    OBVIOUS
  <1>2. After(Decoder, q, Append(<<a, b, c>>, d)) = Stepped(After(Decoder, q, <<a, b, c>>), d)
    BY <1>1, DecodedPush
  <1> QED
    BY <1>1, <1>2, DecodedThree

LEMMA DecodedConcat ==
    ASSUME NEW q \in States, NEW s \in Seq(Bytes), NEW t \in Seq(Bytes)
    PROVE  After(Decoder, q, s \o t) = After(Decoder, After(Decoder, q, s), t)
  BY AfterConcat

\* What is lost stays lost.
LEMMA StaysLost ==
    ASSUME NEW q \in States, q.at = "lost", NEW s \in Seq(Bytes)
    PROVE  After(Decoder, q, s).at = "lost"
  <1>. DEFINE P == {u \in Seq(Bytes) : After(Decoder, q, u).at = "lost"}
  <1>1. <<>> \in P
    BY AfterNone
  <1>2. ASSUME NEW u \in Seq(Bytes), NEW b \in Bytes, u \in P
        PROVE  Append(u, b) \in P
    <2>1. After(Decoder, q, Append(u, b)) = Stepped(After(Decoder, q, u), b)
      BY DecodedPush
    <2>2. After(Decoder, q, u).at = "lost"
      BY <1>2
    <2>3. Stepped(After(Decoder, q, u), b).at = "lost"
      BY <2>2 DEF Stepped, Lost, Wait
    <2> QED
      BY <2>1, <2>3
  <1>3. IsInductive(Bytes, P)
    BY <1>1, <1>2 DEF IsInductive
  <1>4. s \in P
    BY <1>3, ByLastElement
  <1> QED
    BY <1>4

\* Decoding only adds keys.
LEMMA SteppedGrows ==
    ASSUME NEW q \in States, NEW b \in Bytes
    PROVE  \E u \in Seq(Kinds) : Stepped(q, b).out = q.out \o u
  <1>1. ASSUME NEW r \in States, NEW k \in AllKinds
        PROVE  Used(<<k>>) \in Seq(Kinds) /\ Given(r, k).out = r.out \o Used(<<k>>)
    BY UsedOne, UsedType DEF Given
  <1>2. ASSUME NEW r \in States, NEW w
        PROVE  Wait(r, w).out = r.out \o <<>> /\ <<>> \in Seq(Kinds)
    <2>1. r.out \in Seq(Kinds)
      BY StateParts
    <2>2. Wait(r, w).out = r.out
      BY DEF Wait
    <2> QED
      BY <2>1, <2>2
  <1>3. ASSUME NEW r \in States
        PROVE  \E u \in Seq(Kinds) : AtKey(r, b).out = r.out \o u
    <2>1. CASE \E k \in AllKinds : AtKey(r, b) = Given(r, k)
      BY <1>1, <2>1
    <2>2. CASE \E w \in Ats : AtKey(r, b) = Wait(r, w)
      BY <1>2, <2>2
    <2> QED
      BY <2>1, <2>2, AtKeySteps
  <1>4. CASE q.at = "pasteCR" /\ Stepped(q, b) = AtKey(Given(q, "ShiftEnter"), b)
    <2>. DEFINE r == Given(q, "ShiftEnter")
                x == q.out
                y == Used(<<"ShiftEnter">>)
    <2>1. r \in States /\ y \in Seq(Kinds) /\ r.out = x \o y /\ x \in Seq(Kinds)
      BY <1>1, GivenType, KeyMeantType, StateParts
    <2>2. Stepped(q, b) = AtKey(r, b)
      BY <1>4
    <2>. HIDE DEF r, x, y
    <2>3. PICK z \in Seq(Kinds) : AtKey(r, b).out = r.out \o z
      BY <1>3, <2>1
    <2>4. (x \o y) \o z = x \o (y \o z) /\ y \o z \in Seq(Kinds)
      BY <2>1
    <2>5. Stepped(q, b).out = x \o (y \o z)
      BY <2>1, <2>2, <2>3, <2>4
    <2> QED
      BY <2>4, <2>5 DEF x
  <1>5. CASE q.at = "csi" /\ Stepped(q, b) = Got(q, b)
    <2>1. q.out \in Seq(Kinds)
      BY StateParts
    <2>2. Got(q, b).out = q.out
      BY DEF Got
    <2>3. q.out = q.out \o <<>> /\ <<>> \in Seq(Kinds)
      BY <2>1
    <2> QED
      BY <1>5, <2>2, <2>3
  <1>6. CASE \E k \in AllKinds : Stepped(q, b) = Given(q, k)
    BY <1>1, <1>6
  <1>7. CASE \E w \in Ats : Stepped(q, b) = Wait(q, w)
    BY <1>2, <1>7
  <1> QED
    BY <1>4, <1>5, <1>6, <1>7, Steps

LEMMA DecodedGrows ==
    ASSUME NEW q \in States, NEW s \in Seq(Bytes)
    PROVE  \E u \in Seq(Kinds) : After(Decoder, q, s).out = q.out \o u
  <1>. DEFINE P == {v \in Seq(Bytes) : \E u \in Seq(Kinds) : After(Decoder, q, v).out = q.out \o u}
  <1>0. q.out \in Seq(Kinds)
    BY StateParts
  <1>1. <<>> \in P
    <2>1. <<>> \in Seq(Kinds) /\ <<>> \in Seq(Bytes) /\ q.out = q.out \o <<>>
      BY <1>0
    <2> QED
      BY <2>1, AfterNone
  <1>2. ASSUME NEW v \in Seq(Bytes), NEW b \in Bytes, v \in P
        PROVE  Append(v, b) \in P
    <2>1. After(Decoder, q, Append(v, b)) = Stepped(After(Decoder, q, v), b)
      BY DecodedPush
    <2>2. PICK u \in Seq(Kinds) : After(Decoder, q, v).out = q.out \o u
      BY <1>2
    <2>3. After(Decoder, q, v) \in States
      BY DecodedType
    <2>4. PICK w \in Seq(Kinds) : Stepped(After(Decoder, q, v), b).out = After(Decoder, q, v).out \o w
      BY <2>3, SteppedGrows
    <2>5. (q.out \o u) \o w = q.out \o (u \o w) /\ u \o w \in Seq(Kinds) /\ Append(v, b) \in Seq(Bytes)
      <3>. DEFINE x == q.out
      <3>1. x \in Seq(Kinds) /\ Append(v, b) \in Seq(Bytes)
        BY <1>0
      <3>. HIDE DEF x
      <3>2. (x \o u) \o w = x \o (u \o w) /\ u \o w \in Seq(Kinds)
        BY <3>1
      <3> QED
        BY <3>1, <3>2 DEF x
    <2> QED
      BY <2>1, <2>2, <2>4, <2>5
  <1>3. IsInductive(Bytes, P)
    BY <1>1, <1>2 DEF IsInductive
  <1>4. s \in P
    BY <1>3, ByLastElement
  <1> QED
    BY <1>4

\* It waits behind an Escape when that was the last byte, or it did from the start.
LEMMA EscapeLast ==
    ASSUME NEW q \in States, NEW s \in Seq(Bytes), After(Decoder, q, s).at = "escape"
    PROVE  \/ s = <<>> /\ q.at = "escape"
           \/ s # <<>> /\ Last(s) = "esc"
  <1>1. CASE Len(s) = 0
    <2>1. s = <<>>
      BY <1>1
    <2> QED
      BY <2>1, AfterNone
  <1>2. CASE Len(s) # 0
    <2>1. HasLast(Bytes, s)
      BY <1>2, LastElement
    <2>2. PICK v \in Seq(Bytes), b \in Bytes : s = Append(v, b)
      BY <2>1 DEF HasLast
    <2>3. s # <<>> /\ Last(s) = b
      BY <2>2 DEF Last
    <2>. DEFINE r == After(Decoder, q, v)
    <2>4. r \in States /\ Stepped(r, b).at = "escape"
      BY <2>2, DecodedPush, DecodedType
    <2>. HIDE DEF r
    <2>5. b = "esc"
      <3>1. ASSUME NEW k
            PROVE  Given(r, k).at = "key"
        BY DEF Given
      <3>2. ASSUME NEW x, NEW w
            PROVE  Wait(x, w).at = w
        BY DEF Wait
      <3>3. Got(r, b).at = "csi"
        BY DEF Got
      <3>4. CASE r.at = "pasteCR" /\ Stepped(r, b) = AtKey(Given(r, "ShiftEnter"), b)
        <4>1. Given(r, "ShiftEnter") \in States
          BY <2>4, GivenType, KeyMeantType
        <4>3. AtKey(Given(r, "ShiftEnter"), b).at = "escape"
          BY <2>4, <3>4
        <4>2. ASSUME NEW x, NEW k
              PROVE  Given(x, k).at = "key"
          BY DEF Given
        <4> QED
          BY <3>2, <4>1, <4>2, <4>3, AtKeySteps
      <3> QED
        BY <2>4, <3>1, <3>2, <3>3, <3>4, Steps
    <2> QED
      BY <2>3, <2>5
  <1> QED
    BY <1>1, <1>2

-----------------------------------------------------------------------------
(* What a terminal sends, decoded. *)

\* The steps of the bytes that a terminal sends.
LEMMA StepsAtKey ==
    ASSUME NEW q, q.at = "key"
    PROVE  /\ Stepped(q, "esc") = Wait(q, "escape")
           /\ Stepped(q, "lead") = Wait(q, "wide")
           /\ Stepped(q, "x") = Given(q, "Char")
           /\ Stepped(q, "etx") = Given(q, "CtrlC")
           /\ Stepped(q, "bel") = Given(q, "Unknown")
           /\ ~q.paste => Stepped(q, "cr") = Given(q, "Enter")
           /\ q.paste => Stepped(q, "nl") = Given(q, "ShiftEnter") /\ Stepped(q, "cr") = Wait(q, "pasteCR")
  <1>1. \A b : Stepped(q, b) = AtKey(q, b)
    BY DEF Stepped
  <1> QED
    BY <1>1 DEF AtKey, KeyMeant, Inks, Finals

LEMMA StepsInKey ==
    ASSUME NEW q
    PROVE  /\ q.at = "wide" => Stepped(q, "more") = Given(q, "Char")
           /\ q.at = "ss3" => Stepped(q, "A") = Given(q, "Up")
           /\ q.at = "escape" => /\ Stepped(q, "[") = Wait(q, "csi")
                                 /\ Stepped(q, "O") = Wait(q, "ss3")
                                 /\ Stepped(q, "cr") = Given(q, "ShiftEnter")
  BY DEF Stepped, AtWide, AtSs3, AtEscape

LEMMA StepsInSequence ==
    ASSUME NEW q, q.at = "csi"
    PROVE  /\ q.params = "" => \A par \in Inks \ Finals : Stepped(q, par) = Got(q, par)
           /\ ~(q.params = "?" /\ q.paste) =>
                 \A fin \in Finals : Stepped(q, fin) = Given(q, CsiMeant(q.params, fin))
  BY DEF Stepped, AtCsi

At(w, i, o) == [at |-> w, params |-> "", paste |-> i, out |-> o]

LEMMA AtPlace ==
    ASSUME NEW w, NEW i \in BOOLEAN, NEW o
    PROVE  At(w, i, o).at = w
  BY DEF At

LEMMA AtParams ==
    ASSUME NEW w, NEW i \in BOOLEAN, NEW o
    PROVE  At(w, i, o).params = ""
  BY DEF At

LEMMA AtPaste ==
    ASSUME NEW w, NEW i \in BOOLEAN, NEW o
    PROVE  At(w, i, o).paste = i
  BY DEF At

LEMMA AtOut ==
    ASSUME NEW w, NEW i \in BOOLEAN, NEW o
    PROVE  At(w, i, o).out = o
  BY DEF At

LEMMA AtWaits ==
    ASSUME NEW w, NEW i \in BOOLEAN, NEW o, NEW v
    PROVE  Wait(At(w, i, o), v) = At(v, i, o)
  BY DEF At, Wait

LEMMA AtGiven ==
    ASSUME NEW w, NEW i \in BOOLEAN, NEW o, NEW k
    PROVE  Given(At(w, i, o), k) = Given(At("key", i, o), k)
  BY DEF At, Given

LEMMA AtType ==
    ASSUME NEW w \in Ats, NEW i \in BOOLEAN, NEW o \in Seq(Kinds), w = "pasteCR" => i
    PROVE  At(w, i, o) \in States
  BY DEF At, States, Ats

\* An Escape and an opening bracket.
LEMMA SequenceOpens ==
    ASSUME NEW i \in BOOLEAN, NEW o \in Seq(Kinds)
    PROVE  /\ Stepped(At("key", i, o), "esc") = At("escape", i, o)
           /\ Stepped(At("escape", i, o), "[") = At("csi", i, o)
  <1>1. Stepped(At("key", i, o), "esc") = Wait(At("key", i, o), "escape")
    BY AtPlace, AtParams, AtPaste, StepsAtKey
  <1>2. Stepped(At("escape", i, o), "[") = Wait(At("escape", i, o), "csi")
    BY AtPlace, AtParams, AtPaste, StepsInKey
  <1> QED
    BY <1>1, <1>2, AtWaits

\* A key with a parameter, which is one of those the decoder tells apart.
LEMMA SequenceDecoded ==
    ASSUME NEW i \in BOOLEAN, NEW o \in Seq(Kinds), NEW par \in Inks \ Finals, NEW fin \in Finals,
           par = "?" => ~i
    PROVE  /\ <<"esc", "[", par, fin>> \in Seq(Bytes)
           /\ After(Decoder, At("key", i, o), <<"esc", "[", par, fin>>)
                = Given(At("key", i, o), CsiMeant(par, fin))
  <1>. DEFINE q == At("key", i, o)
              s == At("csi", i, o)
              r == Got(s, par)
  <1>1. q \in States
    BY AtType DEF Ats
  <1>2. "esc" \in Bytes /\ "[" \in Bytes /\ par \in Bytes /\ fin \in Bytes
    BY DEF Bytes, Inks, Finals
  <1>3. Stepped(Stepped(q, "esc"), "[") = s
    BY SequenceOpens
  <1>4. /\ s.at = "csi"
        /\ s.params = ""
        /\ s.paste = i
    <2>1. s.at = "csi"
      BY AtPlace
    <2>2. s.params = ""
      BY AtParams
    <2>3. s.paste = i
      BY AtPaste
    <2> QED
      BY <2>1, <2>2, <2>3
  <1>5. Given(s, CsiMeant(par, fin)) = Given(q, CsiMeant(par, fin))
    BY AtGiven
  <1>. HIDE DEF q, s
  <1>6. After(Decoder, q, <<"esc", "[", par, fin>>)
          = Stepped(Stepped(Stepped(Stepped(q, "esc"), "["), par), fin)
    BY <1>1, <1>2, DecodedFour
  <1>7. Stepped(s, par) = r
    BY <1>4, StepsInSequence
  <1>8. r.at = "csi" /\ r.params = par /\ r.paste = i
    BY <1>4 DEF Got
  <1>9. Given(r, CsiMeant(par, fin)) = Given(s, CsiMeant(par, fin))
    BY DEF Got, Given
  <1>. HIDE DEF r
  <1>10. Stepped(r, fin) = Given(r, CsiMeant(par, fin))
    BY <1>8, StepsInSequence
  <1>11. <<"esc", "[", par, fin>> \in Seq(Bytes)
    BY <1>2
  <1> QED
    BY <1>3, <1>5, <1>6, <1>7, <1>9, <1>10, <1>11 DEF q

\* The key k is returned, and the decoder waits for the next one.
LEMMA GivenSettles ==
    ASSUME NEW o \in Seq(Kinds), NEW k \in AllKinds, k # "PasteStart"
    PROVE  /\ Settled(Given(At("key", FALSE, o), k))
           /\ Given(At("key", FALSE, o), k).out = o \o Used(<<k>>)
  BY DEF Given, At, Settled

\* A key that is pressed when the decoder waits for one.
LEMMA KeyDecoded ==
    ASSUME NEW o \in Seq(Kinds), NEW k \in Keys
    PROVE  /\ Sent[k] \in Seq(Bytes) /\ Meant[k] \in AllKinds
           /\ Settled(After(Decoder, At("key", FALSE, o), Sent[k]))
           /\ After(Decoder, At("key", FALSE, o), Sent[k]).out = o \o Used(<<Meant[k]>>)
  <1>. DEFINE q == At("key", FALSE, o)
              Right(bytes, kind) == /\ bytes \in Seq(Bytes) /\ kind \in AllKinds
                                    /\ Settled(After(Decoder, q, bytes))
                                    /\ After(Decoder, q, bytes).out = o \o Used(<<kind>>)
  <1>1. q \in States /\ q.at = "key" /\ q.paste = FALSE
    BY AtType, AtPlace, AtParams, AtPaste DEF Ats
  <1>2. /\ "x" \in Bytes /\ "lead" \in Bytes /\ "more" \in Bytes /\ "cr" \in Bytes /\ "etx" \in Bytes
        /\ "esc" \in Bytes /\ "[" \in Bytes /\ "O" \in Bytes /\ "A" \in Bytes
    BY DEF Bytes, Inks, Finals
  <1>3. /\ "Char" \in AllKinds /\ "Enter" \in AllKinds /\ "CtrlC" \in AllKinds /\ "Up" \in AllKinds
        /\ "ShiftEnter" \in AllKinds /\ "Unknown" \in AllKinds
    BY DEF AllKinds, Kinds
  <1>4. ASSUME NEW w
        PROVE  At(w, FALSE, o).at = w /\ Wait(q, w) = At(w, FALSE, o)
    <2>1. At(w, FALSE, o).at = w
      BY AtPlace
    <2>2. Wait(q, w) = At(w, FALSE, o)
      BY AtWaits
    <2> QED
      BY <2>1, <2>2
  <1>5. ASSUME NEW kind \in AllKinds, kind # "PasteStart"
        PROVE  /\ Settled(Given(q, kind)) /\ Given(q, kind).out = o \o Used(<<kind>>)
               /\ \A w : Given(At(w, FALSE, o), kind) = Given(q, kind)
    <2>1. Settled(Given(q, kind)) /\ Given(q, kind).out = o \o Used(<<kind>>)
      BY <1>5, GivenSettles
    <2>2. ASSUME NEW w
          PROVE  Given(At(w, FALSE, o), kind) = Given(q, kind)
      BY DEF At, Given
    <2> QED
      BY <2>1, <2>2
  <1>6. At("escape", FALSE, o).at = "escape" /\ At("csi", FALSE, o).params = ""
    BY AtPlace, AtParams, AtPaste
  <1>7. Settled(At("escape", FALSE, o)) /\ At("escape", FALSE, o).out = o
    BY DEF Settled, At
  <1>8. Stepped(q, "esc") = At("escape", FALSE, o) /\ Stepped(At("escape", FALSE, o), "[") = At("csi", FALSE, o)
    BY SequenceOpens
  <1>9. /\ Stepped(q, "x") = Given(q, "Char") /\ Stepped(q, "cr") = Given(q, "Enter")
        /\ Stepped(q, "etx") = Given(q, "CtrlC") /\ Stepped(q, "lead") = At("wide", FALSE, o)
    BY <1>1, <1>4, StepsAtKey
  <1>10. /\ Stepped(At("wide", FALSE, o), "more") = Given(q, "Char")
         /\ Stepped(At("escape", FALSE, o), "cr") = Given(q, "ShiftEnter")
         /\ Stepped(At("ss3", FALSE, o), "A") = Given(q, "Up")
    <2>1. Stepped(At("wide", FALSE, o), "more") = Given(At("wide", FALSE, o), "Char")
      BY <1>4, StepsInKey
    <2>2. Stepped(At("escape", FALSE, o), "cr") = Given(At("escape", FALSE, o), "ShiftEnter")
      BY <1>4, StepsInKey
    <2>3. Stepped(At("ss3", FALSE, o), "A") = Given(At("ss3", FALSE, o), "Up")
      BY <1>4, StepsInKey
    <2> QED
      BY <1>3, <1>5, <2>1, <2>2, <2>3
  <1>11. Stepped(At("escape", FALSE, o), "O") = At("ss3", FALSE, o)
    <2>1. Stepped(At("escape", FALSE, o), "O") = Wait(At("escape", FALSE, o), "ss3")
      BY <1>4, StepsInKey
    <2> QED
      BY <2>1, AtWaits
  <1>12. Stepped(At("csi", FALSE, o), "A") = Given(q, "Up")
    <2>1. Stepped(At("csi", FALSE, o), "A") = Given(At("csi", FALSE, o), CsiMeant("", "A"))
      BY <1>4, <1>6, StepsInSequence DEF Finals
    <2> QED
      BY <1>3, <1>5, <2>1 DEF CsiMeant
  <1>13. \A par \in {"13;2", "2"}, fin \in {"u", "~"} :
           /\ <<"esc", "[", par, fin>> \in Seq(Bytes)
           /\ After(Decoder, q, <<"esc", "[", par, fin>>) = Given(q, CsiMeant(par, fin))
    <2>1. ASSUME NEW par \in {"13;2", "2"}, NEW fin \in {"u", "~"}
          PROVE  par \in Inks \ Finals /\ fin \in Finals /\ par # "?" /\ FALSE \in BOOLEAN
      BY DEF Inks, Finals
    <2> QED
      BY <2>1, SequenceDecoded
  <1>. HIDE DEF q
  <1>14. ASSUME NEW kind \in AllKinds, kind # "PasteStart", NEW bytes \in Seq(Bytes),
                After(Decoder, q, bytes) = Given(q, kind)
         PROVE  Right(bytes, kind)
    BY <1>5, <1>14
  <1>15. ASSUME NEW b \in Bytes
         PROVE  After(Decoder, q, <<b>>) = Stepped(q, b) /\ <<b>> \in Seq(Bytes)
    <2>1. After(Decoder, q, <<b>>) = Decoder[<<q, b>>]
      BY AfterOne
    <2>2. Decoder[<<q, b>>] = Stepped(q, b)
      BY <1>1, DecoderType
    <2> QED
      BY <2>1, <2>2
  <1>16. Right(<<"x">>, "Char")
    BY <1>2, <1>3, <1>9, <1>14, <1>15
  <1>17. Right(<<"lead", "more">>, "Char")
    <2>1. After(Decoder, q, <<"lead", "more">>) = Stepped(Stepped(q, "lead"), "more")
      BY <1>1, <1>2, DecodedTwo
    <2>2. <<"lead", "more">> \in Seq(Bytes)
      BY <1>2
    <2> QED
      BY <1>3, <1>9, <1>10, <1>14, <2>1, <2>2
  <1>18. Right(<<"cr">>, "Enter") /\ Right(<<"etx">>, "CtrlC")
    BY <1>2, <1>3, <1>9, <1>14, <1>15
  <1>19. Right(<<"esc", "[", "A">>, "Up")
    <2>1. After(Decoder, q, <<"esc", "[", "A">>) = Stepped(Stepped(Stepped(q, "esc"), "["), "A")
      BY <1>1, <1>2, DecodedThree
    <2>2. <<"esc", "[", "A">> \in Seq(Bytes)
      BY <1>2
    <2> QED
      BY <1>3, <1>8, <1>12, <1>14, <2>1, <2>2
  <1>20. Right(<<"esc", "O", "A">>, "Up")
    <2>1. After(Decoder, q, <<"esc", "O", "A">>) = Stepped(Stepped(Stepped(q, "esc"), "O"), "A")
      BY <1>1, <1>2, DecodedThree
    <2>2. <<"esc", "O", "A">> \in Seq(Bytes)
      BY <1>2
    <2> QED
      BY <1>3, <1>8, <1>11, <1>10, <1>14, <2>1, <2>2
  <1>21. Right(<<"esc", "cr">>, "ShiftEnter")
    <2>1. After(Decoder, q, <<"esc", "cr">>) = Stepped(Stepped(q, "esc"), "cr")
      BY <1>1, <1>2, DecodedTwo
    <2>2. <<"esc", "cr">> \in Seq(Bytes)
      BY <1>2
    <2> QED
      BY <1>3, <1>8, <1>10, <1>14, <2>1, <2>2
  <1>22. Right(<<"esc", "[", "13;2", "u">>, "ShiftEnter") /\ Right(<<"esc", "[", "2", "~">>, "Unknown")
    <2>1. CsiMeant("13;2", "u") = "ShiftEnter" /\ CsiMeant("2", "~") = "Unknown"
      BY DEF CsiMeant
    <2> QED
      BY <1>3, <1>13, <1>14, <2>1
  <1>23. Right(<<"esc">>, "Unknown")
    <2>1. Used(<<"Unknown">>) = <<>> /\ o \o <<>> = o
      BY <1>3, UsedOne
    <2> QED
      BY <1>2, <1>3, <1>7, <1>8, <1>15, <2>1
  <1>24. k \in {"char", "wide", "enter", "ctrlC", "up", "ss3Up", "altEnter", "shiftEnter", "escape", "insert"}
    BY KeysAssumption DEF Sent
  <1>25. Right(Sent[k], Meant[k])
    <2>1. /\ Sent["char"] = <<"x">> /\ Sent["wide"] = <<"lead", "more">> /\ Sent["enter"] = <<"cr">>
          /\ Sent["ctrlC"] = <<"etx">> /\ Sent["up"] = <<"esc", "[", "A">>
          /\ Sent["ss3Up"] = <<"esc", "O", "A">> /\ Sent["altEnter"] = <<"esc", "cr">>
          /\ Sent["shiftEnter"] = <<"esc", "[", "13;2", "u">> /\ Sent["escape"] = <<"esc">>
          /\ Sent["insert"] = <<"esc", "[", "2", "~">>
      BY DEF Sent
    <2>2. /\ Meant["char"] = "Char" /\ Meant["wide"] = "Char" /\ Meant["enter"] = "Enter"
          /\ Meant["ctrlC"] = "CtrlC" /\ Meant["up"] = "Up" /\ Meant["ss3Up"] = "Up"
          /\ Meant["altEnter"] = "ShiftEnter" /\ Meant["shiftEnter"] = "ShiftEnter"
          /\ Meant["escape"] = "Unknown" /\ Meant["insert"] = "Unknown"
      BY DEF Meant
    <2>. HIDE DEF Right
    <2> QED
      BY <1>16, <1>17, <1>18, <1>19, <1>20, <1>21, <1>22, <1>23, <1>24, <2>1, <2>2
  <1> QED
    BY <1>25 DEF q

\* The keys that leave the decoder where it is.
LEMMA GivenIs ==
    ASSUME NEW i \in BOOLEAN, NEW o \in Seq(Kinds), NEW k \in AllKinds,
           NEW j \in BOOLEAN, j = (k = "PasteStart" \/ (i /\ k \notin {"PasteEnd", "Enter", "CtrlC"}))
    PROVE  Given(At("key", i, o), k) = At("key", j, o \o Used(<<k>>))
  BY DEF Given, At

\* The answers to the probe are no keys.
LEMMA AnswerDecoded ==
    ASSUME NEW o \in Seq(Kinds), NEW fin \in {"u", "c"}
    PROVE  /\ <<"esc", "[", "?", fin>> \in Seq(Bytes)
           /\ After(Decoder, At("key", FALSE, o), <<"esc", "[", "?", fin>>) = At("key", FALSE, o)
  <1>1. "?" \in Inks \ Finals /\ fin \in Finals /\ FALSE \in BOOLEAN
    BY DEF Inks, Finals
  <1>2. CsiMeant("?", fin) = "Unknown" /\ "Unknown" \in AllKinds
    BY DEF CsiMeant, AllKinds
  <1>3. Used(<<"Unknown">>) = <<>> /\ o \o <<>> = o
    BY <1>2, UsedOne
  <1>4. Given(At("key", FALSE, o), "Unknown") = At("key", FALSE, o \o Used(<<"Unknown">>))
    BY <1>2, GivenIs
  <1>5. /\ <<"esc", "[", "?", fin>> \in Seq(Bytes)
        /\ After(Decoder, At("key", FALSE, o), <<"esc", "[", "?", fin>>)
             = Given(At("key", FALSE, o), CsiMeant("?", fin))
    BY <1>1, SequenceDecoded
  <1> QED
    BY <1>2, <1>3, <1>4, <1>5

-----------------------------------------------------------------------------
(* What is pasted, decoded. *)

Pieces == DOMAIN PieceBytes
Extending == [t \in Seq(Bytes) \X Pieces |-> t[1] \o PieceBytes[t[2]]]

LEMMA PieceTypes ==
    ASSUME NEW x \in Pieces
    PROVE  PieceBytes[x] \in Seq(Bytes) /\ PieceMeant[x] \in AllKinds
  <1>1. x \in {"text", "wide", "unix", "mac", "dos", "control"}
    BY DEF Pieces, PieceBytes
  <1>2. /\ <<"x">> \in Seq(Bytes) /\ <<"lead", "more">> \in Seq(Bytes) /\ <<"nl">> \in Seq(Bytes)
        /\ <<"cr">> \in Seq(Bytes) /\ <<"cr", "nl">> \in Seq(Bytes) /\ <<"bel">> \in Seq(Bytes)
    BY DEF Bytes
  <1>3. PieceBytes[x] \in {<<"x">>, <<"lead", "more">>, <<"nl">>, <<"cr">>, <<"cr", "nl">>, <<"bel">>}
    BY <1>1 DEF PieceBytes
  <1>4. PieceMeant[x] \in {"Char", "ShiftEnter", "Unknown"}
    BY <1>1 DEF PieceMeant
  <1> QED
    BY <1>2, <1>3, <1>4 DEF AllKinds, Kinds

LEMMA ExtendingType ==
    /\ StaysIn(Pieces, Seq(Bytes), Extending, <<>>)
    /\ \A t \in Seq(Bytes), x \in Pieces :
          Extending[<<t, x>>] = t \o PieceBytes[x] /\ t \o PieceBytes[x] \in Seq(Bytes)
  <1>1. ASSUME NEW t \in Seq(Bytes), NEW x \in Pieces
        PROVE  t \o PieceBytes[x] \in Seq(Bytes)
    BY PieceTypes, Concat
  <1>2. \A t \in Seq(Bytes) \X Pieces : t[1] \o PieceBytes[t[2]] \in Seq(Bytes)
    <2>1. ASSUME NEW t \in Seq(Bytes) \X Pieces
          PROVE  t[1] \in Seq(Bytes) /\ t[2] \in Pieces
      OBVIOUS
    <2> QED
      BY <1>1, <2>1
  <1>3. <<>> \in Seq(Bytes)
    OBVIOUS
  <1> QED
    BY <1>1, <1>2, <1>3 DEF Extending, StaysIn

\* The fold of PasteBody takes the pieces one by one.
LEMMA BodyAfter ==
    ASSUME NEW p \in Seq(Pieces)
    PROVE  PasteBody(p) = After(Extending, <<>>, p)
  <1>. DEFINE n == Len(p)
              Is(f) == f = [T \in SUBSET (DOMAIN p) |->
                               IF T = {} THEN <<>> ELSE f[T \ {Max(T)}] \o PieceBytes[p[Max(T)]]]
              f == CHOOSE f : Is(f)
  <1>1. PasteBody(p) = f[DOMAIN p]
    BY DEF PasteBody, FoldLeft, MapThenFoldSet
  <1>2. n \in Nat /\ DOMAIN p = 1..n /\ n \in 0..n /\ \A k \in 1..n : p[k] \in Pieces
    OBVIOUS
  <1>3. PICK g \in [SUBSET (1..n) -> Seq(Bytes)] : IsLeftFold(Extending, <<>>, p, 1..n, g)
    BY <1>2, ExtendingType, LeftFoldExists
  <1>. HIDE DEF n
  <1>4. Is(g)
    <2>1. ASSUME NEW T \in SUBSET (1..n)
          PROVE  g[T] = IF T = {} THEN <<>> ELSE g[T \ {Max(T)}] \o PieceBytes[p[Max(T)]]
      <3>1. g[T] = IF T = {} THEN <<>> ELSE Extending[<<g[T \ {Max(T)}], p[Max(T)]>>]
        BY <1>3 DEF IsLeftFold
      <3>2. ASSUME T # {}
            PROVE  g[T \ {Max(T)}] \in Seq(Bytes) /\ p[Max(T)] \in Pieces
        <4>1. Max(T) \in 1..n
          BY <1>2, <3>2, MaxOf
        <4>2. T \ {Max(T)} \in SUBSET (1..n)
          OBVIOUS
        <4> QED
          BY <1>2, <1>3, <4>1, <4>2
      <3> QED
        BY <3>1, <3>2, ExtendingType
    <2>2. g = [T \in SUBSET (1..n) |-> g[T]]
      BY <1>3
    <2> QED
      BY <1>2, <2>1, <2>2
  <1>5. Is(f)
    BY <1>4
  <1>. HIDE DEF f
  <1>6. f[{}] = <<>>
    BY <1>5
  <1>7. ASSUME NEW k \in 1..n, f[1..(k - 1)] \in Seq(Bytes)
        PROVE  f[1..k] = Extending[<<f[1..(k - 1)], p[k]>>]
    <2>1. 1..k \in SUBSET (1..n) /\ 1..k # {} /\ Max(1..k) = k /\ (1..k) \ {k} = 1..(k - 1)
      BY <1>2, FirstPlaces
    <2>2. f[1..k] = f[1..(k - 1)] \o PieceBytes[p[k]]
      BY <1>2, <1>5, <2>1
    <2> QED
      BY <1>2, <1>7, <2>2, ExtendingType
  <1>8. f[1..n] = After(Extending, <<>>, p)
    <2>1. IsLeftRun(Extending, <<>>, Seq(Bytes), p, f)
      BY <1>6, <1>7 DEF n, IsLeftRun
    <2>2. f[1..Len(p)] = After(Extending, <<>>, p)
      BY <2>1, ExtendingType, LeftFoldIs
    <2> QED
      BY <2>2 DEF n
  <1> QED
    BY <1>1, <1>2, <1>8

LEMMA BodyNone == PasteBody(<<>>) = <<>>
  <1>1. <<>> \in Seq(Pieces)
    OBVIOUS
  <1> QED
    BY <1>1, BodyAfter, AfterNone

LEMMA BodyType ==
    ASSUME NEW p \in Seq(Pieces)
    PROVE  PasteBody(p) \in Seq(Bytes)
  <1>1. After(Extending, <<>>, p) \in Seq(Bytes)
    BY ExtendingType, AfterType DEF StaysIn
  <1> QED
    BY <1>1, BodyAfter

LEMMA BodyPush ==
    ASSUME NEW p \in Seq(Pieces), NEW x \in Pieces
    PROVE  PasteBody(Append(p, x)) = PasteBody(p) \o PieceBytes[x]
  <1>1. Append(p, x) \in Seq(Pieces)
    OBVIOUS
  <1>2. PasteBody(Append(p, x)) = After(Extending, <<>>, Append(p, x))
    BY <1>1, BodyAfter
  <1>3. After(Extending, <<>>, Append(p, x)) = Extending[<<After(Extending, <<>>, p), x>>]
    BY AfterPush
  <1>4. PasteBody(p) = After(Extending, <<>>, p) /\ PasteBody(p) \in Seq(Bytes)
    BY BodyAfter, BodyType
  <1>5. Extending[<<PasteBody(p), x>>] = PasteBody(p) \o PieceBytes[x]
    BY <1>4, ExtendingType
  <1> QED
    BY <1>2, <1>3, <1>4, <1>5

\* A piece that is pasted when the decoder waits for a key.
LEMMA PieceDecoded ==
    ASSUME NEW o \in Seq(Kinds), NEW x \in Pieces
    PROVE  After(Decoder, At("key", TRUE, o), PieceBytes[x]) =
              IF x = "mac" THEN At("pasteCR", TRUE, o) ELSE At("key", TRUE, o \o Used(<<PieceMeant[x]>>))
  <1>. DEFINE q == At("key", TRUE, o)
              r == At("pasteCR", TRUE, o)
              w == At("wide", TRUE, o)
  <1>1. q \in States /\ q.at = "key"
    BY AtType, AtPlace DEF Ats
  <1>2. q.paste = TRUE
    BY AtPaste
  <1>3. r.at = "pasteCR"
    BY AtPlace
  <1>4. w.at = "wide"
    BY AtPlace
  <1>5. /\ Wait(q, "pasteCR") = r
        /\ Wait(q, "wide") = w
    BY AtWaits
  <1>6. ASSUME NEW k \in {"Char", "ShiftEnter", "Unknown"}
        PROVE  Given(q, k) = At("key", TRUE, o \o Used(<<k>>))
    BY GivenIs DEF AllKinds, Kinds
  <1>7. ASSUME NEW k
        PROVE  /\ Given(r, k) = Given(q, k)
               /\ Given(w, k) = Given(q, k)
    BY DEF At, Given
  <1>. HIDE DEF q, r, w
  <1>8. "x" \in Bytes /\ "lead" \in Bytes /\ "more" \in Bytes /\ "nl" \in Bytes /\ "cr" \in Bytes /\ "bel" \in Bytes
    BY DEF Bytes
  <1>9. ASSUME NEW b \in Bytes
        PROVE  After(Decoder, q, <<b>>) = Stepped(q, b)
    <2>1. After(Decoder, q, <<b>>) = Decoder[<<q, b>>]
      BY AfterOne
    <2> QED
      BY <1>1, <2>1, DecoderType
  <1>10. /\ Stepped(q, "x") = Given(q, "Char")
         /\ Stepped(q, "lead") = w
         /\ Stepped(q, "bel") = Given(q, "Unknown")
         /\ Stepped(q, "nl") = Given(q, "ShiftEnter")
         /\ Stepped(q, "cr") = r
    BY <1>1, <1>2, <1>5, StepsAtKey
  <1>11. Stepped(w, "more") = Given(q, "Char")
    BY <1>4, <1>7, StepsInKey
  <1>12. Stepped(r, "nl") = Given(q, "ShiftEnter")
    BY <1>3, <1>7 DEF Stepped, AtPasteCR
  <1>13. After(Decoder, q, <<"lead", "more">>) = Given(q, "Char")
    <2>1. After(Decoder, q, <<"lead", "more">>) = Stepped(Stepped(q, "lead"), "more")
      BY <1>1, <1>8, DecodedTwo
    <2> QED
      BY <1>10, <1>11, <2>1
  <1>14. After(Decoder, q, <<"cr", "nl">>) = Given(q, "ShiftEnter")
    <2>1. After(Decoder, q, <<"cr", "nl">>) = Stepped(Stepped(q, "cr"), "nl")
      BY <1>1, <1>8, DecodedTwo
    <2> QED
      BY <1>10, <1>12, <2>1
  <1>15. x \in {"text", "wide", "unix", "mac", "dos", "control"}
    BY DEF Pieces, PieceBytes
  <1>16. /\ PieceBytes["text"] = <<"x">> /\ PieceBytes["wide"] = <<"lead", "more">>
         /\ PieceBytes["unix"] = <<"nl">> /\ PieceBytes["mac"] = <<"cr">>
         /\ PieceBytes["dos"] = <<"cr", "nl">> /\ PieceBytes["control"] = <<"bel">>
    BY DEF PieceBytes
  <1>17. /\ PieceMeant["text"] = "Char" /\ PieceMeant["wide"] = "Char"
         /\ PieceMeant["unix"] = "ShiftEnter" /\ PieceMeant["dos"] = "ShiftEnter"
         /\ PieceMeant["control"] = "Unknown"
    BY DEF PieceMeant
  <1>18. CASE x = "mac"
    BY <1>8, <1>9, <1>10, <1>16, <1>18 DEF q, r
  <1>19. CASE x \in {"text", "unix", "control"}
    <2>1. After(Decoder, q, PieceBytes[x]) = Given(q, PieceMeant[x])
      BY <1>8, <1>9, <1>10, <1>16, <1>17, <1>19
    <2> QED
      BY <1>6, <1>17, <1>19, <2>1 DEF q
  <1>20. CASE x \in {"wide", "dos"}
    <2>1. After(Decoder, q, PieceBytes[x]) = Given(q, PieceMeant[x])
      BY <1>13, <1>14, <1>16, <1>17, <1>20
    <2> QED
      BY <1>6, <1>17, <1>20, <2>1 DEF q
  <1> QED
    BY <1>15, <1>18, <1>19, <1>20

\* After a carriage return, whatever is no line feed finds the line end decoded.
LEMMA ReturnDecoded ==
    ASSUME NEW o \in Seq(Kinds), NEW b \in Bytes, b # "nl", NEW s \in Seq(Bytes)
    PROVE  After(Decoder, At("pasteCR", TRUE, o), <<b>> \o s)
             = After(Decoder, At("key", TRUE, o \o <<"ShiftEnter">>), <<b>> \o s)
  <1>. DEFINE r == At("pasteCR", TRUE, o)
              t == At("key", TRUE, o \o <<"ShiftEnter">>)
  <1>1. "ShiftEnter" \in AllKinds /\ "ShiftEnter" \in Kinds
    BY DEF AllKinds, Kinds
  <1>2. o \o <<"ShiftEnter">> \in Seq(Kinds)
    BY <1>1
  <1>3. r \in States /\ t \in States
    BY <1>2, AtType DEF Ats
  <1>4. Given(r, "ShiftEnter") = t
    <2>1. Given(r, "ShiftEnter") = Given(At("key", TRUE, o), "ShiftEnter")
      BY DEF At, Given
    <2>2. Given(At("key", TRUE, o), "ShiftEnter") = At("key", TRUE, o \o Used(<<"ShiftEnter">>))
      BY <1>1, GivenIs
    <2>3. Used(<<"ShiftEnter">>) = <<"ShiftEnter">>
      BY <1>1, UsedOne
    <2> QED
      BY <2>1, <2>2, <2>3
  <1>5. r.at = "pasteCR"
    BY AtPlace
  <1>6. t.at = "key"
    BY AtPlace
  <1>. HIDE DEF r, t
  <1>7. Stepped(r, b) = AtKey(t, b)
    BY <1>4, <1>5 DEF Stepped, AtPasteCR
  <1>8. Stepped(t, b) = AtKey(t, b)
    BY <1>6 DEF Stepped
  <1>9. After(Decoder, r, <<b>> \o s) = After(Decoder, t, <<b>> \o s)
    BY <1>3, <1>7, <1>8, DecodedFirst
  <1> QED
    BY <1>9 DEF r, t

\* The first byte of a piece, and the others.
LEMMA PieceParts ==
    ASSUME NEW x \in Pieces, x # "unix"
    PROVE  \E b \in Bytes, s \in Seq(Bytes) : b # "nl" /\ PieceBytes[x] = <<b>> \o s
  <1>1. x \in {"text", "wide", "mac", "dos", "control"}
    BY DEF Pieces, PieceBytes
  <1>2. "x" \in Bytes /\ "lead" \in Bytes /\ "cr" \in Bytes /\ "bel" \in Bytes
    BY DEF Bytes
  <1>3. <<>> \in Seq(Bytes) /\ <<"more">> \in Seq(Bytes) /\ <<"nl">> \in Seq(Bytes)
    BY DEF Bytes
  <1>4. /\ PieceBytes["text"] = <<"x">> \o <<>>
        /\ PieceBytes["wide"] = <<"lead">> \o <<"more">>
        /\ PieceBytes["mac"] = <<"cr">> \o <<>>
        /\ PieceBytes["dos"] = <<"cr">> \o <<"nl">>
        /\ PieceBytes["control"] = <<"bel">> \o <<>>
    BY DEF PieceBytes
  <1>5. CASE x = "text"
    BY <1>2, <1>3, <1>4, <1>5
  <1>6. CASE x = "wide"
    BY <1>2, <1>3, <1>4, <1>6
  <1>7. CASE x = "mac"
    BY <1>2, <1>3, <1>4, <1>7
  <1>8. CASE x = "dos"
    BY <1>2, <1>3, <1>4, <1>8
  <1>9. CASE x = "control"
    BY <1>2, <1>3, <1>4, <1>9
  <1> QED
    BY <1>1, <1>5, <1>6, <1>7, <1>8, <1>9

PieceKinds(p) == [i \in 1..Len(p) |-> PieceMeant[p[i]]]

LEMMA KindsPush ==
    ASSUME NEW p \in Seq(Pieces), NEW x \in Pieces
    PROVE  /\ PieceKinds(p) \in Seq(AllKinds)
           /\ PieceKinds(Append(p, x)) = PieceKinds(p) \o <<PieceMeant[x]>>
  <1>. DEFINE n == Len(p)
              t == Append(p, x)
              u == PieceKinds(p)
              one == <<PieceMeant[x]>>
              v == PieceKinds(t)
  <1>1. n \in Nat /\ \A i \in 1..n : p[i] \in Pieces
    OBVIOUS
  <1>2. Len(t) = n + 1 /\ t[n + 1] = x /\ \A i \in 1..n : t[i] = p[i]
    BY <1>1, Push
  <1>3. \A y \in Pieces : PieceMeant[y] \in AllKinds
    BY PieceTypes
  <1>. HIDE DEF n, t
  <1>4. u \in Seq(AllKinds) /\ Len(u) = n /\ \A i \in 1..n : u[i] = PieceMeant[p[i]]
    BY <1>1, <1>3 DEF PieceKinds, n
  <1>5. v \in Seq(AllKinds) /\ Len(v) = n + 1 /\ \A i \in 1..(n + 1) : v[i] = PieceMeant[t[i]]
    <2>1. \A i \in 1..(n + 1) : t[i] \in Pieces
      BY <1>1, <1>2
    <2> QED
      BY <1>1, <1>2, <1>3, <2>1 DEF PieceKinds
  <1>6. one \in Seq(AllKinds) /\ Len(one) = 1 /\ one[1] = PieceMeant[x]
    BY <1>3
  <1>. HIDE DEF u, v, one
  <1>7. /\ Len(v) = Len(u) + Len(one)
        /\ \A i \in 1..Len(u) : v[i] = u[i]
        /\ \A i \in 1..Len(one) : v[Len(u) + i] = one[i]
    BY <1>1, <1>2, <1>4, <1>5, <1>6
  <1>8. v = u \o one
    BY <1>4, <1>5, <1>6, <1>7, Joined
  <1> QED
    BY <1>4, <1>8 DEF t, u, v, one

\* No line feed comes right behind a carriage return that is a line end of its own.
Plain(p) == \A i \in 1..(Len(p) - 1) : ~(p[i] = "mac" /\ p[i + 1] = "unix")

\* A part of a paste leaves the decoder waiting for more of it, behind a carriage return perhaps.
Waiting(q, p, v) ==
    IF p # <<>> /\ Last(p) = "mac"
    THEN \E u \in Seq(Kinds) : q = At("pasteCR", TRUE, u) /\ v = u \o <<"ShiftEnter">>
    ELSE q = At("key", TRUE, v)

LEMMA BodyDecoded ==
    ASSUME NEW o \in Seq(Kinds), NEW p \in Seq(Pieces), Plain(p)
    PROVE  Waiting(After(Decoder, At("key", TRUE, o), PasteBody(p)), p, o \o Used(PieceKinds(p)))
  <1>. DEFINE q == At("key", TRUE, o)
              Fine(z) == Plain(z) => Waiting(After(Decoder, q, PasteBody(z)), z, o \o Used(PieceKinds(z)))
              P == {z \in Seq(Pieces) : Fine(z)}
  <1>1. q \in States
    BY AtType DEF Ats
  <1>2. <<>> \in P
    <2>1. PieceKinds(<<>>) = <<>> /\ Used(<<>>) = <<>> /\ o \o <<>> = o
      BY UsedRemoved, RemovedNone DEF PieceKinds
    <2>2. After(Decoder, q, PasteBody(<<>>)) = q
      BY BodyNone, AfterNone
    <2>3. Waiting(q, <<>>, o)
      BY DEF Waiting
    <2>4. <<>> \in Seq(Pieces)
      OBVIOUS
    <2> QED
      BY <2>1, <2>2, <2>3, <2>4
  <1>3. ASSUME NEW z \in Seq(Pieces), NEW x \in Pieces, z \in P, Plain(Append(z, x))
        PROVE  Waiting(After(Decoder, q, PasteBody(Append(z, x))), Append(z, x),
                       o \o Used(PieceKinds(Append(z, x))))
    <2>. DEFINE r == After(Decoder, q, PasteBody(z))
                v == o \o Used(PieceKinds(z))
                t == Append(z, x)
                k == Used(<<PieceMeant[x]>>)
                w == o \o Used(PieceKinds(t))
    <2>1. Len(z) \in Nat /\ Len(t) = Len(z) + 1 /\ t[Len(z) + 1] = x /\ \A i \in 1..Len(z) : t[i] = z[i]
      BY Push
    <2>2. Plain(z) /\ (z # <<>> /\ Last(z) = "mac" => x # "unix")
      <3>1. \A i \in 1..Len(z) : ~(t[i] = "mac" /\ t[i + 1] = "unix")
        BY <1>3, <2>1 DEF Plain
      <3>2. ASSUME z # <<>>, Last(z) = "mac"
            PROVE  x # "unix"
        <4>1. Len(z) \in 1..Len(z) /\ z[Len(z)] = "mac"
          BY <2>1, <3>2 DEF Last
        <4> QED
          BY <2>1, <3>1, <4>1
      <3>3. Plain(z)
        BY <2>1, <3>1 DEF Plain
      <3> QED
        BY <3>2, <3>3
    <2>3. Waiting(r, z, v)
      BY <1>3, <2>2
    <2>4. k \in Seq(Kinds) /\ v \in Seq(Kinds) /\ w = v \o k
      <3>1. PieceKinds(z) \in Seq(AllKinds) /\ PieceKinds(t) = PieceKinds(z) \o <<PieceMeant[x]>>
        BY KindsPush
      <3>2. PieceMeant[x] \in AllKinds /\ <<PieceMeant[x]>> \in Seq(AllKinds)
        BY PieceTypes
      <3>. DEFINE a == Used(PieceKinds(z))
      <3>3. a \in Seq(Kinds) /\ k \in Seq(Kinds)
        BY <3>1, <3>2, UsedType
      <3>4. Used(PieceKinds(t)) = a \o k
        BY <3>1, <3>2, UsedConcat
      <3>. HIDE DEF a, k
      <3>5. o \o (a \o k) = (o \o a) \o k /\ o \o a \in Seq(Kinds)
        BY <3>3
      <3> QED
        BY <3>3, <3>4, <3>5 DEF a
    <2>5. After(Decoder, q, PasteBody(t)) = After(Decoder, r, PieceBytes[x])
      <3>1. PasteBody(t) = PasteBody(z) \o PieceBytes[x]
        BY BodyPush
      <3>2. PasteBody(z) \in Seq(Bytes) /\ PieceBytes[x] \in Seq(Bytes)
        BY BodyType, PieceTypes
      <3>3. After(Decoder, q, PasteBody(z) \o PieceBytes[x])
              = After(Decoder, After(Decoder, q, PasteBody(z)), PieceBytes[x])
        BY <1>1, <3>2, DecodedConcat
      <3> QED
        BY <3>1, <3>3
    <2>6. t # <<>> /\ Last(t) = x
      BY <2>1 DEF Last
    <2>7. x = "mac" => k = <<"ShiftEnter">>
      BY UsedOne DEF PieceMeant, AllKinds, Kinds
    <2>. HIDE DEF r, v, t, k, w, q
    <2>8. After(Decoder, r, PieceBytes[x]) = After(Decoder, At("key", TRUE, v), PieceBytes[x])
      <3>1. CASE z # <<>> /\ Last(z) = "mac"
        <4>1. PICK u \in Seq(Kinds) : r = At("pasteCR", TRUE, u) /\ v = u \o <<"ShiftEnter">>
          BY <2>3, <3>1 DEF Waiting
        <4>2. PICK b \in Bytes, s \in Seq(Bytes) : b # "nl" /\ PieceBytes[x] = <<b>> \o s
          BY <2>2, <3>1, PieceParts
        <4> QED
          BY <4>1, <4>2, ReturnDecoded
      <3>2. CASE ~(z # <<>> /\ Last(z) = "mac")
        BY <2>3, <3>2 DEF Waiting
      <3> QED
        BY <3>1, <3>2
    <2>9. After(Decoder, At("key", TRUE, v), PieceBytes[x])
            = IF x = "mac" THEN At("pasteCR", TRUE, v) ELSE At("key", TRUE, v \o k)
      BY <2>4, PieceDecoded DEF k
    <2>10. CASE x = "mac"
      BY <2>4, <2>5, <2>6, <2>7, <2>8, <2>9, <2>10 DEF Waiting, t, w
    <2>11. CASE x # "mac"
      BY <2>4, <2>5, <2>6, <2>8, <2>9, <2>11 DEF Waiting, t, w
    <2> QED
      BY <2>10, <2>11
  <1>4. IsInductive(Pieces, P)
    <2>1. ASSUME NEW z \in Seq(Pieces), NEW x \in Pieces, z \in P
          PROVE  Append(z, x) \in P
      <3>1. Append(z, x) \in Seq(Pieces)
        OBVIOUS
      <3> QED
        BY <1>3, <2>1, <3>1
    <2> QED
      BY <1>2, <2>1 DEF IsInductive
  <1>. HIDE DEF q
  <1>5. p \in P
    BY <1>4, ByLastElement
  <1> QED
    BY <1>5 DEF q

\* The marks around a paste.
LEMMA MarkDecoded ==
    ASSUME NEW o \in Seq(Kinds)
    PROVE  /\ PasteOpen \in Seq(Bytes) /\ PasteClose \in Seq(Bytes)
           /\ After(Decoder, At("key", FALSE, o), PasteOpen) = At("key", TRUE, o \o <<"PasteStart">>)
           /\ After(Decoder, At("key", TRUE, o), PasteClose) = At("key", FALSE, o \o <<"PasteEnd">>)
  <1>1. "200" \in Inks \ Finals /\ "201" \in Inks \ Finals /\ "~" \in Finals
    BY DEF Inks, Finals
  <1>2. CsiMeant("200", "~") = "PasteStart" /\ CsiMeant("201", "~") = "PasteEnd"
    BY DEF CsiMeant
  <1>3. "PasteStart" \in AllKinds /\ "PasteEnd" \in AllKinds
    BY DEF AllKinds, Kinds
  <1>4. Used(<<"PasteStart">>) = <<"PasteStart">> /\ Used(<<"PasteEnd">>) = <<"PasteEnd">>
    BY <1>3, UsedOne
  <1>5. TRUE \in BOOLEAN /\ FALSE \in BOOLEAN
    OBVIOUS
  <1>6. Given(At("key", FALSE, o), "PasteStart") = At("key", TRUE, o \o Used(<<"PasteStart">>))
    BY <1>3, <1>5, GivenIs
  <1>7. Given(At("key", TRUE, o), "PasteEnd") = At("key", FALSE, o \o Used(<<"PasteEnd">>))
    BY <1>3, <1>5, GivenIs
  <1>8. /\ PasteOpen \in Seq(Bytes)
        /\ After(Decoder, At("key", FALSE, o), PasteOpen) = Given(At("key", FALSE, o), CsiMeant("200", "~"))
    BY <1>1, <1>5, SequenceDecoded DEF PasteOpen
  <1>9. /\ PasteClose \in Seq(Bytes)
        /\ After(Decoder, At("key", TRUE, o), PasteClose) = Given(At("key", TRUE, o), CsiMeant("201", "~"))
    BY <1>1, <1>5, SequenceDecoded DEF PasteClose
  <1> QED
    BY <1>2, <1>4, <1>6, <1>7, <1>8, <1>9

\* A paste that comes when the decoder waits for a key.
LEMMA PasteDecoded ==
    ASSUME NEW o \in Seq(Kinds), NEW p \in Pastes
    PROVE  /\ PasteBytes(p) \in Seq(Bytes) /\ PasteMeant(p) \in Seq(AllKinds)
           /\ After(Decoder, At("key", FALSE, o), PasteBytes(p)) = At("key", FALSE, o \o Used(PasteMeant(p)))
  <1>1. p \in Seq(Pieces) /\ Plain(p)
    BY KeysAssumption DEF Pieces, Plain
  <1>. DEFINE q == At("key", FALSE, o)
              one == <<"PasteStart">>
              two == <<"PasteEnd">>
              v == o \o one
              k == Used(PieceKinds(p))
              w == v \o k
              body == PasteBody(p)
              r == After(Decoder, At("key", TRUE, v), body)
  <1>2. /\ one \in Seq(Kinds) /\ one \in Seq(AllKinds) /\ Used(one) = one
        /\ two \in Seq(Kinds) /\ two \in Seq(AllKinds) /\ Used(two) = two
    BY UsedOne DEF Kinds, AllKinds
  <1>3. PieceKinds(p) \in Seq(AllKinds) /\ k \in Seq(Kinds)
    <2>1. PieceKinds(p) \in Seq(AllKinds)
      <3>1. \A y \in Pieces : PieceMeant[y] \in AllKinds
        BY PieceTypes
      <3> QED
        BY <1>1, <3>1 DEF PieceKinds
    <2> QED
      BY <2>1, UsedType
  <1>4. PasteMeant(p) = (one \o PieceKinds(p)) \o two
    BY DEF PasteMeant, PieceKinds
  <1>5. Used(PasteMeant(p)) = (one \o k) \o two /\ PasteMeant(p) \in Seq(AllKinds)
    <2>1. one \o PieceKinds(p) \in Seq(AllKinds) /\ Used(one \o PieceKinds(p)) = one \o k
      BY <1>2, <1>3, UsedConcat, Concat
    <2>. DEFINE s == one \o PieceKinds(p)
    <2>. HIDE DEF s, two
    <2>2. s \o two \in Seq(AllKinds) /\ Used(s \o two) = Used(s) \o Used(two)
      BY <1>2, <2>1, UsedConcat, Concat DEF s
    <2> QED
      BY <1>2, <1>4, <2>1, <2>2 DEF s
  <1>6. v \in Seq(Kinds) /\ w \in Seq(Kinds)
    BY <1>2, <1>3, Concat
  <1>7. o \o Used(PasteMeant(p)) = w \o two
    <2>. HIDE DEF one, two, k
    <2>1. one \in Seq(Kinds) /\ two \in Seq(Kinds) /\ k \in Seq(Kinds) /\ o \in Seq(Kinds)
      BY <1>2, <1>3
    <2>2. one \o k \in Seq(Kinds) /\ o \o one \in Seq(Kinds)
      BY <2>1, Concat
    <2>3. o \o ((one \o k) \o two) = (o \o (one \o k)) \o two
      <3>. DEFINE ok == one \o k
      <3>. HIDE DEF ok
      <3>1. ok \in Seq(Kinds) => o \o (ok \o two) = (o \o ok) \o two
        BY <2>1
      <3> QED
        BY <2>2, <3>1 DEF ok
    <2>4. o \o (one \o k) = (o \o one) \o k
      BY <2>1
    <2> QED
      BY <1>5, <2>3, <2>4
  <1>8. body \in Seq(Bytes) /\ PasteOpen \in Seq(Bytes) /\ PasteClose \in Seq(Bytes)
    BY <1>1, BodyType, MarkDecoded
  <1>9. q \in States
    BY AtType DEF Ats
  <1>10. After(Decoder, q, PasteOpen) = At("key", TRUE, v)
    BY MarkDecoded
  <1>11. At("key", TRUE, v) \in States /\ r \in States
    BY <1>6, <1>8, AtType, DecodedType DEF Ats
  <1>12. Waiting(r, p, w)
    BY <1>1, <1>6, BodyDecoded
  <1>13. After(Decoder, At("key", TRUE, w), PasteClose) = At("key", FALSE, w \o two)
    BY <1>6, MarkDecoded
  <1>14. PasteBytes(p) = (PasteOpen \o body) \o PasteClose
    BY DEF PasteBytes
  <1>. DEFINE opened == PasteOpen \o body
  <1>15. opened \in Seq(Bytes) /\ After(Decoder, q, opened) = r
    <2>1. opened \in Seq(Bytes)
      BY <1>8, Concat
    <2>2. After(Decoder, q, opened) = After(Decoder, After(Decoder, q, PasteOpen), body)
      BY <1>8, <1>9, DecodedConcat
    <2> QED
      BY <1>10, <2>1, <2>2
  <1>16. opened \o PasteClose \in Seq(Bytes)
    BY <1>8, <1>15, Concat
  <1>. HIDE DEF q, v, w, r, body, opened, two
  <1>17. After(Decoder, q, opened \o PasteClose) = After(Decoder, r, PasteClose)
    BY <1>8, <1>9, <1>15, DecodedConcat
  <1>18. After(Decoder, r, PasteClose) = After(Decoder, At("key", TRUE, w), PasteClose)
    <2>1. CASE p # <<>> /\ Last(p) = "mac"
      <3>1. PICK u \in Seq(Kinds) : r = At("pasteCR", TRUE, u) /\ w = u \o <<"ShiftEnter">>
        BY <1>12, <2>1 DEF Waiting
      <3>2. PasteClose = <<"esc">> \o <<"[", "201", "~">> /\ <<"[", "201", "~">> \in Seq(Bytes) /\ "esc" \in Bytes
        BY DEF PasteClose, Bytes, Inks, Finals
      <3> QED
        BY <3>1, <3>2, ReturnDecoded
    <2>2. CASE ~(p # <<>> /\ Last(p) = "mac")
      BY <1>12, <2>2 DEF Waiting
    <2> QED
      BY <2>1, <2>2
  <1>19. After(Decoder, q, PasteBytes(p)) = At("key", FALSE, o \o Used(PasteMeant(p)))
    BY <1>7, <1>13, <1>14, <1>17, <1>18 DEF opened
  <1> QED
    BY <1>5, <1>14, <1>16, <1>19 DEF q, opened

-----------------------------------------------------------------------------
(* What is on its way, and where the decoder is. *)

LEMMA Regroup ==
    ASSUME NEW s \in Seq(Bytes), NEW t \in Seq(Bytes), NEW u \in Seq(Bytes)
    PROVE  /\ (s \o t) \o u = s \o (t \o u)
           /\ s \o t \in Seq(Bytes)
           /\ <<>> \o s = s /\ s \o <<>> = s /\ <<>> \in Seq(Bytes)
  OBVIOUS

LEMMA Grouped ==
    ASSUME NEW s \in Seq(Bytes), NEW t \in Seq(Bytes), NEW u \in Seq(Bytes)
    PROVE  s \o (t \o u) = (s \o t) \o u
  OBVIOUS

LEMMA OneMore ==
    ASSUME NEW a \in Bytes, NEW b \in Bytes, NEW c \in Bytes
    PROVE  <<c>> \in Seq(Bytes) /\ <<a, b>> \o <<c>> = <<a, b, c>>
  <1>. DEFINE s == <<a, b>>
              t == <<c>>
              u == <<a, b, c>>
  <1>1. /\ s \in Seq(Bytes) /\ Len(s) = 2 /\ s[1] = a /\ s[2] = b
        /\ t \in Seq(Bytes) /\ Len(t) = 1 /\ t[1] = c
        /\ u \in Seq(Bytes) /\ Len(u) = 3 /\ u[1] = a /\ u[2] = b /\ u[3] = c
    OBVIOUS
  <1>. HIDE DEF s, t, u
  <1>2. /\ Len(u) = Len(s) + Len(t)
        /\ \A i \in 1..Len(s) : u[i] = s[i]
        /\ \A i \in 1..Len(t) : u[Len(s) + i] = t[i]
    BY <1>1
  <1>3. u = s \o t
    BY <1>1, <1>2, Joined
  <1> QED
    BY <1>1, <1>3 DEF s, t, u

LEMMA RestType ==
    ASSUME KeyTypes
    PROVE  /\ Phase \in States /\ Held \in Seq(Bytes) /\ Rest \in Seq(Bytes)
           /\ After(Decoder, Phase, Rest) \in States
           /\ Phase.out = decoded
  <1>1. Phase \in States /\ Phase.out = decoded
    BY DEF KeyTypes, Phase, States, Probing, Reading
  <1>2. Held \in Seq(Bytes)
    <2>1. <<"esc">> \in Seq(Bytes) /\ <<"esc", "[">> \in Seq(Bytes) /\ <<>> \in Seq(Bytes)
      BY DEF Bytes, Inks, Finals
    <2>2. params # "" => <<params>> \in Seq(Bytes)
      <3>1. params # "" => params \in Bytes
        BY DEF KeyTypes
      <3> QED
        BY <3>1, OneMore
    <2>3. <<"esc", "[">> \o <<>> \in Seq(Bytes)
      BY <2>1, Concat
    <2>4. params # "" => <<"esc", "[">> \o <<params>> \in Seq(Bytes)
      BY <2>1, <2>2, Concat
    <2> QED
      BY <2>1, <2>3, <2>4 DEF Held
  <1>3. Rest \in Seq(Bytes)
    BY <1>2, Concat DEF Rest, KeyTypes
  <1> QED
    BY <1>1, <1>2, <1>3, DecodedType

\* Where a decoder that could take a key as its next one waits.
LEMMA SettledIs ==
    ASSUME NEW q \in States, q.at = "key", Settled(q)
    PROVE  q = At("key", FALSE, q.out)
  BY StateParts DEF Settled, At

\* A byte after others.
LEMMA PushOne ==
    ASSUME NEW s \in Seq(Bytes), NEW x \in Bytes
    PROVE  s \o <<x>> = Append(s, x)
  OBVIOUS

LEMMA TwoMore ==
    ASSUME NEW a \in Bytes, NEW b \in Bytes
    PROVE  <<a>> \o <<b>> = <<a, b>>
  <1>1. <<a, b>> = Append(<<a>>, b) /\ <<a>> \in Seq(Bytes)
    OBVIOUS
  <1> QED
    BY <1>1, PushOne

LEMMA FourMore ==
    ASSUME NEW a \in Bytes, NEW b \in Bytes, NEW c \in Bytes, NEW d \in Bytes
    PROVE  <<a, b, c>> \o <<d>> = <<a, b, c, d>>
  <1>1. <<a, b, c, d>> = Append(<<a, b, c>>, d) /\ <<a, b, c>> \in Seq(Bytes)
    OBVIOUS
  <1> QED
    BY <1>1, PushOne

\* Each place has its own step.
LEMMA SteppedIs ==
    ASSUME NEW q, NEW b
    PROVE  /\ q.at = "key" => Stepped(q, b) = AtKey(q, b)
           /\ q.at = "pasteCR" => Stepped(q, b) = AtPasteCR(q, b)
           /\ q.at = "wide" => Stepped(q, b) = AtWide(q, b)
           /\ q.at = "escape" => Stepped(q, b) = AtEscape(q, b)
           /\ q.at = "ss3" => Stepped(q, b) = AtSs3(q, b)
           /\ q.at = "csi" => Stepped(q, b) = AtCsi(q, b)
           /\ q.at = "lost" => Stepped(q, b) = Lost(q)
  BY DEF Stepped

LEMMA LostIs ==
    ASSUME NEW q
    PROVE  Lost(q).at = "lost"
  BY DEF Lost, Wait

LEMMA EscapeLost ==
    ASSUME NEW x
    PROVE  AtWide(x, "esc") = Lost(x) /\ AtEscape(x, "esc") = Lost(x) /\ AtSs3(x, "esc") = Lost(x)
           /\ AtCsi(x, "esc") = Lost(x) /\ AtKey(x, "esc") = Wait(x, "escape")
           /\ AtPasteCR(x, "esc") = AtKey(Given(x, "ShiftEnter"), "esc")
  <1>1. "esc" \notin Inks /\ "esc" \notin Finals
    BY DEF Inks, Finals
  <1>2. AtPasteCR(x, "esc") = AtKey(Given(x, "ShiftEnter"), "esc")
    BY DEF AtPasteCR
  <1> QED
    BY <1>1, <1>2 DEF AtWide, AtEscape, AtSs3, AtCsi, AtKey

\* After the bytes that open a control sequence, wherever the decoder was.
LEMMA OpenedAnywhere ==
    ASSUME NEW y \in States
    PROVE  /\ Stepped(y, "esc") \in States /\ Stepped(y, "esc").at \in {"escape", "lost"}
           /\ Stepped(Stepped(y, "esc"), "[") \in States
           /\ Stepped(Stepped(y, "esc"), "[").at \in {"csi", "lost"}
  <1>1. "esc" \in Bytes /\ "[" \in Bytes /\ "esc" \notin Inks /\ "esc" \notin Finals
    BY DEF Bytes, Inks, Finals
  <1>2. ASSUME NEW x
        PROVE  AtKey(x, "esc").at = "escape"
    BY DEF AtKey, Wait
  <1>5. Stepped(y, "esc").at \in {"escape", "lost"}
    BY <1>2, EscapeLost, LostIs DEF Stepped
  <1>6. Stepped(y, "esc") \in States
    BY <1>1, SteppedType
  <1>. DEFINE x == Stepped(y, "esc")
  <1>. HIDE DEF x
  <1>7. x \in States /\ x.at \in {"escape", "lost"}
    BY <1>5, <1>6 DEF x
  <1>8. Wait(x, "csi").at = "csi"
    BY DEF Wait
  <1>9. Stepped(x, "[") = Wait(x, "csi") \/ Stepped(x, "[") = Lost(x)
    BY <1>7 DEF Stepped, AtEscape
  <1>10. Stepped(x, "[") \in States /\ Stepped(x, "[").at \in {"csi", "lost"}
    BY <1>1, <1>7, <1>8, <1>9, LostIs, SteppedType
  <1> QED
    BY <1>5, <1>6, <1>10 DEF x

\* A parameter that is not ended: more of the sequence is waited for.
LEMMA ParameterWaits ==
    ASSUME NEW y \in States, y.at \in {"csi", "lost"}, NEW p \in Bytes \ Finals
    PROVE  /\ Stepped(y, p) \in States /\ Stepped(y, p).at \in {"csi", "lost"}
           /\ Stepped(y, p).at = "csi" => Stepped(y, p).params # ""
  <1>1. Stepped(y, p) = Got(y, p) \/ Stepped(y, p) = Lost(y)
    BY DEF Stepped, AtCsi
  <1>2. Got(y, p).at = "csi" /\ Got(y, p).params = p /\ p # ""
    BY DEF Got, Bytes, Inks, Finals
  <1> QED
    BY <1>1, <1>2, LostIs, SteppedType

LEMMA SecondParameter ==
    ASSUME NEW y \in States, NEW p \in Bytes \ Finals, NEW b \in Bytes \ Finals
    PROVE  After(Decoder, y, <<"esc", "[", p, b>>).at = "lost"
  <1>1. "esc" \in Bytes /\ "[" \in Bytes
    BY DEF Bytes, Inks, Finals
  <1>2. After(Decoder, y, <<"esc", "[", p, b>>) = Stepped(Stepped(Stepped(Stepped(y, "esc"), "["), p), b)
    BY <1>1, DecodedFour
  <1>. DEFINE x == Stepped(Stepped(y, "esc"), "[")
              z == Stepped(x, p)
  <1>3. x \in States /\ x.at \in {"csi", "lost"}
    BY OpenedAnywhere
  <1>. HIDE DEF x
  <1>4. z \in States /\ z.at \in {"csi", "lost"} /\ (z.at = "csi" => z.params # "")
    BY <1>3, ParameterWaits
  <1>. HIDE DEF z
  <1>5. AtCsi(z, b) = Lost(z) \/ z.at = "lost"
    BY <1>4 DEF AtCsi
  <1>6. Stepped(z, b) = Lost(z)
    BY <1>4, <1>5, SteppedIs
  <1> QED
    BY <1>2, <1>6, LostIs DEF x, z

\* Behind an Escape that is not decoded yet.
LEMMA EscapeWaits ==
    ASSUME KeyTypes, After(Decoder, Phase, Rest).at = "escape"
    PROVE  AfterEscape
  <1>1. \/ Rest = <<>> /\ Phase.at = "escape"
        \/ Rest # <<>> /\ Last(Rest) = "esc"
    BY RestType, EscapeLast
  <1>2. /\ line \in Seq(Bytes) /\ pending \in Seq(Bytes) /\ stash \in Seq(Bytes)
        /\ pending \o line \in Seq(Bytes)
    BY Concat DEF KeyTypes
  <1>3. <<>> \in Seq(Bytes) /\ <<"esc">> \in Seq(Bytes) /\ <<"esc", "[">> \in Seq(Bytes)
    BY DEF Bytes, Inks, Finals
  <1>4. ASSUME NEW s \in Seq(Bytes), NEW t \in Seq(Bytes), t # <<>>
        PROVE  s \o t # <<>> /\ Last(s \o t) = Last(t)
    <2>1. Len(t) \in Nat /\ Len(t) > 0
      BY <1>4
    <2>2. Len(s \o t) = Len(s) + Len(t) /\ (s \o t)[Len(s) + Len(t)] = t[Len(t)]
      BY <2>1, Concat
    <2> QED
      BY <2>1, <2>2 DEF Last
  <1>5. CASE at = "escape"
    <2>1. stash = <<>> /\ Held = <<>>
      BY <1>5 DEF KeyTypes, Held, Probing
    <2>2. Rest = pending \o line
      BY <1>2, <1>3, <2>1, Regroup DEF Rest
    <2>3. Undecoded = <<"esc">> \o (pending \o line)
      BY <1>2, <1>3, <1>5, <2>1, Regroup DEF Undecoded
    <2>4. CASE Rest = <<>>
      <3>1. Undecoded = <<"esc">>
        BY <1>3, <2>2, <2>3, <2>4
      <3> QED
        BY <3>1 DEF AfterEscape, Last
    <2>5. CASE Rest # <<>>
      BY <1>1, <1>2, <1>3, <1>4, <2>2, <2>3, <2>5 DEF AfterEscape
    <2> QED
      BY <2>4, <2>5
  <1>6. CASE at = "probeEsc"
    <2>1. Held = <<"esc">>
      BY <1>6 DEF Held
    <2>2. Undecoded = Rest
      <3>1. Undecoded = ((stash \o <<"esc">>) \o pending) \o line
        BY <1>6 DEF Undecoded
      <3>2. Rest = (stash \o <<"esc">>) \o (pending \o line)
        BY <2>1 DEF Rest
      <3>3. stash \o <<"esc">> \in Seq(Bytes)
        BY <1>2, <1>3, Regroup
      <3> QED
        BY <1>2, <3>1, <3>2, <3>3, Regroup
    <2>3. Phase.at = "key"
      BY <1>6 DEF Phase, Probing
    <2> QED
      BY <1>1, <2>2, <2>3 DEF AfterEscape
  <1>7. CASE at = "probeCsi"
    <2>1. Phase.at = "key"
      BY <1>7 DEF Phase, Probing
    <2>2. Rest # <<>> /\ Last(Rest) = "esc"
      BY <1>1, <2>1
    <2>3. pending = <<>> /\ pending \o line = line
      BY <1>2, <1>7, Regroup DEF KeyTypes, Probing
    <2>4. Undecoded = stash \o line
      BY <1>2, <1>3, <1>7, <2>3, Regroup DEF Undecoded
    <2>5. Held \in Seq(Bytes) /\ stash \o Held \in Seq(Bytes) /\ Rest = (stash \o Held) \o line
      BY <1>2, <2>3, RestType, Concat DEF Rest
    <2>6. CASE line # <<>>
      BY <1>2, <1>4, <2>2, <2>4, <2>5, <2>6 DEF AfterEscape
    <2>7. CASE line = <<>>
      <3>1. Rest = stash \o Held
        BY <2>5, <2>7, Regroup
      <3>2. CASE params = ""
        <4>1. Held = <<"esc", "[">>
          BY <1>3, <1>7, <3>2, Regroup DEF Held
        <4>2. Last(<<"esc", "[">>) = "["
          BY DEF Last
        <4> QED
          BY <1>2, <1>3, <1>4, <2>2, <3>1, <4>1, <4>2
      <3>3. CASE params # ""
        <4>1. Held = <<"esc", "[", params>> /\ params \in Bytes
          <5>1. params \in Bytes
            BY <3>3 DEF KeyTypes
          <5>2. Held = <<"esc", "[">> \o <<params>>
            BY <1>7, <3>3 DEF Held
          <5>3. "esc" \in Bytes /\ "[" \in Bytes
            BY DEF Bytes, Inks, Finals
          <5> QED
            BY <5>1, <5>2, <5>3, OneMore
        <4>. DEFINE r == After(Decoder, Phase, stash)
                    x == Stepped(Stepped(r, "esc"), "[")
        <4>2. Phase \in States /\ Held \in Seq(Bytes)
          BY RestType
        <4>3. r \in States
          BY <1>2, <4>2, DecodedType
        <4>4. After(Decoder, Phase, stash \o Held) = After(Decoder, r, Held)
          BY <1>2, <4>2, DecodedConcat
        <4>. HIDE DEF r
        <4>5. x \in States /\ x.at \in {"csi", "lost"}
          BY <4>3, OpenedAnywhere
        <4>6. "esc" \in Bytes /\ "[" \in Bytes
          BY DEF Bytes, Inks, Finals
        <4>7. After(Decoder, r, <<"esc", "[", params>>) = Stepped(x, params)
          BY <4>1, <4>3, <4>6, DecodedThree
        <4>. HIDE DEF x
        <4>8. params \in Bytes \ Finals
          BY <3>3 DEF KeyTypes
        <4>9. Stepped(x, params).at \in {"csi", "lost"}
          BY <4>5, <4>8, ParameterWaits
        <4>10. After(Decoder, Phase, Rest) = Stepped(x, params)
          BY <3>1, <4>1, <4>4, <4>7
        <4> QED
          BY <4>9, <4>10
      <3> QED
        BY <3>2, <3>3
    <2> QED
      BY <2>6, <2>7
  <1>8. CASE at \notin {"escape", "probeEsc", "probeCsi"}
    <2>1. Held = <<>>
      BY <1>8 DEF Held
    <2>2. Undecoded = Rest
      <3>1. Undecoded = ((stash \o <<>>) \o pending) \o line
        BY <1>8 DEF Undecoded
      <3>2. Rest = (stash \o <<>>) \o (pending \o line)
        BY <2>1 DEF Rest
      <3>3. stash \o <<>> = stash
        BY <1>2
      <3> QED
        BY <1>2, <3>1, <3>2, <3>3, Regroup
    <2>3. Phase.at # "escape"
      BY <1>8 DEF Phase
    <2> QED
      BY <1>1, <2>2, <2>3 DEF AfterEscape
  <1> QED
    BY <1>5, <1>6, <1>7, <1>8

-----------------------------------------------------------------------------
(* The invariant holds. *)

Decoded == After(Decoder, Phase, Rest)

LEMMA InvParts ==
    ASSUME KeysInv
    PROVE  KeyTypes /\ (late \/ dropped \/ (Settled(Decoded) /\ Decoded.out = expected))
  BY DEF KeysInv, Decodes, Decoded

\* The terminal sends bytes that mean what is expected of them.
LEMMA SentKept ==
    ASSUME KeysInv, NEW bytes \in Seq(Bytes), line' = line \o bytes,
           late' = (late \/ AfterEscape), expected' \in Seq(Kinds),
           UNCHANGED <<pending, stash, params, at, inPaste, decoded, dropped>>,
           Settled(After(Decoder, At("key", FALSE, expected), bytes)),
           After(Decoder, At("key", FALSE, expected), bytes).out = expected'
    PROVE  KeysInv'
  <1>1. KeyTypes
    BY InvParts
  <1>2. KeyTypes'
    BY <1>1, Concat DEF KeyTypes, Reading, Probing
  <1>3. ASSUME ~late', ~dropped'
        PROVE  Decodes(After(Decoder, Phase, Rest))'
    <2>1. Settled(Decoded) /\ Decoded.out = expected /\ ~AfterEscape
      BY <1>3, InvParts
    <2>2. Decoded \in States
      BY <1>1, RestType DEF Decoded
    <2>3. Decoded.at = "key"
      BY <1>1, <2>1, EscapeWaits DEF Decoded, Settled
    <2>4. Decoded = At("key", FALSE, expected)
      BY <2>1, <2>2, <2>3, SettledIs
    <2>5. Phase' = Phase /\ Held' = Held
      BY DEF Phase, Held
    <2>6. Rest' = Rest \o bytes
      <3>1. Rest' = (stash \o Held) \o (pending \o (line \o bytes))
        BY <2>5 DEF Rest
      <3>2. stash \in Seq(Bytes) /\ pending \in Seq(Bytes) /\ line \in Seq(Bytes) /\ Held \in Seq(Bytes)
        BY <1>1, RestType DEF KeyTypes
      <3>3. pending \o line \in Seq(Bytes) /\ stash \o Held \in Seq(Bytes)
        BY <3>2, Concat
      <3>4. pending \o (line \o bytes) = (pending \o line) \o bytes
        <4>1. bytes \in Seq(Bytes) /\ pending \in Seq(Bytes) /\ line \in Seq(Bytes)
          BY <3>2
        <4> QED
          BY <4>1, Grouped
      <3>5. (stash \o Held) \o ((pending \o line) \o bytes) = ((stash \o Held) \o (pending \o line)) \o bytes
        <4>. DEFINE a == stash \o Held
                    b == pending \o line
        <4>1. a \in Seq(Bytes) /\ b \in Seq(Bytes) /\ bytes \in Seq(Bytes)
          BY <3>3
        <4>. HIDE DEF a, b
        <4>2. a \o (b \o bytes) = (a \o b) \o bytes
          BY <4>1
        <4> QED
          BY <4>2 DEF a, b
      <3> QED
        BY <3>1, <3>4, <3>5 DEF Rest
    <2>7. After(Decoder, Phase, Rest \o bytes) = After(Decoder, Decoded, bytes)
      BY <1>1, RestType, DecodedConcat DEF Decoded
    <2>8. After(Decoder, Phase', Rest') = After(Decoder, At("key", FALSE, expected), bytes)
      BY <2>4, <2>5, <2>6, <2>7
    <2>9. Settled(After(Decoder, Phase', Rest')) /\ After(Decoder, Phase', Rest').out = expected'
      BY <2>8
    <2> QED
      BY <2>9 DEF Decodes, Settled
  <1> QED
    BY <1>2, <1>3 DEF KeysInv

LEMMA PressKept ==
    ASSUME KeysInv, Press
    PROVE  KeysInv'
  <1>1. PICK k \in Keys : Typed(Sent[k], <<Meant[k]>>)
    BY DEF Press
  <1>2. KeyTypes /\ expected \in Seq(Kinds)
    BY InvParts DEF KeyTypes
  <1>3. /\ Sent[k] \in Seq(Bytes) /\ Meant[k] \in AllKinds
        /\ Settled(After(Decoder, At("key", FALSE, expected), Sent[k]))
        /\ After(Decoder, At("key", FALSE, expected), Sent[k]).out = expected \o Used(<<Meant[k]>>)
    BY <1>2, KeyDecoded
  <1>4. expected \o Used(<<Meant[k]>>) \in Seq(Kinds)
    BY <1>2, <1>3, UsedOne, UsedType, Concat
  <1>5. /\ line' = line \o Sent[k] /\ late' = (late \/ AfterEscape)
        /\ expected' = expected \o Used(<<Meant[k]>>)
        /\ UNCHANGED <<pending, stash, params, at, inPaste, decoded, dropped>>
    BY <1>1 DEF Typed
  <1> QED
    BY <1>3, <1>4, <1>5, SentKept

LEMMA PasteKept ==
    ASSUME KeysInv, Paste
    PROVE  KeysInv'
  <1>1. PICK p \in Pastes : Typed(PasteBytes(p), PasteMeant(p))
    BY DEF Paste
  <1>. DEFINE s == PasteBytes(p)
              u == Used(PasteMeant(p))
              q == At("key", FALSE, expected)
  <1>2. KeyTypes /\ expected \in Seq(Kinds)
    BY InvParts DEF KeyTypes
  <1>3. s \in Seq(Bytes) /\ PasteMeant(p) \in Seq(AllKinds) /\ After(Decoder, q, s) = At("key", FALSE, expected \o u)
    BY <1>2, PasteDecoded
  <1>4. expected \o u \in Seq(Kinds)
    BY <1>2, <1>3, UsedType, Concat
  <1>5. /\ line' = line \o s /\ late' = (late \/ AfterEscape) /\ expected' = expected \o u
        /\ UNCHANGED <<pending, stash, params, at, inPaste, decoded, dropped>>
    BY <1>1 DEF Typed
  <1>6. Settled(At("key", FALSE, expected \o u)) /\ At("key", FALSE, expected \o u).out = expected \o u
    BY DEF Settled, At
  <1>. HIDE DEF s, u
  <1> QED
    BY <1>3, <1>4, <1>5, <1>6, SentKept

LEMMA AnswerKept ==
    ASSUME KeysInv, Answer
    PROVE  KeysInv'
  <1>. DEFINE A(fin) == <<"esc", "[", "?", fin>>
              q == At("key", FALSE, expected)
  <1>1. PICK kitty \in BOOLEAN : line' = line \o (IF kitty THEN A("u") ELSE <<>>) \o A("c")
    BY DEF Answer
  <1>2. KeyTypes /\ expected \in Seq(Kinds) /\ line \in Seq(Bytes)
    BY InvParts DEF KeyTypes
  <1>3. /\ A("u") \in Seq(Bytes) /\ After(Decoder, q, A("u")) = q
        /\ A("c") \in Seq(Bytes) /\ After(Decoder, q, A("c")) = q
    BY <1>2, AnswerDecoded
  <1>4. q \in States
    BY <1>2, AtType DEF Ats
  <1>5. Settled(q) /\ q.out = expected
    BY DEF Settled, At
  <1>6. /\ late' = (late \/ AfterEscape)
        /\ UNCHANGED <<pending, stash, params, at, inPaste, decoded, dropped, expected>>
    BY DEF Answer
  <1>. HIDE DEF A, q
  <1>7. CASE kitty
    <2>1. line' = line \o (A("u") \o A("c")) /\ A("u") \o A("c") \in Seq(Bytes)
      BY <1>1, <1>2, <1>3, <1>7, Regroup
    <2>2. After(Decoder, q, A("u") \o A("c")) = q
      BY <1>3, <1>4, DecodedConcat
    <2> QED
      BY <1>2, <1>5, <1>6, <2>1, <2>2, SentKept DEF q
  <1>8. CASE ~kitty
    <2>1. line' = line \o A("c")
      BY <1>1, <1>2, <1>8, Regroup
    <2> QED
      BY <1>2, <1>3, <1>5, <1>6, <2>1, SentKept DEF q
  <1> QED
    BY <1>7, <1>8

LEMMA LosePasteEndKept ==
    ASSUME KeysInv, LosePasteEnd
    PROVE  KeysInv'
  <1>1. KeyTypes
    BY InvParts
  <1>2. line' \in Seq(Bytes)
    <2>1. line \in Seq(Bytes) /\ Len(line) >= 4 /\ line' = SubSeq(line, 1, Len(line) - 4)
      BY <1>1 DEF LosePasteEnd, KeyTypes
    <2> QED
      BY <2>1
  <1>3. KeyTypes'
    BY <1>1, <1>2 DEF LosePasteEnd, KeyTypes, Reading, Probing
  <1> QED
    BY <1>3 DEF LosePasteEnd, KeysInv

LEMMA HangUpKept ==
    ASSUME KeysInv, HangUp
    PROVE  KeysInv'
  <1>1. UNCHANGED <<line, pending, stash, params, at, inPaste, expected, decoded, late, dropped>>
    BY DEF HangUp
  <1> QED
    BY <1>1 DEF KeysInv, KeyTypes, Decodes, Settled, Phase, Rest, Held, Reading, Probing

Keyed == {"key", "pasteCR", "wide", "escape", "csi", "ss3"}

\* nextKey returns.
LEMMA ReturnedIs ==
    ASSUME KeyTypes, NEW k \in AllKinds, Returned(k)
    PROVE  /\ decoded' = decoded \o Used(<<k>>) /\ decoded' \in Seq(Kinds)
           /\ inPaste' = (k = "PasteStart" \/ (inPaste /\ k \notin {"PasteEnd", "Enter", "CtrlC"}))
           /\ at' \in {"key", "away"} /\ (at' = "away" => ~inPaste')
           /\ params' = "" /\ stash' = stash /\ dropped' = dropped
  <1>1. decoded' = decoded \o Used(<<k>>) /\ decoded' \in Seq(Kinds)
    BY UsedOne, UsedType, Concat DEF Returned, KeyTypes
  <1>2. params' = "" /\ stash' = stash /\ dropped' = dropped
    BY DEF Returned
  <1>3. CASE k = "PasteStart"
    BY <1>1, <1>2, <1>3 DEF Returned
  <1>4. CASE k = "Enter"
    BY <1>1, <1>2, <1>4 DEF Returned
  <1>5. CASE k = "CtrlC"
    BY <1>1, <1>2, <1>5 DEF Returned
  <1>6. CASE k = "PasteEnd"
    BY <1>1, <1>2, <1>6 DEF Returned
  <1>7. CASE k \notin {"PasteStart", "Enter", "CtrlC", "PasteEnd"}
    <2>1. inPaste' = inPaste
      BY <1>7 DEF Returned
    <2>2. at' = "key"
      BY <1>7 DEF Returned
    <2>3. (k = "PasteStart" \/ (inPaste /\ k \notin {"PasteEnd", "Enter", "CtrlC"})) = inPaste
      BY <1>7 DEF KeyTypes
    <2>4. inPaste' = (k = "PasteStart" \/ (inPaste /\ k \notin {"PasteEnd", "Enter", "CtrlC"}))
      BY <2>1, <2>3
    <2> QED
      BY <1>1, <1>2, <2>2, <2>4
  <1> QED
    BY <1>3, <1>4, <1>5, <1>6, <1>7

LEMMA PhaseKeyed ==
    ASSUME at \in Keyed
    PROVE  /\ Phase = [at |-> at, params |-> params, paste |-> inPaste, out |-> decoded]
           /\ at \notin Probing /\ Held = <<>>
  BY DEF Keyed, Phase, Probing, Held

LEMMA PhaseGiven ==
    ASSUME KeyTypes, at \in Keyed, NEW k \in AllKinds, Returned(k)
    PROVE  Phase' = Given(Phase, k) /\ at' \notin Probing
  <1>1. Given(Phase, k) = [at     |-> "key",
                           params |-> "",
                           paste  |-> k = "PasteStart" \/ (inPaste /\ k \notin {"PasteEnd", "Enter", "CtrlC"}),
                           out    |-> decoded \o Used(<<k>>)]
    <2>1. Phase.paste = inPaste
      BY PhaseKeyed
    <2>2. Phase.out = decoded
      BY PhaseKeyed
    <2> QED
      BY <2>1, <2>2 DEF Given
  <1>2. CASE at' = "key"
    <2>1. Phase' = [at |-> "key", params |-> "", paste |-> inPaste', out |-> decoded']
      BY <1>2, ReturnedIs DEF Phase, Probing
    <2> QED
      BY <1>1, <1>2, <2>1, ReturnedIs DEF Probing
  <1>3. CASE at' = "away"
    <2>1. Phase' = [at |-> "key", params |-> "", paste |-> FALSE, out |-> decoded']
      BY <1>3 DEF Phase, Probing
    <2> QED
      BY <1>1, <1>3, <2>1, ReturnedIs DEF Probing
  <1> QED
    BY <1>2, <1>3, ReturnedIs

LEMMA PhaseWaits ==
    ASSUME KeyTypes, at \in Keyed, params = "", NEW w \in Keyed, ReadOn(w)
    PROVE  Phase' = Wait(Phase, w) /\ at' \notin Probing
  BY PhaseKeyed DEF ReadOn, Phase, Wait, Keyed, Probing

\* The types after a key, and after a byte of one.
LEMMA ReturnedTypes ==
    ASSUME KeyTypes, NEW k \in AllKinds, Returned(k), at \in Keyed,
           line' \in Seq(Bytes), pending' \in Seq(Bytes), late' \in BOOLEAN, expected' = expected
    PROVE  KeyTypes'
  BY ReturnedIs DEF KeyTypes, Keyed, Probing, Reading

LEMMA ReadOnTypes ==
    ASSUME KeyTypes, NEW w \in Keyed, ReadOn(w), at \in Keyed, params = "", w = "pasteCR" => inPaste,
           line' \in Seq(Bytes), pending' \in Seq(Bytes), late' = late, expected' = expected
    PROVE  KeyTypes'
  BY DEF KeyTypes, ReadOn, Keyed, Probing, Reading

\* The byte that readByte returns, and what is left then.
LEMMA ReadyParts ==
    ASSUME KeyTypes, Ready # <<>>, line' = IF pending = <<>> THEN Tail(line) ELSE line
    PROVE  \E b \in Bytes, r \in Seq(Bytes) :
              /\ b = Head(Ready) /\ Ready = <<b>> \o r /\ line' \in Seq(Bytes)
              /\ Consumed => /\ pending' \in Seq(Bytes) /\ pending' \o line' = r
                             /\ pending = <<>> => pending' = <<>>
              /\ PushedBack(b) => pending' \in Seq(Bytes) /\ pending' \o line' = <<b>> \o r
  <1>1. line \in Seq(Bytes) /\ pending \in Seq(Bytes)
    BY DEF KeyTypes
  <1>2. ASSUME NEW s \in Seq(Bytes), s # <<>>
        PROVE  Head(s) \in Bytes /\ Tail(s) \in Seq(Bytes) /\ s = <<Head(s)>> \o Tail(s)
    BY <1>2
  <1>3. CASE pending = <<>>
    <2>1. Ready = line
      BY <1>1, <1>3, Regroup DEF Ready
    <2>2. Head(line) \in Bytes /\ Tail(line) \in Seq(Bytes) /\ line = <<Head(line)>> \o Tail(line)
      BY <1>1, <1>2, <2>1
    <2>3. Consumed => pending' = <<>>
      BY <1>3 DEF Consumed
    <2>4. PushedBack(Head(line)) => pending' = <<Head(line)>> \o <<>>
      BY <1>3 DEF PushedBack
    <2>5. <<Head(line)>> \o <<>> = <<Head(line)>> /\ <<Head(line)>> \in Seq(Bytes)
      BY <2>2
    <2>6. <<>> \o Tail(line) = Tail(line) /\ <<>> \in Seq(Bytes)
      BY <2>2
    <2> QED
      BY <1>3, <2>1, <2>2, <2>3, <2>4, <2>5, <2>6
  <1>4. CASE pending # <<>>
    <2>. DEFINE b == Head(pending)
                t == Tail(pending)
    <2>1. b \in Bytes /\ t \in Seq(Bytes) /\ pending = <<b>> \o t
      BY <1>1, <1>2, <1>4
    <2>2. <<b>> \in Seq(Bytes)
      BY <2>1
    <2>3. Consumed => pending' = t
      BY <1>4 DEF Consumed
    <2>4. PushedBack(b) => pending' = <<b>> \o t
      BY <1>4 DEF PushedBack
    <2>. HIDE DEF b, t
    <2>5. (<<b>> \o t) \o line = <<b>> \o (t \o line) /\ t \o line \in Seq(Bytes) /\ <<b>> \o t \in Seq(Bytes)
      BY <1>1, <2>1, <2>2, Regroup
    <2>6. Ready = <<b>> \o (t \o line)
      BY <2>1, <2>5 DEF Ready
    <2>7. Head(Ready) = b
      BY <2>1, <2>5, <2>6
    <2> QED
      BY <1>1, <1>4, <2>1, <2>3, <2>4, <2>5, <2>6, <2>7
  <1> QED
    BY <1>3, <1>4

\* A byte of a key is taken.
LEMMA ConsumedKept ==
    ASSUME KeysInv, KeyTypes', at \in Keyed, at' \notin Probing, stash' = stash,
           NEW b \in Bytes, NEW r \in Seq(Bytes), Ready = <<b>> \o r,
           \/ pending' \o line' = r /\ Phase' = Stepped(Phase, b)
           \/ pending' \o line' = <<b>> \o r /\ Stepped(Phase', b) = Stepped(Phase, b)
           \/ Stepped(Phase, b).at = "lost",
           UNCHANGED <<late, dropped, expected>>
    PROVE  KeysInv'
  <1>1. KeyTypes
    BY InvParts
  <1>2. Phase \in States /\ stash = <<>> /\ Held = <<>> /\ Held' = <<>>
    BY <1>1, RestType, PhaseKeyed DEF KeyTypes, Held, Probing
  <1>3. Phase' \in States
    <2>1. ASSUME NEW o \in Seq(Kinds)
          PROVE  At("key", FALSE, o) \in States
      BY AtType DEF Ats
    <2>2. Phase' = [at |-> at', params |-> params', paste |-> inPaste', out |-> decoded'] \/ Phase' = At("key", FALSE, decoded')
      BY DEF Phase, At
    <2>3. at' \notin Probing \cup {"away", "gone"} =>
             [at |-> at', params |-> params', paste |-> inPaste', out |-> decoded'] \in States
      BY DEF KeyTypes, States, Probing, Reading
    <2>4. at' \in Probing \cup {"away", "gone"} => Phase' = At("key", FALSE, decoded')
      BY DEF Phase, At
    <2>5. at' \notin Probing \cup {"away", "gone"} =>
             Phase' = [at |-> at', params |-> params', paste |-> inPaste', out |-> decoded']
      BY DEF Phase
    <2>6. decoded' \in Seq(Kinds)
      BY DEF KeyTypes
    <2> QED
      BY <2>1, <2>3, <2>4, <2>5, <2>6
  <1>4. Rest = <<b>> \o r /\ <<b>> \o r \in Seq(Bytes)
    <2>1. <<>> \o <<>> = <<>> /\ <<b>> \in Seq(Bytes) /\ <<b>> \o r \in Seq(Bytes)
      OBVIOUS
    <2>2. Rest = <<>> \o (<<b>> \o r)
      BY <1>2, <2>1 DEF Rest, Ready
    <2> QED
      BY <2>1, <2>2, Regroup
  <1>5. Rest' = pending' \o line'
    <2>1. pending' \o line' \in Seq(Bytes)
      BY Concat DEF KeyTypes
    <2>2. Rest' = (<<>> \o <<>>) \o (pending' \o line')
      BY <1>2 DEF Rest
    <2> QED
      BY <2>1, <2>2, Regroup
  <1>6. Decoded = After(Decoder, Stepped(Phase, b), r)
    BY <1>2, <1>4, DecodedFirst DEF Decoded
  <1>7. ASSUME ~late, ~dropped
        PROVE  After(Decoder, Phase', Rest') = Decoded
    <2>1. CASE pending' \o line' = r /\ Phase' = Stepped(Phase, b)
      BY <1>5, <1>6, <2>1
    <2>2. CASE pending' \o line' = <<b>> \o r /\ Stepped(Phase', b) = Stepped(Phase, b)
      <3>1. After(Decoder, Phase', <<b>> \o r) = After(Decoder, Stepped(Phase', b), r)
        BY <1>3, DecodedFirst
      <3> QED
        BY <1>5, <1>6, <2>2, <3>1
    <2>3. CASE Stepped(Phase, b).at = "lost"
      <3>1. Stepped(Phase, b) \in States
        BY <1>2, SteppedType
      <3>2. Decoded.at = "lost"
        BY <1>6, <2>3, <3>1, StaysLost
      <3>3. Settled(Decoded)
        BY <1>7, InvParts
      <3> QED
        BY <3>2, <3>3 DEF Settled
    <2> QED
      BY <2>1, <2>2, <2>3
  <1>8. ASSUME ~late', ~dropped'
        PROVE  Decodes(After(Decoder, Phase, Rest))'
    <2>1. After(Decoder, Phase', Rest') = Decoded
      BY <1>7, <1>8
    <2>2. Settled(Decoded) /\ Decoded.out = expected
      BY <1>8, InvParts
    <2>3. Settled(After(Decoder, Phase', Rest')) /\ After(Decoder, Phase', Rest').out = expected'
      BY <2>1, <2>2
    <2> QED
      BY <2>3 DEF Decodes, Settled
  <1> QED
    BY <1>8 DEF KeysInv

\* The byte b is taken from what is ready, or looked at and put back.
Takes(b, r)  == /\ b \in Bytes /\ r \in Seq(Bytes) /\ Ready = <<b>> \o r
                /\ line' \in Seq(Bytes) /\ pending' \in Seq(Bytes) /\ pending' \o line' = r
                /\ UNCHANGED <<late, expected>>
Leaves(b, r) == /\ b \in Bytes /\ r \in Seq(Bytes) /\ Ready = <<b>> \o r
                /\ line' \in Seq(Bytes) /\ pending' \in Seq(Bytes) /\ pending' \o line' = <<b>> \o r
                /\ UNCHANGED <<late, expected>>

LEMMA ReadTakes ==
    ASSUME KeyTypes, ReadByte
    PROVE  \E b \in Bytes, r \in Seq(Bytes) :
              /\ b = Head(Ready)
              /\ Consumed => Takes(b, r)
              /\ PushedBack(b) => Leaves(b, r)
  <1>1. /\ Ready # <<>> /\ line' = IF pending = <<>> THEN Tail(line) ELSE line
        /\ UNCHANGED <<late, expected>>
    BY DEF ReadByte
  <1>2. PICK b \in Bytes, r \in Seq(Bytes) :
              /\ b = Head(Ready) /\ Ready = <<b>> \o r /\ line' \in Seq(Bytes)
              /\ Consumed => /\ pending' \in Seq(Bytes) /\ pending' \o line' = r
                             /\ pending = <<>> => pending' = <<>>
              /\ PushedBack(b) => pending' \in Seq(Bytes) /\ pending' \o line' = <<b>> \o r
    BY <1>1, ReadyParts
  <1>3. b = Head(Ready) /\ (Consumed => Takes(b, r)) /\ (PushedBack(b) => Leaves(b, r))
    BY <1>1, <1>2 DEF Takes, Leaves
  <1> QED
    BY <1>3

LEMMA GivesKept ==
    ASSUME KeysInv, at \in Keyed, NEW k \in AllKinds, Returned(k), NEW b, NEW r, Takes(b, r),
           Stepped(Phase, b) = Given(Phase, k) \/ Stepped(Phase, b).at = "lost"
    PROVE  KeysInv'
  <1>1. KeyTypes
    BY InvParts
  <1>2. Phase' = Given(Phase, k) /\ at' \notin Probing
    BY <1>1, PhaseGiven
  <1>3. KeyTypes'
    BY <1>1, ReturnedTypes DEF Takes, KeyTypes
  <1>4. stash' = stash /\ dropped' = dropped
    BY <1>1, ReturnedIs
  <1>5. b \in Bytes /\ r \in Seq(Bytes) /\ Ready = <<b>> \o r /\ pending' \o line' = r
        /\ late' = late /\ expected' = expected
    BY DEF Takes
  <1>6. Phase' = Stepped(Phase, b) \/ Stepped(Phase, b).at = "lost"
    BY <1>2
  <1> QED
    BY <1>2, <1>3, <1>4, <1>5, <1>6, ConsumedKept

LEMMA WaitsKept ==
    ASSUME KeysInv, at \in Keyed, params = "", NEW w \in Keyed, ReadOn(w), w = "pasteCR" => inPaste,
           NEW b, NEW r, Takes(b, r), Stepped(Phase, b) = Wait(Phase, w)
    PROVE  KeysInv'
  <1>1. KeyTypes
    BY InvParts
  <1>2. Phase' = Wait(Phase, w) /\ at' \notin Probing
    BY <1>1, PhaseWaits
  <1>3. KeyTypes'
    BY <1>1, ReadOnTypes DEF Takes
  <1>4. stash' = stash /\ dropped' = dropped
    BY DEF ReadOn
  <1>5. b \in Bytes /\ r \in Seq(Bytes) /\ Ready = <<b>> \o r /\ pending' \o line' = r
        /\ late' = late /\ expected' = expected
    BY DEF Takes
  <1> QED
    BY <1>2, <1>3, <1>4, <1>5, ConsumedKept

\* The byte b is decoded as the first of another key.
LEMMA BackKept ==
    ASSUME KeysInv, at \in Keyed, NEW k \in AllKinds, Returned(k), NEW b, NEW r, Leaves(b, r),
           Stepped(Given(Phase, k), b) = Stepped(Phase, b) \/ Stepped(Phase, b).at = "lost"
    PROVE  KeysInv'
  <1>1. KeyTypes
    BY InvParts
  <1>2. Phase' = Given(Phase, k) /\ at' \notin Probing
    BY <1>1, PhaseGiven
  <1>3. KeyTypes'
    BY <1>1, ReturnedTypes DEF Leaves, KeyTypes
  <1>4. stash' = stash /\ dropped' = dropped
    BY <1>1, ReturnedIs
  <1>5. b \in Bytes /\ r \in Seq(Bytes) /\ Ready = <<b>> \o r /\ pending' \o line' = <<b>> \o r
        /\ late' = late /\ expected' = expected
    BY DEF Leaves
  <1>6. Stepped(Phase', b) = Stepped(Phase, b) \/ Stepped(Phase, b).at = "lost"
    BY <1>2
  <1> QED
    BY <1>2, <1>3, <1>4, <1>5, <1>6, ConsumedKept

LEMMA PhaseAt ==
    ASSUME KeyTypes, at \in Keyed
    PROVE  /\ Phase.at = at /\ Phase.params = params /\ (at # "csi" => params = "")
           /\ at = "pasteCR" => inPaste
  <1>1. Phase.at = at
    BY PhaseKeyed
  <1>2. Phase.params = params
    BY PhaseKeyed
  <1> QED
    BY <1>1, <1>2 DEF KeyTypes, Keyed

LEMMA PhasePaste ==
    ASSUME at \in Keyed
    PROVE  Phase.paste = inPaste
  BY PhaseKeyed

LEMMA KeyByteKept ==
    ASSUME KeysInv, at = "key", NEW b, NEW r, KeyByte(b), Consumed => Takes(b, r)
    PROVE  KeysInv'
  <1>1. KeyTypes /\ at \in Keyed /\ inPaste \in BOOLEAN
    BY InvParts DEF KeyTypes, Keyed
  <1>2. Takes(b, r)
    BY DEF KeyByte
  <1>3. Stepped(Phase, b) = AtKey(Phase, b)
    BY <1>1, PhaseAt DEF Stepped
  <1>4. CASE b = "esc"
    <2>1. ReadOn("escape")
      BY <1>4 DEF KeyByte, Inks, Finals
    <2>2. AtKey(Phase, b) = Wait(Phase, "escape")
      BY <1>4 DEF AtKey
    <2> QED
      BY <1>1, <1>2, <1>3, <2>1, <2>2, PhaseAt, WaitsKept DEF Keyed
  <1>5. CASE b = "lead"
    <2>1. ReadOn("wide")
      BY <1>5 DEF KeyByte, Inks, Finals
    <2>2. AtKey(Phase, b) = Wait(Phase, "wide")
      BY <1>5 DEF AtKey
    <2> QED
      BY <1>1, <1>2, <1>3, <2>1, <2>2, PhaseAt, WaitsKept DEF Keyed
  <1>6. CASE b = "cr" /\ inPaste
    <2>1. ReadOn("pasteCR")
      BY <1>6 DEF KeyByte, Inks, Finals
    <2>2. AtKey(Phase, b) = Wait(Phase, "pasteCR")
      BY <1>1, <1>6, PhasePaste DEF AtKey
    <2> QED
      BY <1>1, <1>2, <1>3, <1>6, <2>1, <2>2, PhaseAt, WaitsKept DEF Keyed
  <1>7. CASE b \notin {"esc", "lead"} /\ ~(b = "cr" /\ inPaste)
    <2>. DEFINE k == KeyMeant(inPaste, b)
    <2>1. Returned(k)
      <3>1. CASE b = "cr"
        BY <1>7, <3>1 DEF KeyByte, KeyMeant, Inks, Finals
      <3>2. CASE b = "nl"
        <4>1. CASE inPaste
          BY <3>2, <4>1 DEF KeyByte, KeyMeant, Inks, Finals
        <4>2. CASE ~inPaste
          BY <3>2, <4>2 DEF KeyByte, KeyMeant, Inks, Finals
        <4> QED
          BY <4>1, <4>2
      <3>3. CASE b = "etx"
        BY <3>3 DEF KeyByte, KeyMeant, Inks, Finals
      <3>4. CASE b \in Inks
        BY <3>4 DEF KeyByte, KeyMeant, Inks, Finals
      <3>5. CASE b \notin {"cr", "nl", "etx"} /\ b \notin Inks
        BY <1>7, <3>5 DEF KeyByte, KeyMeant
      <3> QED
        BY <3>1, <3>2, <3>3, <3>4, <3>5
    <2>2. k \in AllKinds
      BY <1>1, KeyMeantType
    <2>3. Phase.paste = inPaste
      BY <1>1, PhasePaste
    <2>4. AtKey(Phase, b) = Given(Phase, k)
      BY <1>7, <2>3 DEF AtKey
    <2>. HIDE DEF k
    <2>5. Stepped(Phase, b) = Given(Phase, k)
      BY <1>3, <2>4
    <2> QED
      BY <1>1, <1>2, <2>1, <2>2, <2>5, GivesKept
  <1> QED
    BY <1>4, <1>5, <1>6, <1>7

LEMMA PasteCRByteKept ==
    ASSUME KeysInv, at = "pasteCR", NEW b, NEW r, PasteCRByte(b),
           Consumed => Takes(b, r), PushedBack(b) => Leaves(b, r)
    PROVE  KeysInv'
  <1>1. KeyTypes /\ at \in Keyed /\ "ShiftEnter" \in AllKinds /\ Returned("ShiftEnter")
    BY InvParts, KeyMeantType DEF Keyed, PasteCRByte
  <1>2. Stepped(Phase, b) = AtPasteCR(Phase, b)
    BY <1>1, PhaseAt DEF Stepped
  <1>3. CASE b = "nl"
    <2>1. Takes(b, r)
      BY <1>3 DEF PasteCRByte
    <2>2. Stepped(Phase, b) = Given(Phase, "ShiftEnter")
      BY <1>2, <1>3 DEF AtPasteCR
    <2> QED
      BY <1>1, <2>1, <2>2, GivesKept
  <1>4. CASE b # "nl"
    <2>1. Leaves(b, r)
      BY <1>4 DEF PasteCRByte
    <2>. DEFINE q == Given(Phase, "ShiftEnter")
    <2>2. q.at = "key"
      BY DEF Given
    <2>3. Stepped(Phase, b) = AtKey(q, b)
      BY <1>2, <1>4 DEF AtPasteCR
    <2>. HIDE DEF q
    <2>4. Stepped(q, b) = AtKey(q, b)
      BY <2>2 DEF Stepped
    <2>5. Stepped(Given(Phase, "ShiftEnter"), b) = Stepped(Phase, b)
      BY <2>3, <2>4 DEF q
    <2> QED
      BY <1>1, <2>1, <2>5, BackKept
  <1> QED
    BY <1>3, <1>4

LEMMA WideByteKept ==
    ASSUME KeysInv, at = "wide", NEW b, NEW r, WideByte(b),
           Consumed => Takes(b, r), PushedBack(b) => Leaves(b, r)
    PROVE  KeysInv'
  <1>1. KeyTypes /\ at \in Keyed /\ "Char" \in AllKinds /\ "Unknown" \in AllKinds
    BY InvParts DEF Keyed, AllKinds, Kinds
  <1>2. Stepped(Phase, b) = AtWide(Phase, b)
    BY <1>1, PhaseAt DEF Stepped
  <1>3. CASE b = "more"
    <2>1. Takes(b, r) /\ Returned("Char")
      BY <1>3 DEF WideByte
    <2>2. Stepped(Phase, b) = Given(Phase, "Char")
      BY <1>2, <1>3 DEF AtWide
    <2> QED
      BY <1>1, <2>1, <2>2, GivesKept
  <1>4. CASE b # "more"
    <2>1. Leaves(b, r) /\ Returned("Unknown")
      BY <1>4 DEF WideByte
    <2>2. Stepped(Phase, b) = Lost(Phase)
      BY <1>2, <1>4 DEF AtWide
    <2> QED
      BY <1>1, <2>1, <2>2, BackKept, LostIs
  <1> QED
    BY <1>3, <1>4

LEMMA EscapeByteKept ==
    ASSUME KeysInv, at = "escape", NEW b, NEW r, EscapeByte(b), Consumed => Takes(b, r)
    PROVE  KeysInv'
  <1>1. KeyTypes /\ at \in Keyed /\ "ShiftEnter" \in AllKinds /\ "Unknown" \in AllKinds /\ Takes(b, r)
    BY InvParts DEF Keyed, AllKinds, Kinds, EscapeByte
  <1>2. Stepped(Phase, b) = AtEscape(Phase, b)
    BY <1>1, PhaseAt DEF Stepped
  <1>3. CASE b = "["
    <2>1. ReadOn("csi") /\ Stepped(Phase, b) = Wait(Phase, "csi")
      BY <1>2, <1>3 DEF EscapeByte, AtEscape
    <2> QED
      BY <1>1, <2>1, PhaseAt, WaitsKept DEF Keyed
  <1>4. CASE b = "O"
    <2>1. ReadOn("ss3") /\ Stepped(Phase, b) = Wait(Phase, "ss3")
      BY <1>2, <1>4 DEF EscapeByte, AtEscape
    <2> QED
      BY <1>1, <2>1, PhaseAt, WaitsKept DEF Keyed
  <1>5. CASE b \in {"cr", "nl"}
    <2>1. Returned("ShiftEnter") /\ Stepped(Phase, b) = Given(Phase, "ShiftEnter")
      BY <1>2, <1>5 DEF EscapeByte, AtEscape
    <2> QED
      BY <1>1, <2>1, GivesKept
  <1>6. CASE b \notin {"[", "O", "cr", "nl"}
    <2>1. Returned("Unknown")
      BY <1>6 DEF EscapeByte
    <2>2. Stepped(Phase, b) = Lost(Phase)
      BY <1>2, <1>6 DEF  AtEscape
    <2> QED
      BY <1>1, <2>1, <2>2, GivesKept, LostIs
  <1> QED
    BY <1>3, <1>4, <1>5, <1>6

LEMMA Ss3ByteKept ==
    ASSUME KeysInv, at = "ss3", NEW b, NEW r, Ss3Byte(b), Consumed => Takes(b, r)
    PROVE  KeysInv'
  <1>1. KeyTypes /\ at \in Keyed /\ "Up" \in AllKinds /\ "Unknown" \in AllKinds /\ Takes(b, r)
    BY InvParts DEF Keyed, AllKinds, Kinds, Ss3Byte
  <1>2. Stepped(Phase, b) = AtSs3(Phase, b)
    BY <1>1, PhaseAt DEF Stepped
  <1>3. CASE b = "A"
    <2>1. Returned("Up") /\ Stepped(Phase, b) = Given(Phase, "Up")
      BY <1>2, <1>3 DEF Ss3Byte, AtSs3
    <2> QED
      BY <1>1, <2>1, GivesKept
  <1>4. CASE b # "A"
    <2>1. Returned("Unknown")
      BY <1>4 DEF Ss3Byte
    <2>2. Stepped(Phase, b) = Lost(Phase)
      BY <1>2, <1>4 DEF  AtSs3
    <2> QED
      BY <1>1, <2>1, <2>2, GivesKept, LostIs
  <1> QED
    BY <1>3, <1>4

LEMMA CsiByteKept ==
    ASSUME KeysInv, at = "csi", NEW b, NEW r, CsiByte(b), Consumed => Takes(b, r)
    PROVE  KeysInv'
  <1>1. KeyTypes /\ at \in Keyed /\ Takes(b, r)
    BY InvParts DEF Keyed, CsiByte
  <1>2. Stepped(Phase, b) = AtCsi(Phase, b) /\ Phase.params = params
    BY <1>1, PhaseAt DEF Stepped
  <1>3. CASE b \in Finals
    <2>. DEFINE k == CsiMeant(params, b)
    <2>1. CsiKey(b) = k /\ k \in AllKinds
      BY KeyMeantType DEF CsiKey, CsiMeant
    <2>2. Returned(k)
      BY <1>3, <2>1 DEF CsiByte
    <2>3. Stepped(Phase, b) = Given(Phase, k) \/ Stepped(Phase, b).at = "lost"
      <3>1. CASE params = "?" /\ Phase.paste
        <4>1. AtCsi(Phase, b) = Lost(Phase)
          BY <1>2, <1>3, <3>1 DEF AtCsi
        <4> QED
          BY <1>2, <4>1, LostIs
      <3>2. CASE ~(params = "?" /\ Phase.paste)
        <4>1. AtCsi(Phase, b) = Given(Phase, CsiMeant(Phase.params, b))
          BY <1>2, <1>3, <3>2 DEF AtCsi
        <4> QED
          BY <1>2, <4>1
      <3> QED
        BY <3>1, <3>2
    <2>. HIDE DEF k
    <2> QED
      BY <1>1, <2>1, <2>2, <2>3, GivesKept
  <1>4. CASE b \notin Finals
    <2>1. Parameter(b)
      BY <1>4 DEF CsiByte
    <2>2. b \in Bytes /\ b # ""
      BY <1>1 DEF Takes, Bytes, Inks, Finals
    <2>3. KeyTypes'
      BY <1>1, <1>4, <2>1, <2>2 DEF KeyTypes, Parameter, Takes, Probing
    <2>4. Phase' = [at |-> "csi", params |-> b, paste |-> inPaste, out |-> decoded]
      BY <2>1 DEF Parameter, Phase, Probing
    <2>5. Got(Phase, b) = Phase'
      <3>1. Phase.paste = inPaste
        BY <1>1, PhaseKeyed
      <3>2. Phase.out = decoded
        BY <1>1, PhaseKeyed
      <3> QED
        BY <2>4, <3>1, <3>2 DEF Got
    <2>6. Phase' = Stepped(Phase, b) \/ Stepped(Phase, b).at = "lost"
      <3>1. AtCsi(Phase, b) = Got(Phase, b) \/ AtCsi(Phase, b) = Lost(Phase)
        BY <1>4 DEF AtCsi
      <3> QED
        BY <1>2, <2>5, <3>1, LostIs
    <2>7. b \in Bytes /\ r \in Seq(Bytes) /\ Ready = <<b>> \o r /\ pending' \o line' = r
          /\ late' = late /\ expected' = expected
      BY <1>1 DEF Takes
    <2>8. at' \notin Probing /\ stash' = stash /\ dropped' = dropped
      BY <2>1 DEF Parameter, Probing
    <2> QED
      BY <1>1, <2>3, <2>6, <2>7, <2>8, ConsumedKept
  <1> QED
    BY <1>3, <1>4

-----------------------------------------------------------------------------
(* probeKitty. *)

\* What an answer to the probe changes: nothing, unless it comes inside of a key or of a paste.
LEMMA AnswerPassed ==
    ASSUME NEW y \in States, NEW fin \in {"u", "c"}
    PROVE  \/ After(Decoder, y, <<"esc", "[", "?", fin>>) = y
           \/ After(Decoder, y, <<"esc", "[", "?", fin>>).at = "lost"
  <1>1. "esc" \in Bytes /\ "[" \in Bytes /\ "?" \in Bytes /\ fin \in Bytes
        /\ "?" \in Inks /\ "?" \notin Finals /\ fin \in Finals
    BY DEF Bytes, Inks, Finals
  <1>2. After(Decoder, y, <<"esc", "[", "?", fin>>) = Stepped(Stepped(Stepped(Stepped(y, "esc"), "["), "?"), fin)
    BY <1>1, DecodedFour
  <1>3. CASE y.at = "key" /\ ~y.paste
    <2>1. y = At("key", FALSE, y.out) /\ y.out \in Seq(Kinds)
      <3>1. Settled(y)
        BY <1>3, StateParts DEF Settled
      <3> QED
        BY <1>3, <3>1, SettledIs, StateParts
    <2>2. After(Decoder, At("key", FALSE, y.out), <<"esc", "[", "?", fin>>) = At("key", FALSE, y.out)
      BY <2>1, AnswerDecoded
    <2> QED
      BY <2>1, <2>2
  <1>4. CASE ~(y.at = "key" /\ ~y.paste)
    <2>. DEFINE x == Stepped(y, "esc")
                z == Stepped(x, "[")
                w == Stepped(z, "?")
    <2>1. x.at = "lost" \/ (x.at = "escape" /\ x.paste)
      <3>1. CASE y.at = "key"
        <4>1. x = Wait(y, "escape")
          BY <3>1 DEF Stepped, AtKey
        <4>2. Wait(y, "escape").at = "escape"
          BY DEF Wait
        <4>3. Wait(y, "escape").paste = y.paste
          BY DEF Wait
        <4> QED
          BY <1>4, <3>1, <4>1, <4>2, <4>3
      <3>2. CASE y.at = "pasteCR"
        <4>. DEFINE g == Given(y, "ShiftEnter")
        <4>1. g.paste
          <5>1. y.paste
            BY <3>2, StateParts
          <5> QED
            BY <5>1 DEF Given
        <4>. HIDE DEF g
        <4>2. x = Wait(g, "escape")
          <5>1. x = AtPasteCR(y, "esc")
            BY <3>2 DEF Stepped
          <5>2. AtPasteCR(y, "esc") = AtKey(g, "esc")
            BY EscapeLost DEF g
          <5> QED
            BY <5>1, <5>2, EscapeLost
        <4>3. Wait(g, "escape").at = "escape"
          BY DEF Wait
        <4>4. Wait(g, "escape").paste = g.paste
          BY DEF Wait
        <4> QED
          BY <4>1, <4>2, <4>3, <4>4
      <3>3. CASE y.at \notin {"key", "pasteCR"}
        <4>1. x = Lost(y)
          BY <3>3, EscapeLost DEF Stepped
        <4> QED
          BY <4>1, LostIs
      <3> QED
        BY <3>1, <3>2, <3>3
    <2>. HIDE DEF x
    <2>2. z.at = "lost" \/ (z.at = "csi" /\ z.params = "" /\ z.paste)
      <3>1. CASE x.at = "lost"
        BY <3>1, LostIs DEF Stepped
      <3>2. CASE x.at = "escape" /\ x.paste
        <4>1. z = Wait(x, "csi")
          BY <3>2 DEF Stepped, AtEscape
        <4>2. Wait(x, "csi").at = "csi" /\ Wait(x, "csi").params = ""
          BY DEF Wait
        <4>3. Wait(x, "csi").paste = x.paste
          BY DEF Wait
        <4> QED
          BY <3>2, <4>1, <4>2, <4>3
      <3> QED
        BY <2>1, <3>1, <3>2
    <2>. HIDE DEF z
    <2>3. w.at = "lost" \/ (w.at = "csi" /\ w.params = "?" /\ w.paste)
      <3>1. CASE z.at = "lost"
        BY <3>1, LostIs DEF Stepped
      <3>2. CASE z.at = "csi" /\ z.params = "" /\ z.paste
        <4>1. w = Got(z, "?")
          <5>1. AtCsi(z, "?") = Got(z, "?")
            BY <1>1, <3>2 DEF AtCsi
          <5> QED
            BY <3>2, <5>1, SteppedIs
        <4>2. Got(z, "?").at = "csi" /\ Got(z, "?").params = "?"
          BY DEF Got
        <4>3. Got(z, "?").paste = z.paste
          BY DEF Got
        <4> QED
          BY <3>2, <4>1, <4>2, <4>3
      <3> QED
        BY <2>2, <3>1, <3>2
    <2>. HIDE DEF w
    <2>4. Stepped(w, fin) = Lost(w)
      <3>1. AtCsi(w, fin) = Lost(w) \/ w.at = "lost"
        BY <1>1, <2>3 DEF AtCsi
      <3> QED
        BY <2>3, <3>1, SteppedIs
    <2> QED
      BY <1>2, <2>4, LostIs DEF x, z, w
  <1> QED
    BY <1>3, <1>4

\* A byte is kept, or ends an answer and is not.
LEMMA ProbeReadKept ==
    ASSUME KeysInv, KeyTypes', at \in Probing, NEW b \in Bytes, NEW r \in Seq(Bytes), NEW kept \in Seq(Bytes),
           Ready = <<b>> \o r, late' = late, expected' = expected,
           Phase' = Phase, dropped' = dropped, Rest' = kept \o r,
           \/ After(Decoder, Phase, kept) = After(Decoder, Phase, (stash \o Held) \o <<b>>)
           \/ After(Decoder, Phase, (stash \o Held) \o <<b>>).at = "lost"
    PROVE  KeysInv'
  <1>1. KeyTypes
    BY InvParts
  <1>2. b \in Bytes /\ r \in Seq(Bytes) /\ Ready = <<b>> \o r /\ late' = late /\ expected' = expected
    OBVIOUS
  <1>. DEFINE had == stash \o Held
              more == had \o <<b>>
  <1>3. Phase \in States /\ Held \in Seq(Bytes) /\ stash \in Seq(Bytes) /\ <<b>> \in Seq(Bytes)
    <2>1. Phase \in States /\ Held \in Seq(Bytes) /\ stash \in Seq(Bytes)
      BY <1>1, RestType DEF KeyTypes
    <2>2. <<b>> \in Seq(Bytes)
      BY <1>2
    <2> QED
      BY <2>1, <2>2
  <1>4. had \in Seq(Bytes) /\ more \in Seq(Bytes)
    BY <1>3, Concat
  <1>5. Rest = more \o r
    <2>1. Rest = had \o (<<b>> \o r)
      BY <1>2 DEF Rest, Ready
    <2>. HIDE DEF had
    <2> QED
      <3>1. (had \o <<b>>) \o r = had \o (<<b>> \o r)
        BY <1>2, <1>3, <1>4, Regroup
      <3> QED
        BY <2>1, <3>1
  <1>. HIDE DEF more
  <1>6. After(Decoder, Phase, more) \in States /\ Decoded = After(Decoder, After(Decoder, Phase, more), r)
    BY <1>2, <1>3, <1>4, <1>5, DecodedConcat, DecodedType DEF Decoded
  <1>7. After(Decoder, Phase', Rest') = After(Decoder, After(Decoder, Phase, kept), r)
    BY <1>2, <1>3, DecodedConcat
  <1>8. ASSUME ~late', ~dropped'
        PROVE  Decodes(After(Decoder, Phase, Rest))'
    <2>1. Settled(Decoded) /\ Decoded.out = expected
      BY <1>2, <1>8, InvParts
    <2>2. After(Decoder, Phase, more).at # "lost"
      BY <1>2, <1>6, <2>1, StaysLost DEF Settled
    <2>3. After(Decoder, Phase', Rest') = Decoded
      BY <1>6, <1>7, <2>2 DEF more
    <2>4. Settled(After(Decoder, Phase', Rest')) /\ After(Decoder, Phase', Rest').out = expected'
      BY <1>2, <2>1, <2>3
    <2> QED
      BY <2>4 DEF Decodes, Settled
  <1> QED
    BY <1>8 DEF KeysInv

LEMMA ProbeKept ==
    ASSUME KeysInv, KeyTypes', at \in Probing, NEW b, NEW r, Takes(b, r), NEW kept \in Seq(Bytes),
           Phase' = Phase, dropped' = dropped, Rest' = kept \o r,
           \/ After(Decoder, Phase, kept) = After(Decoder, Phase, (stash \o Held) \o <<b>>)
           \/ After(Decoder, Phase, (stash \o Held) \o <<b>>).at = "lost"
    PROVE  KeysInv'
  <1>1. b \in Bytes /\ r \in Seq(Bytes) /\ Ready = <<b>> \o r /\ late' = late /\ expected' = expected
    BY DEF Takes
  <1> QED
    BY <1>1, ProbeReadKept

\* The keys decoded when none is waited for.
LEMMA PhaseFree ==
    ASSUME KeyTypes, at \in Probing \cup {"away", "gone"} \/ (at = "key" /\ inPaste = FALSE)
    PROVE  Phase = At("key", FALSE, decoded)
  BY DEF KeyTypes, Phase, At

LEMMA ProbeBytes ==
    ASSUME KeyTypes, at \in Probing, ReadByte
    PROVE  pending = <<>> /\ Ready = line /\ line' \in Seq(Bytes)
  <1>1. pending = <<>> /\ line \in Seq(Bytes)
    BY DEF KeyTypes
  <1>2. Ready = line
    BY <1>1, Regroup DEF Ready
  <1> QED
    BY <1>1, <1>2 DEF ReadByte

LEMMA ProbeOnIs ==
    ASSUME KeyTypes, at \in Probing, NEW x, NEW saved \in Seq(Bytes), ProbeOn(x, saved),
           NEW b, NEW r, Takes(b, r)
    PROVE  /\ KeyTypes' /\ Phase' = Phase /\ dropped' = dropped /\ Rest' = saved \o r
  <1>1. pending = <<>> /\ pending' = <<>> /\ r \in Seq(Bytes) /\ pending' \o line' = r
        /\ line' \in Seq(Bytes) /\ late' = late /\ expected' = expected
    BY DEF KeyTypes, ProbeOn, Consumed, Takes
  <1>2. stash' = saved /\ params' = "" /\ at' = "probe" /\ inPaste' = inPaste /\ decoded' = decoded
        /\ dropped' = dropped
    BY DEF ProbeOn
  <1>3. KeyTypes'
    BY <1>1, <1>2, Regroup DEF KeyTypes, Reading, Probing
  <1>4. Phase' = At("key", FALSE, decoded')
    BY <1>2 DEF Phase, Probing, At
  <1>5. Held' = <<>>
    BY <1>2 DEF Held
  <1>6. Rest' = (saved \o <<>>) \o r
    BY <1>1, <1>2, <1>5 DEF Rest
  <1> QED
    BY <1>2, <1>3, <1>4, <1>6, PhaseFree, Regroup

LEMMA ProbeByteKept ==
    ASSUME KeysInv, at = "probe", NEW b, NEW r, ProbeByte(b), Consumed => Takes(b, r)
    PROVE  KeysInv'
  <1>1. KeyTypes /\ at \in Probing /\ stash \in Seq(Bytes)
    BY InvParts DEF KeyTypes, Probing
  <1>2. Takes(b, r) /\ b \in Bytes /\ r \in Seq(Bytes)
    BY DEF ProbeByte, ProbeOn, Takes
  <1>3. Held = <<>> /\ stash \o Held = stash
    BY <1>1, Regroup DEF Held
  <1>4. Append(stash, b) = stash \o <<b>> /\ stash \o <<b>> \in Seq(Bytes)
    BY <1>1, <1>2
  <1>5. CASE b = "esc"
    <2>1. ReadOn("probeEsc") /\ Consumed
      BY <1>5 DEF ProbeByte
    <2>2. pending = <<>> /\ pending' = <<>> /\ pending' \o line' = r
          /\ line' \in Seq(Bytes) /\ late' = late /\ expected' = expected
      BY <1>1, <1>2, <2>1 DEF KeyTypes, Consumed, Takes
    <2>3. stash' = stash /\ params' = params /\ at' = "probeEsc" /\ inPaste' = inPaste /\ decoded' = decoded
          /\ dropped' = dropped /\ params = ""
      BY <1>1, <2>1 DEF ReadOn, KeyTypes
    <2>4. KeyTypes'
      BY <1>1, <2>2, <2>3, Regroup DEF KeyTypes, Reading, Probing
    <2>5. Phase' = At("key", FALSE, decoded')
      BY <2>3 DEF Phase, Probing, At
    <2>6. Phase' = Phase
      BY <1>1, <2>3, <2>5, PhaseFree
    <2>7. Held' = <<"esc">>
      BY <2>3 DEF Held
    <2>8. Rest' = (stash \o <<b>>) \o r
      BY <1>5, <2>2, <2>3, <2>7 DEF Rest
    <2> QED
      BY <1>1, <1>2, <1>3, <1>4, <2>3, <2>4, <2>6, <2>8, ProbeKept
  <1>6. CASE b # "esc"
    <2>1. ProbeOn(supported, Append(stash, b))
      BY <1>6 DEF ProbeByte
    <2>2. KeyTypes' /\ Phase' = Phase /\ dropped' = dropped /\ Rest' = Append(stash, b) \o r
      BY <1>1, <1>2, <1>4, <2>1, ProbeOnIs
    <2> QED
      BY <1>1, <1>2, <1>3, <1>4, <2>2, ProbeKept
  <1> QED
    BY <1>5, <1>6

LEMMA ProbeEscByteKept ==
    ASSUME KeysInv, at = "probeEsc", NEW b, NEW r, ProbeEscByte(b), Consumed => Takes(b, r)
    PROVE  KeysInv'
  <1>1. KeyTypes /\ at \in Probing /\ stash \in Seq(Bytes)
    BY InvParts DEF KeyTypes, Probing
  <1>2. Takes(b, r) /\ b \in Bytes /\ r \in Seq(Bytes)
    BY DEF ProbeEscByte, ProbeOn, Takes
  <1>3. Held = <<"esc">> /\ <<"esc">> \in Seq(Bytes) /\ <<b>> \in Seq(Bytes) /\ <<"esc">> \o <<b>> = <<"esc", b>>
    <2>1. Held = <<"esc">> /\ "esc" \in Bytes
      BY DEF Held, Bytes
    <2>2. <<"esc">> \in Seq(Bytes) /\ <<b>> \in Seq(Bytes)
      BY <1>2, <2>1
    <2>3. <<"esc">> \o <<b>> = <<"esc", b>>
      BY <1>2, <2>1, TwoMore
    <2> QED
      BY <2>1, <2>2, <2>3
  <1>4. (stash \o Held) \o <<b>> = stash \o <<"esc", b>> /\ stash \o <<"esc", b>> \in Seq(Bytes)
    BY <1>1, <1>3, Regroup
  <1>5. CASE b = "["
    <2>1. ReadOn("probeCsi") /\ Consumed
      BY <1>5 DEF ProbeEscByte
    <2>2. pending = <<>> /\ pending' = <<>> /\ pending' \o line' = r
          /\ line' \in Seq(Bytes) /\ late' = late /\ expected' = expected
      BY <1>1, <1>2, <2>1 DEF KeyTypes, Consumed, Takes
    <2>3. stash' = stash /\ params' = params /\ at' = "probeCsi" /\ inPaste' = inPaste /\ decoded' = decoded
          /\ dropped' = dropped /\ params = ""
      BY <1>1, <2>1 DEF ReadOn, KeyTypes
    <2>4. KeyTypes'
      BY <1>1, <2>2, <2>3, Regroup DEF KeyTypes, Reading, Probing
    <2>5. Phase' = At("key", FALSE, decoded')
      BY <2>3 DEF Phase, Probing, At
    <2>6. Phase' = Phase
      BY <1>1, <2>3, <2>5, PhaseFree
    <2>7. Held' = <<"esc", "[">> \o <<>> /\ <<"esc", "[">> \in Seq(Bytes)
      <3>1. "esc" \in Bytes /\ "[" \in Bytes
        BY DEF Bytes, Inks, Finals
      <3>2. <<"esc", "[">> \in Seq(Bytes)
        BY <3>1
      <3> QED
        BY <2>3, <3>2 DEF Held
    <2>8. Held' = <<"esc", b>>
      BY <1>5, <2>7, Regroup
    <2>9. Rest' = (stash \o <<"esc", b>>) \o r
      BY <2>2, <2>3, <2>8 DEF Rest
    <2> QED
      BY <1>1, <1>2, <1>4, <2>3, <2>4, <2>6, <2>9, ProbeKept
  <1>6. CASE b # "["
    <2>1. ProbeOn(supported, stash \o <<"esc", b>>)
      BY <1>6 DEF ProbeEscByte
    <2>2. KeyTypes' /\ Phase' = Phase /\ dropped' = dropped /\ Rest' = (stash \o <<"esc", b>>) \o r
      BY <1>1, <1>2, <1>4, <2>1, ProbeOnIs
    <2> QED
      BY <1>1, <1>2, <1>4, <2>2, ProbeKept
  <1> QED
    BY <1>5, <1>6

LEMMA SequenceHeld ==
    ASSUME KeyTypes, at = "probeCsi"
    PROVE  /\ Held = IF params = "" THEN <<"esc", "[">> ELSE <<"esc", "[", params>>
           /\ <<"esc", "[">> \in Seq(Bytes)
           /\ params # "" => params \in Bytes \ Finals
  <1>1. "esc" \in Bytes /\ "[" \in Bytes
    BY DEF Bytes, Inks, Finals
  <1>2. <<"esc", "[">> \in Seq(Bytes)
    BY <1>1
  <1>3. params # "" => params \in Bytes \ Finals
    BY DEF KeyTypes
  <1>4. CASE params = ""
    <2>1. Held = <<"esc", "[">> \o <<>>
      BY <1>4 DEF Held
    <2> QED
      BY <1>2, <1>4, <2>1, Regroup
  <1>5. CASE params # ""
    <2>1. Held = <<"esc", "[">> \o <<params>>
      BY <1>5 DEF Held
    <2> QED
      BY <1>1, <1>2, <1>3, <1>5, <2>1, OneMore
  <1> QED
    BY <1>4, <1>5

\* The sequence as it is kept.
LEMMA KeptIs ==
    ASSUME KeyTypes, at = "probeCsi", NEW b \in Bytes
    PROVE  Kept(b) = (stash \o Held) \o <<b>> /\ Kept(b) \in Seq(Bytes)
  <1>. DEFINE o == <<"esc", "[">>
              m == IF params = "" THEN <<>> ELSE <<params>>
              e == <<b>>
  <1>1. stash \in Seq(Bytes) /\ o \in Seq(Bytes) /\ e \in Seq(Bytes) /\ Held = o \o m
    <2>1. o \in Seq(Bytes)
      BY SequenceHeld
    <2>2. e \in Seq(Bytes)
      OBVIOUS
    <2>3. Held = o \o m
      BY DEF Held
    <2> QED
      BY <2>1, <2>2, <2>3 DEF KeyTypes
  <1>2. m \in Seq(Bytes)
    <2>1. CASE params = ""
      <3>1. m = <<>>
        BY <2>1
      <3>. HIDE DEF m
      <3> QED
        BY <1>1, <3>1, Regroup
    <2>2. CASE params # ""
      <3>1. m = <<params>> /\ params \in Bytes
        BY <2>2, SequenceHeld
      <3>. HIDE DEF m
      <3>2. <<params>> \in Seq(Bytes)
        BY <3>1, OneMore
      <3> QED
        BY <3>1, <3>2
    <2> QED
      BY <2>1, <2>2
  <1>3. Kept(b) = ((stash \o o) \o m) \o e
    BY DEF Kept
  <1>. HIDE DEF o, m, e
  <1>4. (stash \o o) \o m = stash \o (o \o m) /\ o \o m \in Seq(Bytes)
    BY <1>1, <1>2, Regroup
  <1>5. stash \o (o \o m) \in Seq(Bytes)
    BY <1>1, <1>4, Concat
  <1>6. Kept(b) = (stash \o Held) \o e
    BY <1>1, <1>3, <1>4
  <1>7. Kept(b) \in Seq(Bytes)
    BY <1>1, <1>4, <1>5, <1>6, Concat
  <1> QED
    BY <1>6, <1>7 DEF e

LEMMA ProbeParameterKept ==
    ASSUME KeysInv, at = "probeCsi", NEW b, NEW r, b \notin Finals, Consumed, Parameter(b), Takes(b, r)
    PROVE  KeysInv'
  <1>1. KeyTypes /\ at \in Probing /\ stash \in Seq(Bytes)
    BY InvParts DEF KeyTypes, Probing
  <1>2. b \in Bytes /\ r \in Seq(Bytes) /\ "esc" \in Bytes /\ "[" \in Bytes /\ <<b>> \in Seq(Bytes)
    <2>1. b \in Bytes /\ r \in Seq(Bytes)
      BY DEF Takes
    <2>2. "esc" \in Bytes /\ "[" \in Bytes
      BY DEF Bytes, Inks, Finals
    <2>3. <<b>> \in Seq(Bytes)
      BY <2>1
    <2> QED
      BY <2>1, <2>2, <2>3
  <1>3. b # ""
    BY <1>2 DEF Bytes, Inks, Finals
  <1>4. pending = <<>> /\ pending' = <<>> /\ pending' \o line' = r
        /\ line' \in Seq(Bytes) /\ late' = late /\ expected' = expected
    BY <1>1 DEF KeyTypes, Consumed, Takes
  <1>5. stash' = stash /\ params' = b /\ at' = "probeCsi" /\ inPaste' = inPaste /\ decoded' = decoded
        /\ dropped' = dropped
    BY DEF Parameter
  <1>6. KeyTypes'
    BY <1>1, <1>2, <1>4, <1>5, Regroup DEF KeyTypes, Reading, Probing
  <1>7. Phase' = At("key", FALSE, decoded')
    BY <1>5 DEF Phase, Probing, At
  <1>8. Phase' = Phase
    BY <1>1, <1>5, <1>7, PhaseFree
  <1>9. Held' = <<"esc", "[", b>>
    <2>1. Held' = <<"esc", "[">> \o <<b>>
      BY <1>3, <1>5 DEF Held
    <2> QED
      BY <1>2, <2>1, OneMore
  <1>. DEFINE kept == stash \o <<"esc", "[", b>>
  <1>10. <<"esc", "[", b>> \in Seq(Bytes)
    BY <1>2
  <1>11. kept \in Seq(Bytes)
    BY <1>1, <1>10, Concat
  <1>12. Rest' = kept \o r
    BY <1>4, <1>5, <1>9 DEF Rest
  <1>13. Phase \in States /\ Held \in Seq(Bytes)
    BY <1>1, RestType
  <1>14. CASE params = ""
    <2>1. Held = <<"esc", "[">>
      BY <1>1, <1>14, SequenceHeld
    <2>2. Held \o <<b>> = <<"esc", "[", b>>
      BY <1>2, <2>1, OneMore
    <2>3. kept = (stash \o Held) \o <<b>>
      <3>1. (stash \o Held) \o <<b>> = stash \o (Held \o <<b>>)
        BY <1>1, <1>2, <1>13, Regroup
      <3> QED
        BY <2>2, <3>1
    <2>. HIDE DEF kept
    <2> QED
      BY <1>1, <1>5, <1>6, <1>8, <1>11, <1>12, <2>3, ProbeKept
  <1>15. CASE params # ""
    <2>1. Held = <<"esc", "[", params>> /\ params \in Bytes \ Finals
      BY <1>1, <1>15, SequenceHeld
    <2>2. Held \o <<b>> = <<"esc", "[", params, b>>
      <3>1. <<"esc", "[", params>> \o <<b>> = <<"esc", "[", params, b>>
        <4>1. params \in Bytes
          BY <2>1
        <4> QED
          BY <1>2, <4>1, FourMore
      <3> QED
        BY <2>1, <3>1
    <2>3. (stash \o Held) \o <<b>> = stash \o <<"esc", "[", params, b>>
      <3>1. (stash \o Held) \o <<b>> = stash \o (Held \o <<b>>)
        BY <1>1, <1>2, <1>13, Regroup
      <3> QED
        BY <2>2, <3>1
    <2>4. <<"esc", "[", params, b>> \in Seq(Bytes)
      <3>1. Held \o <<b>> \in Seq(Bytes)
        BY <1>2, <1>13, Concat
      <3> QED
        BY <2>2, <3>1
    <2>. DEFINE y == After(Decoder, Phase, stash)
    <2>5. y \in States
      BY <1>1, <1>13, DecodedType
    <2>6. After(Decoder, Phase, stash \o <<"esc", "[", params, b>>) = After(Decoder, y, <<"esc", "[", params, b>>)
      BY <1>1, <1>13, <2>4, DecodedConcat
    <2>. HIDE DEF y
    <2>7. After(Decoder, y, <<"esc", "[", params, b>>).at = "lost"
      BY <1>2, <2>1, <2>5, SecondParameter
    <2>8. After(Decoder, Phase, (stash \o Held) \o <<b>>).at = "lost"
      BY <2>3, <2>6, <2>7
    <2>. HIDE DEF kept
    <2> QED
      BY <1>1, <1>5, <1>6, <1>8, <1>11, <1>12, <2>8, ProbeKept
  <1> QED
    BY <1>14, <1>15

\* An answer is not kept.
LEMMA AnswerLeft ==
    ASSUME KeyTypes, at = "probeCsi", NEW b, IsAnswer(b)
    PROVE  \/ After(Decoder, Phase, stash) = After(Decoder, Phase, (stash \o Held) \o <<b>>)
           \/ After(Decoder, Phase, (stash \o Held) \o <<b>>).at = "lost"
  <1>1. b \in {"u", "c"} /\ params = "?"
    BY DEF IsAnswer
  <1>2. b \in Bytes /\ "esc" \in Bytes /\ "[" \in Bytes /\ "?" \in Bytes
    BY <1>1 DEF Bytes, Inks, Finals
  <1>3. stash \in Seq(Bytes) /\ Phase \in States /\ Held \in Seq(Bytes) /\ Held = <<"esc", "[", "?">>
    BY <1>1, RestType, SequenceHeld DEF KeyTypes
  <1>4. Held \o <<b>> = <<"esc", "[", "?", b>>
    <2>1. <<"esc", "[", "?">> \o <<b>> = <<"esc", "[", "?", b>>
      BY <1>2, FourMore
    <2> QED
      BY <1>2, <1>3, <2>1
  <1>5. <<b>> \in Seq(Bytes)
    BY <1>2
  <1>6. (stash \o Held) \o <<b>> = stash \o <<"esc", "[", "?", b>>
    BY <1>3, <1>4, <1>5, Regroup
  <1>7. <<"esc", "[", "?", b>> \in Seq(Bytes)
    <2>1. Held \o <<b>> \in Seq(Bytes)
      BY <1>3, <1>5, Concat
    <2> QED
      BY <1>4, <2>1
  <1>. DEFINE y == After(Decoder, Phase, stash)
  <1>8. y \in States
    BY <1>3, DecodedType
  <1>9. After(Decoder, Phase, stash \o <<"esc", "[", "?", b>>) = After(Decoder, y, <<"esc", "[", "?", b>>)
    BY <1>3, <1>7, DecodedConcat
  <1>. HIDE DEF y
  <1>10. After(Decoder, y, <<"esc", "[", "?", b>>) = y \/ After(Decoder, y, <<"esc", "[", "?", b>>).at = "lost"
    BY <1>1, <1>8, AnswerPassed
  <1> QED
    BY <1>6, <1>9, <1>10 DEF y

\* The probe ends: what it kept is read first.
LEMMA ProbedIs ==
    ASSUME KeyTypes, at \in Probing, NEW x, Probed(x, <<>>, stash), line' \in Seq(Bytes),
           late' \in BOOLEAN, expected' = expected
    PROVE  KeyTypes' /\ Phase' = Phase /\ dropped' = dropped /\ Rest' = stash \o line'
  <1>1. stash \in Seq(Bytes) /\ stash \o <<>> = stash
    BY Regroup DEF KeyTypes
  <1>2. pending' = stash /\ stash' = <<>> /\ params' = "" /\ at' = "key" /\ inPaste' = inPaste
        /\ decoded' = decoded /\ dropped' = dropped
    BY <1>1 DEF Probed
  <1>3. ~inPaste
    BY DEF KeyTypes
  <1>4. KeyTypes'
    BY <1>1, <1>2, Regroup DEF KeyTypes, Reading, Probing
  <1>5. inPaste' = FALSE
    BY <1>2, <1>3 DEF KeyTypes
  <1>6. Phase' = [at |-> "key", params |-> "", paste |-> inPaste', out |-> decoded']
    BY <1>2 DEF Phase, Probing
  <1>7. Phase' = Phase
    BY <1>2, <1>5, <1>6, PhaseFree DEF At
  <1>8. Held' = <<>>
    BY <1>2 DEF Held
  <1>9. Rest' = (<<>> \o <<>>) \o (stash \o line')
    BY <1>2, <1>8 DEF Rest
  <1>10. stash \o line' \in Seq(Bytes)
    BY <1>1, Concat
  <1> QED
    BY <1>2, <1>4, <1>7, <1>9, <1>10, Regroup

LEMMA ProbeCsiByteKept ==
    ASSUME KeysInv, at = "probeCsi", NEW b, NEW r, ProbeCsiByte(b), Consumed => Takes(b, r),
           Ready = <<b>> \o r, b \in Bytes, r \in Seq(Bytes), line' = Tail(line), pending = <<>>,
           late' = late, expected' = expected
    PROVE  KeysInv'
  <1>1. KeyTypes /\ at \in Probing /\ stash \in Seq(Bytes) /\ line \in Seq(Bytes)
    BY InvParts DEF KeyTypes, Probing
  <1>2. CASE b \notin Finals
    <2>1. Consumed /\ Parameter(b)
      BY <1>2 DEF ProbeCsiByte
    <2> QED
      BY <1>2, <2>1, ProbeParameterKept
  <1>3. CASE b \in Finals /\ ~IsAnswer(b)
    <2>1. ProbeOn(supported, Kept(b))
      BY <1>3 DEF ProbeCsiByte
    <2>2. Takes(b, r)
      BY <2>1 DEF ProbeOn
    <2>3. Kept(b) = (stash \o Held) \o <<b>> /\ Kept(b) \in Seq(Bytes)
      BY <1>1, KeptIs
    <2>4. KeyTypes' /\ Phase' = Phase /\ dropped' = dropped /\ Rest' = Kept(b) \o r
      BY <1>1, <2>1, <2>2, <2>3, ProbeOnIs
    <2> QED
      BY <1>1, <2>2, <2>3, <2>4, ProbeKept
  <1>4. CASE b \in Finals /\ IsAnswer(b) /\ b = "u"
    <2>1. ProbeOn(TRUE, stash)
      BY <1>4 DEF ProbeCsiByte
    <2>2. Takes(b, r)
      BY <2>1 DEF ProbeOn
    <2>3. KeyTypes' /\ Phase' = Phase /\ dropped' = dropped /\ Rest' = stash \o r
      BY <1>1, <2>1, <2>2, ProbeOnIs
    <2>4. \/ After(Decoder, Phase, stash) = After(Decoder, Phase, (stash \o Held) \o <<b>>)
          \/ After(Decoder, Phase, (stash \o Held) \o <<b>>).at = "lost"
      BY <1>1, <1>4, AnswerLeft
    <2> QED
      BY <1>1, <2>2, <2>3, <2>4, ProbeKept
  <1>5. CASE b \in Finals /\ IsAnswer(b) /\ b # "u"
    <2>1. Probed(supported, <<>>, stash)
      BY <1>5 DEF ProbeCsiByte
    <2>2. line' = r /\ r \in Seq(Bytes)
      <3>1. line = <<b>> \o r
        BY <1>1, Regroup DEF Ready
      <3> QED
        BY <3>1
    <2>3. KeyTypes' /\ Phase' = Phase /\ dropped' = dropped /\ Rest' = stash \o r
      BY <1>1, <2>1, <2>2, ProbedIs DEF KeyTypes
    <2>4. \/ After(Decoder, Phase, stash) = After(Decoder, Phase, (stash \o Held) \o <<b>>)
          \/ After(Decoder, Phase, (stash \o Held) \o <<b>>).at = "lost"
      BY <1>1, <1>5, AnswerLeft
    <2> QED
      BY <1>1, <2>3, <2>4, ProbeReadKept
  <1> QED
    BY <1>2, <1>3, <1>4, <1>5

LEMMA ReadByteKept ==
    ASSUME KeysInv, ReadByte
    PROVE  KeysInv'
  <1>1. KeyTypes
    BY InvParts
  <1>2. PICK b \in Bytes, r \in Seq(Bytes) :
            /\ b = Head(Ready)
            /\ Consumed => Takes(b, r)
            /\ PushedBack(b) => Leaves(b, r)
    BY <1>1, ReadTakes
  <1>3. \/ at = "key" /\ KeyByte(b)
        \/ at = "pasteCR" /\ PasteCRByte(b)
        \/ at = "wide" /\ WideByte(b)
        \/ at = "escape" /\ EscapeByte(b)
        \/ at = "csi" /\ CsiByte(b)
        \/ at = "ss3" /\ Ss3Byte(b)
        \/ at = "probe" /\ ProbeByte(b)
        \/ at = "probeEsc" /\ ProbeEscByte(b)
        \/ at = "probeCsi" /\ ProbeCsiByte(b)
    BY <1>2 DEF ReadByte
  <1>4. CASE at = "key" /\ KeyByte(b)
    BY <1>2, <1>4, KeyByteKept
  <1>5. CASE at = "pasteCR" /\ PasteCRByte(b)
    BY <1>2, <1>5, PasteCRByteKept
  <1>6. CASE at = "wide" /\ WideByte(b)
    BY <1>2, <1>6, WideByteKept
  <1>7. CASE at = "escape" /\ EscapeByte(b)
    BY <1>2, <1>7, EscapeByteKept
  <1>8. CASE at = "csi" /\ CsiByte(b)
    BY <1>2, <1>8, CsiByteKept
  <1>9. CASE at = "ss3" /\ Ss3Byte(b)
    BY <1>2, <1>9, Ss3ByteKept
  <1>10. CASE at = "probe" /\ ProbeByte(b)
    BY <1>2, <1>10, ProbeByteKept
  <1>11. CASE at = "probeEsc" /\ ProbeEscByte(b)
    BY <1>2, <1>11, ProbeEscByteKept
  <1>12. CASE at = "probeCsi" /\ ProbeCsiByte(b)
    <2>1. pending = <<>> /\ Ready = line /\ line \in Seq(Bytes) /\ Ready # <<>>
      BY <1>1, <1>12, ProbeBytes DEF KeyTypes, Probing, ReadByte
    <2>2. line' = Tail(line) /\ late' = late /\ expected' = expected
      BY <2>1 DEF ReadByte
    <2>3. Ready = <<b>> \o Tail(line) /\ Tail(line) \in Seq(Bytes)
      BY <1>2, <2>1
    <2>4. Consumed => Takes(b, Tail(line))
      <3>1. ASSUME Consumed
            PROVE  pending' = <<>>
        BY <2>1, <3>1 DEF Consumed
      <3>2. <<>> \o Tail(line) = Tail(line) /\ <<>> \in Seq(Bytes)
        BY <2>3, Regroup
      <3> QED
        BY <2>2, <2>3, <3>1, <3>2 DEF Takes
    <2> QED
      BY <1>12, <2>1, <2>2, <2>3, <2>4, ProbeCsiByteKept
  <1> QED
    BY <1>3, <1>4, <1>5, <1>6, <1>7, <1>8, <1>9, <1>10, <1>11, <1>12

\* What is to be decoded stays as it is.
LEMMA SameKept ==
    ASSUME KeysInv, KeyTypes', Phase' = Phase, Rest' = Rest, expected' = expected,
           late' = late, dropped' = dropped
    PROVE  KeysInv'
  <1>1. ASSUME ~late', ~dropped'
        PROVE  Decodes(After(Decoder, Phase, Rest))'
    <2>1. Settled(Decoded) /\ Decoded.out = expected
      BY <1>1, InvParts
    <2>2. Settled(After(Decoder, Phase', Rest')) /\ After(Decoder, Phase', Rest').out = expected'
      BY <2>1 DEF Decoded
    <2> QED
      BY <2>2 DEF Decodes, Settled
  <1> QED
    BY <1>1 DEF KeysInv

LEMMA StartEntryKept ==
    ASSUME KeysInv, StartEntry
    PROVE  KeysInv'
  <1>1. KeyTypes /\ at = "away" /\ ~inPaste /\ params = ""
    BY InvParts DEF StartEntry, KeyTypes, Probing
  <1>2. /\ line' = line /\ stash' = stash /\ params' = params /\ decoded' = decoded /\ inPaste' = FALSE
        /\ late' = late /\ expected' = expected
    BY DEF StartEntry
  <1>3. Phase = At("key", FALSE, decoded)
    BY <1>1, PhaseFree
  <1>4. at' \in {"gone", "key", "probe"}
    BY DEF StartEntry
  <1>5. Phase' = At("key", FALSE, decoded')
    BY <1>1, <1>2, <1>4 DEF Phase, Probing, At
  <1>6. Held = <<>> /\ Held' = <<>>
    BY <1>1, <1>4 DEF Held
  <1>7. CASE closed
    <2>1. at' = "gone" /\ pending' = pending /\ dropped' = dropped
      BY <1>7 DEF StartEntry
    <2>2. KeyTypes'
      BY <1>1, <1>2, <2>1 DEF KeyTypes, Reading, Probing
    <2>3. Rest' = Rest
      BY <1>2, <1>6, <2>1 DEF Rest
    <2> QED
      BY <1>2, <1>3, <1>5, <2>1, <2>2, <2>3, SameKept
  <1>8. CASE ~closed
    <2>1. dropped' = (dropped \/ pending # <<>>) /\ pending' = <<>>
      BY <1>8 DEF StartEntry
    <2>2. <<>> \in Seq(Bytes)
      BY Regroup
    <2>3. stash = <<>>
      BY <1>1 DEF KeyTypes, Probing
    <2>4. dropped' \in BOOLEAN
      BY <1>1, <2>1 DEF KeyTypes
    <2>5. KeyTypes'
      BY <1>1, <1>2, <1>4, <2>1, <2>2, <2>3, <2>4 DEF KeyTypes, Reading, Probing
    <2>6. CASE dropped'
      BY <2>5, <2>6 DEF KeysInv
    <2>7. CASE ~dropped'
      <3>1. ~dropped /\ pending = <<>> /\ pending' = pending
        BY <2>1, <2>7
      <3>2. dropped' = dropped
        BY <1>1, <2>4, <2>7, <3>1 DEF KeyTypes
      <3>3. Rest' = Rest
        BY <1>2, <1>6, <3>1 DEF Rest
      <3> QED
        BY <1>2, <1>3, <1>5, <2>5, <3>2, <3>3, SameKept
    <2> QED
      BY <2>6, <2>7
  <1> QED
    BY <1>7, <1>8

\* No byte is on its way: the decoder is done, or waits for more of an Escape.
LEMMA QuietIs ==
    ASSUME KeysInv, pending = <<>>, line = <<>>, ~late, ~dropped
    PROVE  /\ at \notin {"pasteCR", "wide", "csi", "ss3", "probeCsi"}
           /\ at = "key" => inPaste = FALSE
           /\ at \in Keyed => Settled(Phase) /\ Phase.out = expected /\ inPaste = FALSE
  <1>1. KeyTypes /\ Settled(Decoded) /\ Decoded.out = expected
    BY InvParts
  <1>2. stash \in Seq(Bytes) /\ Held \in Seq(Bytes) /\ stash \o Held \in Seq(Bytes) /\ Phase \in States
    <2>1. stash \in Seq(Bytes) /\ Held \in Seq(Bytes) /\ Phase \in States
      BY <1>1, RestType DEF KeyTypes
    <2> QED
      BY <2>1, Concat
  <1>3. Rest = stash \o Held
    <2>1. Rest = (stash \o Held) \o (<<>> \o <<>>)
      BY DEF Rest
    <2>2. <<>> \o <<>> = <<>>
      OBVIOUS
    <2> QED
      BY <1>2, <2>1, <2>2, Regroup
  <1>4. ASSUME at \in Keyed
        PROVE  Settled(Phase) /\ Phase.out = expected
    <2>1. stash = <<>> /\ Held = <<>>
      BY <1>1, <1>4, PhaseKeyed DEF KeyTypes
    <2>2. Rest = <<>>
      BY <1>2, <1>3, <2>1, Regroup
    <2>3. Decoded = Phase
      BY <1>2, <2>2, AfterNone DEF Decoded
    <2> QED
      BY <1>1, <2>3
  <1>5. ASSUME at \in Keyed
        PROVE  at \in {"key", "escape"} /\ inPaste = FALSE
    <2>1. Phase.at \in {"key", "escape"} /\ ~Phase.paste
      BY <1>4, <1>5 DEF Settled
    <2>2. Phase.at = at
      BY <1>1, <1>5, PhaseAt
    <2>3. Phase.paste = inPaste
      BY <1>5, PhasePaste
    <2> QED
      BY <1>1, <2>1, <2>2, <2>3 DEF KeyTypes
  <1>6. at # "probeCsi"
    <2>1. SUFFICES ASSUME at = "probeCsi" PROVE FALSE
      OBVIOUS
    <2>. DEFINE y == After(Decoder, Phase, stash)
                x == Stepped(Stepped(y, "esc"), "[")
    <2>2. y \in States /\ Decoded = After(Decoder, y, Held)
      BY <1>2, <1>3, DecodedType, DecodedConcat DEF Decoded
    <2>. HIDE DEF y
    <2>3. x \in States /\ x.at \in {"csi", "lost"}
      BY <2>2, OpenedAnywhere
    <2>. HIDE DEF x
    <2>4. "esc" \in Bytes /\ "[" \in Bytes
      BY DEF Bytes, Inks, Finals
    <2>5. CASE params = ""
      <3>1. Held = <<"esc", "[">>
        BY <1>1, <2>1, <2>5, SequenceHeld
      <3>2. Decoded = x
        BY <2>2, <2>4, <3>1, DecodedTwo DEF x
      <3> QED
        BY <1>1, <2>3, <3>2 DEF Settled
    <2>6. CASE params # ""
      <3>1. Held = <<"esc", "[", params>> /\ params \in Bytes \ Finals
        BY <1>1, <2>1, <2>6, SequenceHeld
      <3>2. After(Decoder, y, <<"esc", "[", params>>) = Stepped(x, params)
        BY <2>2, <2>4, <3>1, DecodedThree DEF x
      <3>3. Decoded = Stepped(x, params)
        BY <2>2, <3>1, <3>2
      <3>4. Stepped(x, params).at \in {"csi", "lost"}
        BY <2>3, <3>1, ParameterWaits
      <3> QED
        BY <1>1, <3>3, <3>4 DEF Settled
    <2> QED
      BY <2>5, <2>6
  <1> QED
    BY <1>4, <1>5, <1>6 DEF Keyed

\* A key is given up, or the wait for one is.
LEMMA NoByteIs ==
    ASSUME KeyTypes, NoByte
    PROVE  /\ pending = <<>> /\ line' = line /\ expected' = expected /\ late' \in BOOLEAN
           /\ late' \/ (line = <<>> /\ late' = late)
           /\ dropped' = dropped
           /\ KeyTypes'
  <1>1. pending = <<>> /\ line' = line /\ expected' = expected
    BY DEF NoByte, terminalVars
  <1>2. late' \in BOOLEAN /\ (late' \/ (line = <<>> /\ late' = late))
    BY DEF NoByte, KeyTypes
  <1>3. line' \in Seq(Bytes) /\ <<>> \in Seq(Bytes)
    BY <1>1, Regroup DEF KeyTypes
  <1>4. "Unknown" \in AllKinds /\ "ShiftEnter" \in AllKinds
    BY DEF AllKinds, Kinds
  <1>5. CASE at = "key" /\ Hangup /\ UNCHANGED <<pending, stash, params, inPaste, decoded, dropped>>
    BY <1>1, <1>2, <1>5 DEF KeyTypes, Hangup, Reading, Probing
  <1>6. CASE at = "key" /\ inPaste' = FALSE /\ UNCHANGED <<at, pending, stash, params, decoded, dropped>>
    BY <1>1, <1>2, <1>6 DEF KeyTypes, Reading, Probing
  <1>7. CASE at = "pasteCR" /\ UNCHANGED pending /\ Returned("ShiftEnter")
    <2>1. at \in Keyed /\ pending' \in Seq(Bytes)
      BY <1>7 DEF Keyed, KeyTypes
    <2>2. KeyTypes'
      BY <1>1, <1>2, <1>3, <1>4, <1>7, <2>1, ReturnedTypes
    <2> QED
      BY <1>1, <1>2, <2>2, <1>7 DEF Returned
  <1>8. CASE at \in {"wide", "escape", "csi", "ss3"} /\ UNCHANGED pending /\ Returned("Unknown")
    <2>1. at \in Keyed /\ pending' \in Seq(Bytes)
      BY <1>8 DEF Keyed, KeyTypes
    <2>2. KeyTypes'
      BY <1>1, <1>2, <1>3, <1>4, <1>8, <2>1, ReturnedTypes
    <2> QED
      BY <1>1, <1>2, <2>2, <1>8 DEF Returned
  <1>9. CASE at \in {"probe", "probeCsi"} /\ Probed(supported, <<>>, stash)
    <2>1. KeyTypes' /\ dropped' = dropped
      BY <1>1, <1>2, <1>3, <1>9, ProbedIs DEF Probing
    <2> QED
      BY <1>1, <1>2, <2>1
  <1>10. CASE at = "probeEsc" /\ ProbeOn(supported, Append(stash, "esc"))
    <2>1. Append(stash, "esc") \in Seq(Bytes)
      <3>1. "esc" \in Bytes /\ stash \in Seq(Bytes)
        BY DEF Bytes, KeyTypes
      <3> QED
        BY <3>1
    <2>2. stash' = Append(stash, "esc") /\ params' = "" /\ at' = "probe" /\ inPaste' = inPaste
          /\ decoded' = decoded /\ dropped' = dropped /\ pending' = <<>>
      BY <1>1, <1>10 DEF ProbeOn, Consumed
    <2>3. KeyTypes'
      BY <1>1, <1>2, <1>3, <1>10, <2>1, <2>2 DEF KeyTypes, Reading, Probing
    <2> QED
      BY <1>1, <1>2, <2>2, <2>3
  <1>11. \/ at = "key" /\ Hangup /\ UNCHANGED <<pending, stash, params, inPaste, decoded, dropped>>
         \/ at = "key" /\ inPaste' = FALSE /\ UNCHANGED <<at, pending, stash, params, decoded, dropped>>
         \/ at = "pasteCR" /\ UNCHANGED pending /\ Returned("ShiftEnter")
         \/ at \in {"wide", "escape", "csi", "ss3"} /\ UNCHANGED pending /\ Returned("Unknown")
         \/ at \in {"probe", "probeCsi"} /\ Probed(supported, <<>>, stash)
         \/ at = "probeEsc" /\ ProbeOn(supported, Append(stash, "esc"))
    BY DEF NoByte
  <1> QED
    BY <1>5, <1>6, <1>7, <1>8, <1>9, <1>10, <1>11

LEMMA NoByteKept ==
    ASSUME KeysInv, NoByte
    PROVE  KeysInv'
  <1>1. KeyTypes
    BY InvParts
  <1>2. /\ pending = <<>> /\ line' = line /\ expected' = expected
        /\ late' \/ (line = <<>> /\ late' = late)
        /\ dropped' = dropped
        /\ KeyTypes'
    BY <1>1, NoByteIs
  <1>3. CASE late' \/ dropped'
    BY <1>2, <1>3 DEF KeysInv
  <1>4. CASE ~late' /\ ~dropped'
    <2>1. line = <<>> /\ line' = <<>> /\ late' = late /\ ~late /\ ~dropped
      BY <1>2, <1>4
    <2>2. /\ at \notin {"pasteCR", "wide", "csi", "ss3", "probeCsi"}
          /\ at \in Keyed => Settled(Phase) /\ Phase.out = expected /\ inPaste = FALSE
      BY <1>2, <2>1, QuietIs
    <2>3. CASE at \in Keyed
      <3>1. at \in {"key", "escape"} /\ Settled(Phase) /\ Phase.out = expected /\ inPaste = FALSE
        BY <2>2, <2>3 DEF Keyed
      <3>2. decoded = expected
        BY <1>1, <3>1, RestType
      <3>4. /\ at' \in {"key", "away", "gone"} /\ decoded' = decoded /\ inPaste' = FALSE
            /\ params' = "" /\ stash' = <<>> /\ pending' = <<>>
        <4>1. stash = <<>> /\ params = ""
          BY <1>1, <3>1 DEF KeyTypes, Probing
        <4>2. CASE at = "key"
          BY <1>2, <3>1, <4>1, <4>2 DEF NoByte, Hangup
        <4>3. CASE at = "escape"
          <5>1. Returned("Unknown") /\ pending' = pending /\ "Unknown" \in AllKinds
            BY <4>3 DEF NoByte, AllKinds
          <5>2. decoded' = decoded \o Used(<<"Unknown">>)
            BY <1>1, <5>1, ReturnedIs
          <5>3. inPaste' = FALSE
            BY <1>1, <3>1, <5>1, ReturnedIs
          <5>4. at' \in {"key", "away"} /\ params' = "" /\ stash' = stash
            BY <1>1, <5>1, ReturnedIs
          <5>5. Used(<<"Unknown">>) = <<>> /\ decoded \o <<>> = decoded
            <6>1. Used(<<"Unknown">>) = <<>>
              BY <5>1, UsedOne
            <6>2. decoded \in Seq(Kinds)
              BY <1>1 DEF KeyTypes
            <6> QED
              BY <6>1, <6>2
          <5> QED
            BY <1>2, <4>1, <5>1, <5>2, <5>3, <5>4, <5>5
        <4> QED
          BY <3>1, <4>2, <4>3
      <3>5. Phase' = At("key", FALSE, decoded')
        BY <3>4 DEF Phase, Probing, At
      <3>6. Held' = <<>>
        BY <3>4 DEF Held
      <3>7. Rest' = <<>>
        <4>1. Rest' = (<<>> \o <<>>) \o (<<>> \o <<>>)
          BY <2>1, <3>4, <3>6 DEF Rest
        <4>2. <<>> \o <<>> = <<>>
          OBVIOUS
        <4> QED
          BY <4>1, <4>2
      <3>8. At("key", FALSE, decoded') \in States
        BY <1>2, AtType DEF KeyTypes, Ats
      <3>9. After(Decoder, Phase', Rest') = At("key", FALSE, expected')
        BY <1>2, <3>2, <3>4, <3>5, <3>7, <3>8, AfterNone
      <3>10. Settled(At("key", FALSE, expected')) /\ At("key", FALSE, expected').out = expected'
        BY DEF Settled, At
      <3> QED
        BY <1>2, <3>9, <3>10 DEF KeysInv, Decodes, Settled
    <2>4. CASE at = "probe"
      <3>1. Probed(supported, <<>>, stash)
        BY <2>4 DEF NoByte
      <3>2. line' \in Seq(Bytes) /\ late' \in BOOLEAN /\ at \in Probing
        BY <1>2, <2>4 DEF KeyTypes, Probing
      <3>3. Phase' = Phase /\ Rest' = stash \o line'
        BY <1>1, <1>2, <3>1, <3>2, ProbedIs
      <3>4. Rest = stash \o line
        <4>1. stash \in Seq(Bytes) /\ Held = <<>> /\ pending \o line = line /\ stash \o Held = stash
          BY <1>1, <1>2, <2>4, Regroup DEF KeyTypes, Held
        <4> QED
          BY <4>1 DEF Rest
      <3> QED
        BY <1>2, <2>1, <3>3, <3>4, SameKept
    <2>5. CASE at = "probeEsc"
      <3>1. ProbeOn(supported, Append(stash, "esc"))
        BY <2>5 DEF NoByte
      <3>2. stash' = Append(stash, "esc") /\ at' = "probe" /\ decoded' = decoded /\ pending' = pending
            /\ params' = ""
        BY <1>2, <3>1 DEF ProbeOn, Consumed
      <3>3. Phase' = At("key", FALSE, decoded')
        BY <3>2 DEF Phase, Probing, At
      <3>4. Phase' = Phase
        BY <1>1, <2>5, <3>2, <3>3, PhaseFree DEF Probing
      <3>5. Held = <<"esc">> /\ Held' = <<>>
        BY <2>5, <3>2 DEF Held
      <3>6. stash \in Seq(Bytes) /\ "esc" \in Bytes
        BY <1>1 DEF KeyTypes, Bytes
      <3>7. Append(stash, "esc") = stash \o <<"esc">> /\ Append(stash, "esc") \in Seq(Bytes)
        BY <3>6
      <3>8. Append(stash, "esc") \o <<>> = Append(stash, "esc")
        BY <3>7
      <3>9. Rest' = Rest
        BY <1>2, <3>2, <3>5, <3>7, <3>8 DEF Rest
      <3> QED
        BY <1>2, <2>1, <3>4, <3>9, SameKept
    <2>6. at \in Keyed \cup {"probe", "probeEsc", "probeCsi"}
      BY DEF NoByte, Keyed
    <2> QED
      BY <2>2, <2>3, <2>4, <2>5, <2>6
  <1> QED
    BY <1>3, <1>4

LEMMA KeysStart ==
    ASSUME KeyInit
    PROVE  KeysInv
  <1>1. /\ line = <<>> /\ pending = <<>> /\ stash = <<>> /\ params = "" /\ at = "away" /\ inPaste = FALSE
        /\ expected = <<>> /\ decoded = <<>> /\ late = FALSE /\ dropped = FALSE
    BY DEF KeyInit
  <1>2. KeyTypes
    <2>1. <<>> \in Seq(Bytes) /\ <<>> \in Seq(Kinds) /\ "" \in {""} \cup (Bytes \ Finals)
      OBVIOUS
    <2> QED
      BY <1>1, <2>1 DEF KeyTypes, Probing, Reading
  <1>3. Phase = At("key", FALSE, <<>>) /\ Phase \in States
    <2>1. Phase \in States
      BY <1>2, RestType
    <2>2. Phase = At("key", FALSE, decoded)
      BY <1>1, <1>2, PhaseFree
    <2> QED
      BY <1>1, <2>1, <2>2
  <1>4. Rest = <<>>
    <2>1. Rest = (<<>> \o <<>>) \o (<<>> \o <<>>)
      BY <1>1 DEF Rest, Held
    <2>2. <<>> \o <<>> = <<>>
      OBVIOUS
    <2> QED
      BY <2>1, <2>2
  <1>5. After(Decoder, Phase, Rest) = At("key", FALSE, <<>>)
    BY <1>3, <1>4, AfterNone
  <1>6. Settled(At("key", FALSE, <<>>)) /\ At("key", FALSE, <<>>).out = <<>>
    BY DEF Settled, At
  <1> QED
    BY <1>1, <1>2, <1>5, <1>6 DEF KeysInv, Decodes

LEMMA KeysMeant ==
    ASSUME KeysInv
    PROVE  KeysInOrder
  <1>1. KeyTypes
    BY InvParts
  <1>2. ASSUME ~late, ~dropped
        PROVE  IsPrefix(decoded, expected) /\ (at = "key" /\ Ready = <<>> => decoded = expected)
    <2>1. Settled(Decoded) /\ Decoded.out = expected
      BY <1>2, InvParts
    <2>2. Phase \in States /\ Rest \in Seq(Bytes) /\ Phase.out = decoded
      BY <1>1, RestType
    <2>3. PICK u \in Seq(Kinds) : After(Decoder, Phase, Rest).out = Phase.out \o u
      BY <2>2, DecodedGrows
    <2>4. expected = decoded \o u /\ decoded \in Seq(Kinds)
      BY <1>1, <2>1, <2>2, <2>3 DEF Decoded, KeyTypes
    <2>5. IsPrefix(decoded, expected)
      BY <2>4 DEF IsPrefix
    <2>6. ASSUME at = "key", Ready = <<>>
          PROVE  decoded = expected
      <3>1. stash = <<>> /\ Held = <<>>
        BY <1>1, <2>6 DEF KeyTypes, Probing, Held
      <3>2. Rest = (<<>> \o <<>>) \o <<>>
        BY <2>6, <3>1 DEF Rest, Ready
      <3>3. (<<>> \o <<>>) \o <<>> = <<>>
        OBVIOUS
      <3>4. Decoded = Phase
        BY <2>2, <3>2, <3>3, AfterNone DEF Decoded
      <3> QED
        BY <2>1, <2>2, <3>4
    <2> QED
      BY <2>5, <2>6
  <1> QED
    BY <1>2 DEF KeysInOrder

LEMMA KeyNextKept ==
    ASSUME KeysInv, [KeyNext]_keyVars
    PROVE  KeysInv'
  <1>1. CASE ReadByte
    BY <1>1, ReadByteKept
  <1>2. CASE NoByte
    BY <1>2, NoByteKept
  <1>3. CASE StartEntry
    BY <1>3, StartEntryKept
  <1>4. CASE Press
    BY <1>4, PressKept
  <1>5. CASE Paste
    BY <1>5, PasteKept
  <1>6. CASE Answer
    BY <1>6, AnswerKept
  <1>7. CASE LosePasteEnd
    BY <1>7, LosePasteEndKept
  <1>8. CASE HangUp
    BY <1>8, HangUpKept
  <1>9. CASE UNCHANGED keyVars
    <2>1. UNCHANGED <<line, pending, stash, params, at, inPaste, expected, decoded, late, dropped>>
      BY <1>9 DEF keyVars
    <2> QED
      BY <2>1 DEF KeysInv, KeyTypes, Decodes, Settled, Phase, Rest, Held, Reading, Probing
  <1> QED
    BY <1>1, <1>2, <1>3, <1>4, <1>5, <1>6, <1>7, <1>8, <1>9 DEF KeyNext, Decode

\* Whatever keys are pressed and whatever is pasted, whenever the terminal answers the probe, the
\* keys decoded are the ones pressed, each once and in order, as long as no byte is late or
\* dropped (readByte, nextKey, decodeEscape, decodeCsi, decodeUtf8, probeKitty).
THEOREM KeysCorrect == KeySpec => []KeysInOrder
  <1>1. KeyInit => KeysInv
    BY KeysStart
  <1>2. KeysInv /\ [KeyNext]_keyVars => KeysInv'
    BY KeyNextKept
  <1>3. KeysInv => KeysInOrder
    BY KeysMeant
  <1> QED
    BY <1>1, <1>2, <1>3, PTL DEF KeySpec

=============================================================================
