--------------------------- MODULE HttpClientProofs ---------------------------
(***************************************************************************)
(* Proofs about HttpClient for every value of its limits: however the      *)
(* server answers, trickles, stalls or redirects, a request keeps to its   *)
(* time, holds of the body no more than its limit and one line and one     *)
(* recv, keeps no more header lines than the deadline lets arrive, and     *)
(* closes the socket it opened.                                            *)
(*                                                                         *)
(* The argument is about the step the client is at.  Time: only a step     *)
(* that has looked at the deadline goes on reading, so the clock is below  *)
(* two deadlines wherever a response is read or a redirect followed, and   *)
(* each address not yet tried holds its ConnectTimeout in reserve.  Space: *)
(* what is pending is bounded by what the step waits for, and the header   *)
(* lines by what recv has brought so far (HeadersKept).                    *)
(***************************************************************************)
EXTENDS HttpClient, SequenceLemmas

-----------------------------------------------------------------------------
(* The inductive invariant. *)

Latest == 2 * TotalTimeout + ResolveTime + MaxAddresses * ConnectTimeout

\* The time a request may have taken, by the step it is at.
TimeKept ==
    /\ pc \in {"idle", "send"} => clock <= Latest
    /\ pc = "connect" => /\ Len(addresses) <= MaxAddresses
                         /\ clock + Len(addresses) * ConnectTimeout <= Latest
    /\ pc \notin {"idle", "send", "connect"} => clock <= 2 * TotalTimeout

Spare == LineCap + ReadChunk

Heading  == {"status", "headers"}
Arriving == ReadChunk * (TotalTimeout + 1)

\* Up to the empty line, what is kept and what is pending came in one recv per
\* unit of time, of which none began after the deadline.
HeadersKept ==
    /\ headers <= Arriving
    /\ pc \in Heading => /\ headers + Len(pending) <= ReadChunk * clock
                         /\ headers + Len(pending) <= Arriving

\* What it may hold.
SpaceKept ==
    /\ HeadersKept
    /\ body <= MaxBytes
    /\ pc \in LineSteps => Len(pending) <= Spare
    /\ pc = "body" => pending = <<>>
    /\ pc = "chunk" => body + want <= MaxBytes /\ Len(pending) <= want + Spare
    /\ body + Len(pending) <= MaxBytes + Spare

\* The socket is open from the connection to the end of the answer.
SocketHeld == sockets = IF pc \in {"idle", "hop", "connect"} THEN 0 ELSE 1

Inv == TypeOK /\ TimeKept /\ SpaceKept /\ SocketHeld

-----------------------------------------------------------------------------
(* The constants, and the operators on what was received. *)

LEMMA Limits ==
    /\ ConnectTimeout \in Nat /\ ResolveTime \in Nat /\ MaxRedirects \in Nat
    /\ MaxBytes \in Nat /\ LineCap \in Nat /\ MaxAddresses \in Nat
    /\ TotalTimeout \in Nat /\ TotalTimeout > 0
    /\ ReadChunk \in Nat /\ ReadChunk > 0
    /\ Spare \in Nat /\ LineCap + ReadChunk = Spare /\ Spare <= MaxBytes
  BY LimitsAssumption, BufferAssumption DEF Spare

\* One address less holds one ConnectTimeout less in reserve.
LEMMA Reserve ==
    ASSUME NEW c \in Nat, NEW n \in Nat, n > 0
    PROVE  n * c = (n - 1) * c + c /\ (n - 1) * c \in Nat /\ n * c \in Nat
  OBVIOUS

LEMMA LatestBound ==
    /\ Latest \in Nat
    /\ 2 * TotalTimeout + ResolveTime <= Latest
    /\ \A n \in 0..MaxAddresses :
          2 * TotalTimeout + ResolveTime + n * ConnectTimeout <= Latest
  <1>1. MaxAddresses * ConnectTimeout \in Nat
    BY Limits
  <1>2. \A n \in 0..MaxAddresses : n * ConnectTimeout <= MaxAddresses * ConnectTimeout
    <2>. TAKE n \in 0..MaxAddresses
    <2>1. PICK d \in Nat : MaxAddresses = n + d
      <3>1. MaxAddresses - n \in Nat /\ MaxAddresses = n + (MaxAddresses - n)
        BY Limits
      <3> QED
        BY <3>1
    <2>2. MaxAddresses * ConnectTimeout = n * ConnectTimeout + d * ConnectTimeout
      BY <2>1, Limits
    <2>3. d * ConnectTimeout \in Nat /\ n * ConnectTimeout \in Nat
      BY Limits
    <2> QED
      BY <2>2, <2>3
  <1>3. \A n \in 0..MaxAddresses : n * ConnectTimeout \in Nat
    BY Limits
  <1> QED
    BY <1>1, <1>2, <1>3, Limits DEF Latest

\* One recv brings no more than a unit of time stands for.
LEMMA Brought ==
    ASSUME NEW c \in Nat, NEW d \in Nat
    PROVE  /\ ReadChunk * c \in Nat
           /\ ReadChunk * c <= ReadChunk * (c + d)
           /\ d > 0 => ReadChunk * c + ReadChunk <= ReadChunk * (c + d)
           /\ Arriving \in Nat
           /\ c <= TotalTimeout => ReadChunk * c + ReadChunk <= Arriving
  <1>1. ASSUME NEW a \in Nat, NEW b \in Nat
        PROVE  /\ ReadChunk * a \in Nat
               /\ ReadChunk * (a + b) = ReadChunk * a + ReadChunk * b
               /\ b > 0 => ReadChunk * b >= ReadChunk
    <2>1. ReadChunk * a \in Nat /\ ReadChunk * (a + b) = ReadChunk * a + ReadChunk * b
      BY Limits
    <2>2. ASSUME b > 0
          PROVE  ReadChunk * b >= ReadChunk
      <3>1. PICK e \in Nat : b = e + 1
        <4>1. b - 1 \in Nat /\ b = (b - 1) + 1
          BY <2>2
        <4> QED
          BY <4>1
      <3>2. ReadChunk * b = ReadChunk * e + ReadChunk /\ ReadChunk * e \in Nat
        BY <3>1, Limits
      <3> QED
        BY <3>2, Limits
    <2> QED
      BY <2>1, <2>2
  <1>2. ReadChunk * c \in Nat /\ ReadChunk * d \in Nat
        /\ ReadChunk * (c + d) = ReadChunk * c + ReadChunk * d
        /\ d > 0 => ReadChunk * d >= ReadChunk
    BY <1>1
  <1>3. Arriving \in Nat
    BY <1>1, Limits DEF Arriving
  <1>4. ASSUME c <= TotalTimeout
        PROVE  ReadChunk * c + ReadChunk <= Arriving
    <2>. DEFINE b == TotalTimeout + 1 - c
    <2>1. b \in Nat /\ b > 0 /\ c + b = TotalTimeout + 1
      BY <1>4, Limits
    <2>. HIDE DEF b
    <2>2. /\ ReadChunk * (c + b) = ReadChunk * c + ReadChunk * b
          /\ ReadChunk * b >= ReadChunk /\ ReadChunk * b \in Nat
      BY <1>1, <2>1
    <2>3. Arriving = ReadChunk * c + ReadChunk * b
      BY <2>1, <2>2 DEF Arriving
    <2> QED
      BY <1>2, <2>2, <2>3, Limits
  <1> QED
    BY <1>2, <1>3, <1>4, Limits

\* Where a line is ready, it has a first end, and what is past it is shorter.
LEMMA LineEnds ==
    ASSUME pending \in Seq(Bytes), LineReady
    PROVE  /\ LineEnd \in 1..Len(pending)
           /\ PastLine \in Seq(Bytes)
           /\ LineEnd + Len(PastLine) = Len(pending)
           /\ Len(PastLine) \in Nat /\ Len(pending) \in Nat
  <1>. DEFINE T == {i \in 1..Len(pending) : pending[i] = "nl"}
  <1>1. T \subseteq Nat /\ T # {} /\ Len(pending) \in Nat
    BY DEF LineReady
  <1>2. PICK i \in T : \A j \in T : i <= j
    BY <1>1, Least
  <1>3. i \in 1..Len(pending) /\ pending[i] = "nl"
    BY <1>2
  <1>4. \A j \in 1..(i - 1) : pending[j] # "nl"
    <2>. TAKE j \in 1..(i - 1)
    <2>1. j \in 1..Len(pending) /\ ~(i <= j)
      BY <1>1, <1>3
    <2> QED
      BY <1>2, <2>1
  <1>5. LineEnd \in 1..Len(pending)
    BY <1>3, <1>4 DEF LineEnd
  <1>. HIDE DEF T
  <1>6. ASSUME NEW e \in 1..Len(pending)
        PROVE  /\ SubSeq(pending, e + 1, Len(pending)) \in Seq(Bytes)
               /\ Len(SubSeq(pending, e + 1, Len(pending))) = Len(pending) - e
    BY <1>1
  <1> QED
    BY <1>1, <1>5, <1>6 DEF PastLine

-----------------------------------------------------------------------------
(* The steps, up to the request. *)

LEMMA Kinds ==
    /\ {"idle", "hop", "connect", "send", "chunk", "body", "answer"} \subseteq Steps
    /\ LineSteps \subseteq Steps
    /\ \A p \in LineSteps : p \notin {"idle", "hop", "connect", "send", "chunk", "body", "answer"}
    /\ {"none", "ok", "failed", "exhausted"} \subseteq Outcomes
    /\ {"status", "headers", "chunkSize", "chunkEnd", "trailer"} \subseteq LineSteps
  BY DEF LineSteps, Steps, Outcomes

\* What a response left over is bounded wherever no response is being read.
LEMMA LeftOver ==
    ASSUME Inv, UNCHANGED response, pc' \in Steps, pc' \notin LineSteps \cup {"chunk", "body"}
    PROVE  SpaceKept'
  BY DEF Inv, SpaceKept, HeadersKept, Heading, LineSteps, response

LEMMA BeginStep == Inv /\ Begin => Inv'
  <1>. SUFFICES ASSUME Inv, Begin
                PROVE  Inv'
    OBVIOUS
  <1>1. TypeOK'
    BY Limits, Kinds DEF Inv, TypeOK, Begin, response
  <1>2. TimeKept'
    BY Limits DEF Begin, TimeKept
  <1>3. SpaceKept'
    BY LeftOver, Kinds DEF Begin
  <1>4. SocketHeld'
    BY DEF Inv, SocketHeld, Begin
  <1> QED
    BY <1>1, <1>2, <1>3, <1>4 DEF Inv

LEMMA ResolveStep == Inv /\ Resolve => Inv'
  <1>. SUFFICES ASSUME Inv, Resolve
                PROVE  Inv'
    OBVIOUS
  <1>1. clock' \in Nat /\ clock' <= clock + ResolveTime /\ clock <= 2 * TotalTimeout
    BY Limits DEF Inv, TypeOK, TimeKept, Resolve, Takes
  <1>2. clock' <= 2 * TotalTimeout + ResolveTime
    BY <1>1, Limits DEF Inv, TypeOK
  <1>3. \/ pc' = "idle" /\ outcome' \in Outcomes /\ UNCHANGED addresses
        \/ /\ pc' = "connect" /\ UNCHANGED outcome
           /\ \E n \in 1..MaxAddresses : addresses' \in [1..n -> {"public", "private"}]
    BY Kinds DEF Resolve, End
  <1>4. pc' = "connect" => /\ addresses' \in Seq({"public", "private"})
                           /\ Len(addresses') \in 0..MaxAddresses
    <2>1. ASSUME NEW n \in 1..MaxAddresses, addresses' \in [1..n -> {"public", "private"}]
          PROVE  addresses' \in Seq({"public", "private"}) /\ Len(addresses') = n
      BY <2>1, Limits
    <2> QED
      BY <1>3, <2>1, Limits
  <1>5. TypeOK'
    BY <1>1, <1>3, <1>4, Kinds DEF Inv, TypeOK, Resolve, response
  <1>6. TimeKept'
    <2>1. CASE pc' = "idle"
      BY <1>1, <1>2, <2>1, LatestBound, Limits DEF TimeKept
    <2>2. CASE pc' = "connect"
      <3>. DEFINE n == Len(addresses')
      <3>1. n \in 0..MaxAddresses /\ n * ConnectTimeout \in Nat
        BY <1>4, <2>2, Limits
      <3>2. 2 * TotalTimeout + ResolveTime + n * ConnectTimeout <= Latest
        BY <3>1, LatestBound
      <3>3. clock' + n * ConnectTimeout <= Latest
        BY <1>1, <1>2, <3>1, <3>2, LatestBound, Limits
      <3> QED
        BY <2>2, <3>1, <3>3 DEF TimeKept, Latest
    <2> QED
      BY <1>3, <2>1, <2>2
  <1>7. SpaceKept'
    BY <1>3, LeftOver, Kinds DEF Resolve
  <1>8. SocketHeld'
    BY <1>3 DEF Inv, SocketHeld, Resolve
  <1> QED
    BY <1>5, <1>6, <1>7, <1>8 DEF Inv

\* The next address is left out, or does not connect.
LEMMA NextAddress ==
    ASSUME Inv, pc = "connect", addresses # <<>>, addresses' = Tail(addresses), pc' = pc,
           clock' \in Nat, clock' <= clock + ConnectTimeout,
           UNCHANGED <<method, redirectsLeft, sockets, response, outcome>>
    PROVE  Inv'
  <1>. DEFINE n == Len(addresses)
              r == (n - 1) * ConnectTimeout
  <1>1. n \in Nat /\ n > 0 /\ addresses' \in Seq({"public", "private"}) /\ Len(addresses') = n - 1
    BY DEF Inv, TypeOK
  <1>2. r \in Nat /\ n * ConnectTimeout = r + ConnectTimeout
    BY <1>1, Reserve, Limits
  <1>3. n <= MaxAddresses /\ clock + (r + ConnectTimeout) <= Latest
    BY <1>2 DEF Inv, TimeKept
  <1>4. clock' + r <= Latest
    <2>1. r \in Nat /\ clock \in Nat /\ Latest \in Nat /\ ConnectTimeout \in Nat
      BY <1>2, LatestBound, Limits DEF Inv, TypeOK
    <2>2. \A a, b, c, d, l \in Nat : a <= b + c /\ b + (d + c) <= l => a + d <= l
      OBVIOUS
    <2>. HIDE DEF r
    <2> QED
      BY <1>3, <2>1, <2>2
  <1>5. TimeKept'
    BY <1>1, <1>3, <1>4, Limits DEF TimeKept, Latest
  <1>6. TypeOK'
    BY <1>1 DEF Inv, TypeOK, response
  <1>7. SpaceKept'
    BY LeftOver, Kinds
  <1>8. SocketHeld'
    BY DEF Inv, SocketHeld
  <1> QED
    BY <1>5, <1>6, <1>7, <1>8 DEF Inv

\* A connection was made, or no address is left: what is in reserve is enough.
LEMMA ConnectStep == Inv /\ (SkipAddress \/ Connect \/ NoConnection) => Inv'
  <1>1. ASSUME Inv, SkipAddress
        PROVE  Inv'
    BY <1>1, NextAddress, Limits DEF SkipAddress, Inv, TypeOK
  <1>2. ASSUME Inv, Connect
        PROVE  Inv'
    <2>1. clock' \in Nat /\ clock' <= clock + ConnectTimeout
      BY <1>2, Limits DEF Connect, Takes, Inv, TypeOK
    <2>2. CASE addresses' = Tail(addresses) /\ UNCHANGED <<pc, sockets>>
      BY <1>2, <2>1, <2>2, NextAddress DEF Connect
    <2>3. CASE addresses' = <<>> /\ sockets' = sockets + 1 /\ pc' = "send"
      <3>. DEFINE n == Len(addresses)
                  r == (n - 1) * ConnectTimeout
      <3>1. n \in Nat /\ n > 0
        BY <1>2 DEF Inv, TypeOK, Connect
      <3>2. r \in Nat /\ n * ConnectTimeout = r + ConnectTimeout
        BY <3>1, Reserve, Limits
      <3>3. clock + (r + ConnectTimeout) <= Latest
        BY <1>2, <3>2 DEF Inv, TimeKept, Connect
      <3>4. clock' <= Latest
        <4>. HIDE DEF r
        <4> QED
          BY <1>2, <2>1, <3>2, <3>3, LatestBound, Limits DEF Inv, TypeOK
      <3>5. TimeKept'
        BY <2>3, <3>4 DEF TimeKept, Latest
      <3>6. sockets = 0
        BY <1>2 DEF Inv, SocketHeld, Connect
      <3>7. TypeOK'
        BY <1>2, <2>1, <2>3, <3>6, Kinds DEF Inv, TypeOK, Connect, response
      <3>8. SpaceKept'
        BY <1>2, <2>3, LeftOver, Kinds DEF Connect
      <3>9. SocketHeld'
        BY <2>3, <3>6 DEF SocketHeld
      <3> QED
        BY <3>5, <3>7, <3>8, <3>9 DEF Inv
    <2> QED
      BY <1>2, <2>2, <2>3 DEF Connect
  <1>3. ASSUME Inv, NoConnection
        PROVE  Inv'
    <2>1. 0 * ConnectTimeout = 0
      BY Limits
    <2>2. clock <= Latest
      BY <1>3, <2>1, LatestBound DEF Inv, TypeOK, TimeKept, NoConnection
    <2>3. TimeKept'
      BY <1>3, <2>2 DEF TimeKept, NoConnection, End, Latest
    <2>4. TypeOK' /\ SocketHeld'
      BY <1>3, Kinds DEF Inv, TypeOK, SocketHeld, NoConnection, End, hop, response
    <2>5. SpaceKept'
      BY <1>3, LeftOver, Kinds DEF NoConnection, End
    <2> QED
      BY <2>3, <2>4, <2>5 DEF Inv
  <1> QED
    BY <1>1, <1>2, <1>3

LEMMA SendStep == Inv /\ SendRequest => Inv'
  <1>. SUFFICES ASSUME Inv, SendRequest
                PROVE  Inv'
    OBVIOUS
  <1>1. sockets = 1
    BY DEF Inv, SocketHeld, SendRequest
  <1>2. /\ \/ pc' = "idle" /\ sockets' = 0 /\ outcome' = "failed"
           \/ pc' \in {"status", "send"} /\ sockets' = 1 /\ UNCHANGED outcome
        /\ clock' \in Nat
        /\ \/ pc' = "idle" /\ clock' = clock
           \/ clock' <= 2 * TotalTimeout
    BY <1>1, Limits DEF Inv, TypeOK, SendRequest, Takes, Late, End
  <1>3. /\ pending' = <<>> /\ headers' = 0 /\ framing' = "close" /\ want' = 0 /\ body' = 0
        /\ UNCHANGED hop
    BY DEF SendRequest
  <1>4. TypeOK'
    BY <1>2, <1>3, Limits, Kinds DEF Inv, TypeOK, hop
  <1>5. TimeKept'
    <2>1. clock <= Latest
      BY DEF Inv, TimeKept, SendRequest
    <2>2. 2 * TotalTimeout <= Latest
      BY LatestBound, Limits
    <2>3. clock' <= Latest
      BY <1>2, <2>1, <2>2, LatestBound, Limits
    <2> QED
      BY <1>2, <2>3 DEF TimeKept, Latest
  <1>6. SpaceKept'
    <2>1. 0 <= ReadChunk * clock' /\ 0 <= Arriving
      BY <1>2, Brought
    <2>2. HeadersKept'
      BY <1>3, <2>1 DEF HeadersKept, Arriving
    <2> QED
      BY <1>3, <2>2, Limits DEF SpaceKept, Spare
  <1>7. SocketHeld'
    BY <1>2 DEF SocketHeld
  <1> QED
    BY <1>4, <1>5, <1>6, <1>7 DEF Inv

-----------------------------------------------------------------------------
(* The steps that read the response. *)

\* Where reading may stop: the socket is open, and there is time left for it.
LEMMA StopStep ==
    ASSUME Inv, Waiting, StopReading, UNCHANGED <<hop, response>>,
           clock' \in Nat, clock' <= 2 * TotalTimeout
    PROVE  Inv'
  <1>1. sockets = 1
    BY Kinds DEF Inv, SocketHeld, Waiting
  <1>2. \/ pc' = "answer" /\ sockets' = 1 /\ UNCHANGED outcome
        \/ pc' = "idle" /\ sockets' = 0 /\ outcome' = "failed"
    BY <1>1 DEF StopReading, End
  <1>3. TypeOK'
    BY <1>2, Kinds DEF Inv, TypeOK, hop, response
  <1>4. TimeKept'
    <2>1. 2 * TotalTimeout <= Latest /\ Latest \in Nat
      BY LatestBound, Limits
    <2>2. clock' <= Latest
      BY <2>1, Limits
    <2> QED
      BY <1>2, <2>2 DEF TimeKept, Latest
  <1>5. SpaceKept'
    BY <1>2, LeftOver, Kinds
  <1>6. SocketHeld'
    BY <1>2 DEF SocketHeld
  <1> QED
    BY <1>3, <1>4, <1>5, <1>6 DEF Inv

\* A line is taken: what is past it fits where the line did.
LEMMA LineStep ==
    ASSUME Inv, pc \in LineSteps, LineReady, UNCHANGED <<hop, clock>>,
           pending' \in Seq(Bytes), Len(pending') <= Spare,
           headers' \in Nat, headers' + Len(pending') <= headers + Len(pending) \/ UNCHANGED headers,
           pc' \in Heading => pc \in Heading /\ headers' + Len(pending') <= headers + Len(pending),
           UNCHANGED headers \/ pc \in Heading,
           framing' \in {"close", "length", "chunked"}, want' \in 0..MaxBytes,
           body' \in 0..MaxBytes, pc' = "body" => pending' = <<>>,
           \/ pc' = "idle" /\ sockets' = sockets - 1 /\ outcome' = "failed"
           \/ pc' \in LineSteps \cup {"body", "answer"} /\ UNCHANGED <<sockets, outcome>>
           \/ pc' = "chunk" /\ UNCHANGED <<sockets, outcome>> /\ body' + want' <= MaxBytes
    PROVE  Inv'
  <1>1. sockets = 1 /\ clock <= 2 * TotalTimeout
    BY Kinds DEF Inv, SocketHeld, TimeKept
  <1>2. 2 * TotalTimeout <= Latest /\ Latest \in Nat
    BY LatestBound, Limits
  <1>3. TypeOK'
    BY <1>1, Kinds DEF Inv, TypeOK, hop
  <1>4. clock' <= Latest /\ clock' <= 2 * TotalTimeout
    BY <1>1, <1>2, Limits DEF Inv, TypeOK
  <1>5. TimeKept'
    BY <1>4, Kinds DEF TimeKept, Latest
  <1>6. SpaceKept'
    <2>1. Len(pending') \in Nat /\ want' \in Nat /\ body' \in Nat /\ body' <= MaxBytes
      BY Limits
    <2>2. Len(pending') <= want' + Spare /\ body' + Len(pending') <= MaxBytes + Spare
      BY <2>1, Limits
    <2>3. HeadersKept'
      <3>1. headers \in Nat /\ Len(pending) \in Nat /\ clock' = clock
        BY DEF Inv, TypeOK
      <3>2. ReadChunk * clock \in Nat /\ Arriving \in Nat /\ Arriving' = Arriving
        BY Brought DEF Inv, TypeOK, Arriving
      <3>3. /\ headers <= Arriving
            /\ pc \in Heading => /\ headers + Len(pending) <= ReadChunk * clock
                                 /\ headers + Len(pending) <= Arriving
        BY DEF Inv, SpaceKept, HeadersKept
      <3>4. headers' <= Arriving
        BY <2>1, <3>1, <3>2, <3>3
      <3>5. ASSUME pc' \in Heading
            PROVE  headers' + Len(pending') <= ReadChunk * clock /\ headers' + Len(pending') <= Arriving
        BY <2>1, <3>1, <3>2, <3>3, <3>5
      <3> QED
        BY <3>1, <3>2, <3>4, <3>5 DEF HeadersKept, Heading
    <2> QED
      BY <2>1, <2>2, <2>3, Kinds DEF SpaceKept, Spare
  <1>7. SocketHeld'
    BY <1>1, Kinds DEF SocketHeld
  <1> QED
    BY <1>3, <1>5, <1>6, <1>7 DEF Inv

LEMMA LinesStep ==
    ASSUME Inv,
           ReadStatus \/ ReadHeader \/ ReadHeadersEnd \/ ReadChunkSize \/ ReadChunkEnd \/ ReadTrailer
    PROVE  Inv'
  <1>1. pc \in LineSteps /\ LineReady /\ UNCHANGED <<hop, clock>>
    BY Kinds DEF ReadStatus, ReadHeader, ReadHeadersEnd, ReadChunkSize, ReadChunkEnd, ReadTrailer
  <1>2. /\ pending \in Seq(Bytes) /\ framing \in {"close", "length", "chunked"}
        /\ want \in 0..MaxBytes /\ body \in 0..MaxBytes
        /\ headers \in Nat /\ Len(pending) \in Nat
        /\ <<>> \in Seq(Bytes) /\ Len(<<>>) <= Spare
    BY Limits DEF Inv, TypeOK, SpaceKept
  <1>3. /\ PastLine \in Seq(Bytes) /\ Len(PastLine) \in Nat
        /\ Len(PastLine) <= Spare /\ Len(PastLine) <= MaxBytes
        /\ LineEnd \in Nat /\ LineEnd + Len(PastLine) = Len(pending)
    <2>1. Len(pending) <= Spare
      BY <1>1 DEF Inv, SpaceKept
    <2> QED
      BY <1>1, <1>2, <2>1, LineEnds, Limits
  <1>. USE <1>1, <1>2, <1>3, Limits DEF Refuse, End, GoOn
  <1>4. CASE ReadStatus
    <2>1. /\ pc = "status" /\ pending' = PastLine /\ UNCHANGED <<headers, framing, want, body>>
          /\ \/ pc' = "idle" /\ sockets' = sockets - 1 /\ outcome' = "failed"
             \/ pc' = "headers" /\ UNCHANGED <<sockets, outcome>>
      BY <1>4 DEF ReadStatus
    <2>2. headers' + Len(pending') <= headers + Len(pending)
      BY <2>1
    <2> QED
      BY <2>1, <2>2, LineStep, Kinds DEF Heading
  <1>5. CASE ReadHeader
    <2>1. /\ pc = "headers" /\ pc' = pc /\ pending' = PastLine
          /\ headers' = headers \/ headers' = headers + LineEnd
          /\ UNCHANGED <<sockets, framing, want, body, outcome>>
      BY <1>5 DEF ReadHeader
    <2>2. headers' \in Nat /\ headers' + Len(pending') <= headers + Len(pending)
      BY <2>1
    <2> QED
      BY <2>1, <2>2, LineStep, Kinds DEF Heading
  <1>6. CASE ReadHeadersEnd
    <2>1. pending' \in Seq(Bytes) /\ Len(pending') <= Spare
      BY <1>6 DEF ReadHeadersEnd
    <2>2. framing' \in {"close", "length", "chunked"} /\ want' \in 0..MaxBytes
      BY <1>6 DEF ReadHeadersEnd
    <2>3. body' \in 0..MaxBytes
      <3>1. \/ UNCHANGED body \/ body' = Len(PastLine)
            \/ \E n \in 0..MaxBytes : body' = IF Len(PastLine) < n THEN Len(PastLine) ELSE n
        BY <1>6 DEF ReadHeadersEnd
      <3>2. Len(PastLine) \in 0..MaxBytes
        OBVIOUS
      <3> QED
        BY <3>1, <3>2
    <2>4. \/ pc' = "idle" /\ sockets' = sockets - 1 /\ outcome' = "failed"
          \/ pc' \in LineSteps \cup {"body", "answer"} /\ UNCHANGED <<sockets, outcome>>
      BY <1>6, Kinds DEF ReadHeadersEnd
    <2>5. pc' = "body" => pending' = <<>>
      BY <1>6, Kinds DEF ReadHeadersEnd
    <2>6. UNCHANGED headers /\ pc' \notin Heading
      BY <1>6 DEF ReadHeadersEnd, Heading
    <2>7. pc' # "chunk"
      BY <1>6 DEF ReadHeadersEnd
    <2> QED
      BY <2>1, <2>2, <2>3, <2>4, <2>5, <2>6, <2>7, LineStep
  <1>7. CASE ReadChunkSize
    <2>1. /\ pending' = PastLine /\ UNCHANGED <<headers, framing, body>>
          /\ want' \in 0..MaxBytes
          /\ pc' = "chunk" => body + want' <= MaxBytes
          /\ \/ pc' = "idle" /\ sockets' = sockets - 1 /\ outcome' = "failed"
             \/ pc' \in {"trailer", "chunk"} /\ UNCHANGED <<sockets, outcome>>
      BY <1>7 DEF ReadChunkSize
    <2> QED
      BY <2>1, LineStep, Kinds DEF Heading
  <1>8. CASE ReadChunkEnd \/ ReadTrailer
    BY <1>8, LineStep, Kinds DEF ReadChunkEnd, ReadTrailer, Heading
  <1> QED
    BY <1>4, <1>5, <1>6, <1>7, <1>8

\* A chunk is taken: what is left is what was read beyond it.
LEMMA ChunkStep == Inv /\ TakeChunk => Inv'
  <1>. SUFFICES ASSUME Inv, TakeChunk
                PROVE  Inv'
    OBVIOUS
  <1>1. /\ pc = "chunk" /\ pc' = "chunkEnd" /\ body' = body + want
        /\ UNCHANGED <<hop, clock, headers, framing, want, sockets, outcome>>
        /\ want \in 0..MaxBytes /\ body \in Nat /\ Len(pending) \in Nat /\ want <= Len(pending)
        /\ body + want <= MaxBytes /\ Len(pending) <= want + Spare
    BY DEF Inv, TypeOK, SpaceKept, TakeChunk, GoOn, Spare
  <1>2. pending' \in Seq(Bytes) /\ Len(pending') = Len(pending) - want
    <2>1. ASSUME NEW e \in 0..Len(pending)
          PROVE  /\ SubSeq(pending, e + 1, Len(pending)) \in Seq(Bytes)
                 /\ Len(SubSeq(pending, e + 1, Len(pending))) = Len(pending) - e
      BY DEF Inv, TypeOK
    <2> QED
      BY <1>1, <2>1, Limits DEF TakeChunk
  <1>3. TypeOK'
    BY <1>1, <1>2, Kinds, Limits DEF Inv, TypeOK, hop
  <1>4. TimeKept'
    BY <1>1 DEF Inv, TimeKept
  <1>5. SpaceKept'
    <2>1. body' <= MaxBytes /\ Len(pending') <= Spare /\ body' + Len(pending') <= MaxBytes + Spare
      BY <1>1, <1>2, Limits
    <2>2. HeadersKept'
      BY <1>1 DEF Inv, SpaceKept, HeadersKept, Heading, Arriving
    <2> QED
      BY <1>1, <2>1, <2>2 DEF SpaceKept, Spare
  <1>6. SocketHeld'
    BY <1>1 DEF Inv, SocketHeld
  <1> QED
    BY <1>3, <1>4, <1>5, <1>6 DEF Inv

LEMMA BodyStep == Inv /\ BodyRead => Inv'
  <1>. SUFFICES ASSUME Inv, BodyRead
                PROVE  Inv'
    OBVIOUS
  <1>1. TypeOK' /\ TimeKept' /\ SocketHeld'
    BY Kinds DEF Inv, TypeOK, TimeKept, SocketHeld, BodyRead, GoOn, hop, response
  <1>2. SpaceKept'
    BY LeftOver, Kinds DEF BodyRead, GoOn
  <1> QED
    BY <1>1, <1>2 DEF Inv

\* A recv, or the deadline, or a line too long.
LEMMA GiveUpStep == Inv /\ GiveUp => Inv'
  <1>. SUFFICES ASSUME Inv, GiveUp
                PROVE  Inv'
    OBVIOUS
  <1>1. clock' = clock /\ clock \in Nat /\ clock <= 2 * TotalTimeout
    BY Kinds DEF Inv, TypeOK, TimeKept, GiveUp, Waiting
  <1> QED
    BY <1>1, StopStep DEF GiveUp

LEMMA ReceiveStep == Inv /\ Receive => Inv'
  <1>. SUFFICES ASSUME Inv, Receive
                PROVE  Inv'
    OBVIOUS
  <1>1. /\ clock' \in Nat /\ clock' <= 2 * TotalTimeout
        /\ clock \in Nat /\ clock <= TotalTimeout /\ clock' - clock \in Nat /\ clock' - clock > 0
    BY Limits DEF Inv, TypeOK, Receive, Takes, Late
  <1>2. sockets = 1 /\ pc \in LineSteps \cup {"chunk", "body"}
    BY Kinds DEF Inv, SocketHeld, Receive, Waiting
  <1>3. Waiting /\ UNCHANGED <<hop, headers, framing, want>>
    BY DEF Receive
  <1>4. /\ ReadChunk * clock \in Nat /\ ReadChunk * clock' \in Nat
        /\ ReadChunk * clock + ReadChunk <= ReadChunk * clock'
        /\ ReadChunk * clock + ReadChunk <= Arriving
        /\ Arriving \in Nat /\ Arriving' = Arriving
    <2>1. PICK d \in Nat : clock' = clock + d /\ d > 0
      <3>1. \A a, b \in Nat : b - a > 0 => \E d \in Nat : b = a + d /\ d > 0
        <4>. TAKE a \in Nat, b \in Nat
        <4>1. HAVE b - a > 0
        <4>2. b - a \in Nat /\ b = a + (b - a)
          BY <4>1
        <4> QED
          BY <4>1, <4>2
      <3> QED
        BY <1>1, <3>1
    <2>2. ReadChunk * clock \in Nat /\ ReadChunk * clock + ReadChunk <= ReadChunk * clock'
      BY <1>1, <2>1, Brought
    <2> QED
      BY <1>1, <2>1, <2>2, Brought DEF Arriving
  <1>5. /\ headers \in Nat /\ Len(pending) \in Nat /\ headers <= Arriving
        /\ pc \in Heading => headers + Len(pending) <= ReadChunk * clock
    BY DEF Inv, TypeOK, SpaceKept, HeadersKept
  <1>6. ASSUME StopReading, UNCHANGED <<pending, body>>
        PROVE  Inv'
    BY <1>1, <1>3, <1>6, StopStep DEF response
  <1>7. ASSUME pc = "body", GoOn("answer"), UNCHANGED <<pending, body>>
        PROVE  Inv'
    <2>1. TypeOK' /\ TimeKept' /\ SocketHeld'
      BY <1>1, <1>2, <1>3, <1>7, Kinds DEF Inv, TypeOK, TimeKept, SocketHeld, GoOn, hop
    <2>2. SpaceKept'
      BY <1>3, <1>7, LeftOver, Kinds DEF GoOn, response
    <2> QED
      BY <2>1, <2>2 DEF Inv
  <1>8. ASSUME UNCHANGED <<pc, sockets, pending, body, outcome>>
        PROVE  Inv'
    <2>1. HeadersKept'
      <3>1. pc \in Heading => headers + Len(pending) <= ReadChunk * clock'
        BY <1>4, <1>5, Limits
      <3>2. pc \in Heading => headers + Len(pending) <= Arriving
        BY DEF Inv, SpaceKept, HeadersKept
      <3> QED
        BY <1>3, <1>4, <1>5, <1>8, <3>1, <3>2 DEF HeadersKept, Heading
    <2> QED
      BY <1>1, <1>2, <1>3, <1>8, <2>1, Kinds
      DEF Inv, TypeOK, TimeKept, SpaceKept, SocketHeld, hop
  <1>9. ASSUME NEW n \in 1..ReadChunk, Received(n), pc = "body"
        PROVE  Inv'
    <2>1. CASE body + n > MaxBytes
      BY <1>6, <1>9, <2>1 DEF Received
    <2>2. CASE ~(body + n > MaxBytes)
      <3>1. body' = body + n /\ UNCHANGED <<pc, sockets, outcome, pending>>
        BY <1>9, <2>2 DEF Received
      <3>2. body' \in Nat /\ body' <= MaxBytes
        BY <2>2, <3>1, Limits DEF Inv, TypeOK
      <3>3. TypeOK' /\ TimeKept' /\ SocketHeld'
        BY <1>1, <1>2, <1>3, <1>9, <3>1, <3>2
        DEF Inv, TypeOK, TimeKept, SocketHeld, hop
      <3>4. SpaceKept'
        <4>1. HeadersKept'
          BY <1>3, <1>4, <1>5, <1>9, <3>1 DEF HeadersKept, Heading
        <4> QED
          BY <1>9, <3>1, <3>2, <4>1, Limits, Kinds DEF Inv, SpaceKept
      <3> QED
        BY <3>3, <3>4 DEF Inv
    <2> QED
      BY <2>1, <2>2
  <1>10. ASSUME NEW n \in 1..ReadChunk, Received(n), pc # "body"
        PROVE  Inv'
    <2>1. PICK s \in [1..n -> Bytes] : pending' = pending \o s
      BY <1>10 DEF Received
    <2>2. UNCHANGED <<pc, sockets, body, outcome>>
      BY <1>10 DEF Received
    <2>3. n \in Nat /\ n <= ReadChunk /\ s \in Seq(Bytes) /\ Len(s) = n
      BY <2>1, Limits
    <2>4. pending \in Seq(Bytes) /\ Len(pending) \in Nat
      BY DEF Inv, TypeOK
    <2>5. pending' \in Seq(Bytes) /\ Len(pending') = Len(pending) + n
      BY <2>1, <2>3, <2>4, Concat
    <2>6. TypeOK' /\ TimeKept' /\ SocketHeld'
      BY <1>1, <1>2, <1>3, <2>2, <2>5, <1>10, Kinds
      DEF Inv, TypeOK, TimeKept, SocketHeld, hop
    <2>7. HeadersKept'
      <3>1. ASSUME pc \in Heading
            PROVE  headers + Len(pending') <= ReadChunk * clock' /\ headers + Len(pending') <= Arriving
        <4>1. headers + Len(pending) <= ReadChunk * clock
          BY <1>5, <3>1
        <4>2. headers + Len(pending') <= ReadChunk * clock + ReadChunk
          BY <1>4, <1>5, <2>3, <2>5, <4>1, Limits
        <4>3. headers + Len(pending') \in Nat
          BY <1>5, <2>3, <2>5
        <4> QED
          BY <1>4, <4>2, <4>3, Limits
      <3> QED
        BY <1>3, <1>4, <1>5, <2>2, <3>1 DEF HeadersKept, Heading
    <2>8. CASE pc \in LineSteps
      <3>1. Len(pending) <= LineCap
        BY <2>4, <2>8, Limits DEF Receive, Overlong
      <3>2. Len(pending') <= Spare /\ body + Len(pending') <= MaxBytes + Spare
        BY <2>3, <2>4, <2>5, <3>1, Limits DEF Inv, TypeOK, SpaceKept
      <3> QED
        BY <2>2, <2>6, <2>7, <2>8, <3>2, Kinds DEF Inv, SpaceKept, Spare
    <2>9. CASE pc = "chunk"
      <3>1. Len(pending) < want /\ body + want <= MaxBytes /\ want \in Nat /\ body \in Nat
        BY <1>3, <2>9, Kinds, Limits DEF Inv, TypeOK, SpaceKept, Waiting
      <3>2. Len(pending') <= want + Spare /\ body + Len(pending') <= MaxBytes + Spare
        BY <2>3, <2>4, <2>5, <3>1, Limits
      <3> QED
        BY <1>3, <2>2, <2>6, <2>7, <2>9, <3>1, <3>2, Kinds DEF Inv, SpaceKept, Spare
    <2> QED
      BY <1>2, <1>10, <2>8, <2>9
  <1> QED
    BY <1>6, <1>7, <1>8, <1>9, <1>10 DEF Receive

\* The answer is looked at with its socket closed.
LEMMA AnswerStep == Inv /\ (Answer \/ Redirect) => Inv'
  <1>. SUFFICES ASSUME Inv, Answer \/ Redirect
                PROVE  Inv'
    OBVIOUS
  <1>1. /\ sockets = 1 /\ sockets' = 0 /\ pc' \in {"idle", "hop"}
        /\ clock \in Nat /\ clock <= 2 * TotalTimeout
        /\ UNCHANGED <<clock, addresses, response>>
    BY DEF Inv, TypeOK, TimeKept, SocketHeld, Answer, Redirect, End, hop
  <1>2. TypeOK'
    BY <1>1, Limits, Kinds DEF Inv, TypeOK, Answer, Redirect, End, hop, response
  <1>3. TimeKept'
    <2>1. 2 * TotalTimeout <= Latest /\ Latest \in Nat
      BY LatestBound, Limits
    <2>2. clock' <= Latest
      BY <1>1, <2>1, Limits
    <2> QED
      BY <1>1, <2>2 DEF TimeKept, Latest
  <1>4. SpaceKept'
    BY <1>1, LeftOver, Kinds
  <1>5. SocketHeld'
    BY <1>1 DEF SocketHeld
  <1> QED
    BY <1>2, <1>3, <1>4, <1>5 DEF Inv

-----------------------------------------------------------------------------
(* Theorems. *)

\* The inductive invariant holds in every reachable state.
THEOREM Invariance == Spec => []Inv
  <1>1. Init => Inv
    <2>1. Init => TypeOK
      BY Limits, Kinds DEF Init, TypeOK
    <2>2. Init => HeadersKept
      <3>1. Arriving \in Nat
        BY Brought
      <3> QED
        BY <3>1 DEF Init, HeadersKept, Heading
    <2>3. Init => TimeKept /\ SpaceKept /\ SocketHeld
      BY <2>2, Limits, LatestBound, Kinds DEF Init, TimeKept, SpaceKept, SocketHeld
    <2> QED
      BY <2>1, <2>3 DEF Inv
  <1>2. Inv /\ UNCHANGED vars => Inv'
    BY DEF Inv, TypeOK, TimeKept, SpaceKept, HeadersKept, SocketHeld, Latest, Spare, Arriving,
           vars, hop, response
  <1>3. Inv /\ [Next]_vars => Inv'
    BY <1>2, BeginStep, ResolveStep, ConnectStep, SendStep, LinesStep, ChunkStep, BodyStep,
       GiveUpStep, ReceiveStep, AnswerStep
    DEF Next, Working, Reading
  <1> QED
    BY <1>1, <1>3, PTL DEF Spec

\* Every variable stays in its range.
THEOREM TypeCorrect == Spec => []TypeOK
  <1>1. Inv => TypeOK
    BY DEF Inv
  <1> QED
    BY <1>1, Invariance, PTL

\* performRequest ends within two deadlines, one resolution and one connection
\* attempt per address, whatever the limits and however often it is redirected.
THEOREM TimeBounded == Spec => []ElapsedBounded
  <1>1. Inv => ElapsedBounded
    <2>. SUFFICES ASSUME Inv
                  PROVE  clock <= Latest
      BY DEF ElapsedBounded, Latest
    <2>1. clock \in Nat /\ Latest \in Nat /\ 2 * TotalTimeout <= Latest
      BY LatestBound, Limits DEF Inv, TypeOK
    <2>2. CASE pc = "connect"
      <3>1. Len(addresses) \in Nat
        BY DEF Inv, TypeOK
      <3>2. Len(addresses) * ConnectTimeout \in Nat
        BY <3>1, Limits
      <3> QED
        BY <2>1, <2>2, <3>2 DEF Inv, TimeKept
    <2>3. CASE pc # "connect"
      BY <2>1, <2>3, Limits DEF Inv, TimeKept
    <2> QED
      BY <2>2, <2>3
  <1> QED
    BY <1>1, Invariance, PTL

\* Whatever sizes the server announces, the body keeps within maxResponseBytes
\* and with what is pending within that and one line and one recv; out.headers,
\* which no limit of the code is about, keeps no more than what the calls of recv
\* bring that begin before the deadline.
THEOREM SpaceBounded == Spec => []HeldBounded
  <1>1. Inv => HeldBounded
    <2>. SUFFICES ASSUME Inv
                  PROVE  HeldBounded
      OBVIOUS
    <2>1. body \in Nat /\ Len(pending) \in Nat /\ headers <= ReadChunk * (TotalTimeout + 1)
      BY DEF Inv, TypeOK, SpaceKept, HeadersKept, Arriving
    <2> QED
      BY <2>1, Limits DEF Inv, HeldBounded, SpaceKept, Spare
  <1> QED
    BY <1>1, Invariance, PTL

\* No way out of a request, and no redirect, leaves a socket open.
THEOREM SocketsCorrect == Spec => []SocketsClosed
  <1>1. Inv => SocketsClosed
    BY DEF Inv, SocketHeld, SocketsClosed
  <1> QED
    BY <1>1, Invariance, PTL
=============================================================================
