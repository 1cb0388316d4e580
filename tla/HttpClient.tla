----------------------------- MODULE HttpClient -----------------------------
(***************************************************************************)
(* One request of DLC:network (performRequest in net/HttpClient.h): its    *)
(* redirects, the addresses of each host, and the reading of a response    *)
(* from a server that may send anything, in pieces of any size, slowly, or *)
(* not at all.                                                             *)
(*                                                                         *)
(* Time passes inside the calls that block.  What a response says is left  *)
(* open; of its bytes only line ends are told apart, because the client    *)
(* looks for them in what it has received and not yet used, `pending`.     *)
(***************************************************************************)
EXTENDS Integers, Sequences

CONSTANTS
    ConnectTimeout, \* HttpOptions::connectTimeoutMs
    TotalTimeout,   \* HttpOptions::totalTimeoutMs
    ResolveTime,    \* bound: the longest getaddrinfo takes
    MaxRedirects,   \* HttpOptions::maxRedirects
    MaxBytes,       \* HttpOptions::maxResponseBytes
    LineCap,        \* the caps of readLine (64 to 16384 bytes)
    ReadChunk,      \* the most one recv returns (4096 or 16384 bytes)
    MaxAddresses,   \* bound: addresses of one host
    AllowPrivate    \* HttpOptions::allowPrivateTargets

ASSUME LimitsAssumption ==
    /\ {ConnectTimeout, ResolveTime, MaxRedirects, MaxBytes, LineCap, MaxAddresses} \subseteq Nat
    /\ {TotalTimeout, ReadChunk} \subseteq Nat \ {0}
    /\ AllowPrivate \in BOOLEAN

\* What readLine leaves over fits in a body, as 16384 + 4096 bytes do in 8 MiB.
ASSUME BufferAssumption == LineCap + ReadChunk <= MaxBytes

VARIABLES
    pc,            \* the step the client takes next, "idle" between requests
    method,        \* method_
    redirectsLeft, \* redirectsLeft
    clock,         \* time since the request began
    addresses,     \* what is left of resolved
    sockets,       \* sockets that are open
    pending,       \* pending, as line ends and other bytes
    headers,       \* out.headers, as the bytes of the lines kept in it
    framing,       \* how the body is delimited
    want,          \* Content-Length, or the size of the chunk being read
    body,          \* out.body.size()
    outcome        \* how the last request ended

hop      == <<method, redirectsLeft, addresses>>
response == <<pending, headers, framing, want, body>>
vars     == <<pc, hop, clock, sockets, response, outcome>>

Bytes      == {"nl", "other"}
LineSteps  == {"status", "headers", "chunkSize", "chunkEnd", "trailer"}
Steps      == LineSteps \cup {"idle", "hop", "connect", "send", "chunk", "body", "answer"}
Outcomes   == {"none", "ok", "failed", "exhausted"}

Late == clock > TotalTimeout

\* Time passes in a call that blocks for at least lo and at most hi.
Takes(lo, hi) == \E d \in lo..hi : clock' = clock + d

End(o) == pc' = "idle" /\ outcome' = o

Init == /\ pc = "idle"
        /\ method = "GET" /\ redirectsLeft = 0 /\ addresses = <<>>
        /\ clock = 0 /\ sockets = 0
        /\ pending = <<>> /\ headers = 0 /\ framing = "close" /\ want = 0 /\ body = 0
        /\ outcome = "none"

\* performRequest, called by http_get and http_post.
Begin == /\ pc = "idle"
         /\ pc' = "hop"
         /\ method' \in {"GET", "POST"}
         /\ redirectsLeft' = MaxRedirects
         /\ clock' = 0
         /\ outcome' = "none"
         /\ UNCHANGED <<addresses, sockets, response>>

-----------------------------------------------------------------------------
(* One pass of the redirect loop: where to, and the request. *)

\* The loop ends when no redirect is left ("too many redirects"); parseUrl and
\* getaddrinfo may refuse.
Resolve == /\ pc = "hop"
           /\ IF redirectsLeft < 0
              THEN End("exhausted") /\ UNCHANGED <<clock, addresses>>
              ELSE /\ Takes(0, ResolveTime)
                   /\ \/ End("failed") /\ UNCHANGED addresses
                      \/ /\ addresses' \in UNION {[1..n -> {"public", "private"}] : n \in 1..MaxAddresses}
                         /\ pc' = "connect"
                         /\ UNCHANGED outcome
           /\ UNCHANGED <<method, redirectsLeft, sockets, response>>

\* The next address is against the policy, or there is no socket for it.
SkipAddress == /\ pc = "connect"
               /\ addresses # <<>>
               /\ addresses' = Tail(addresses)
               /\ UNCHANGED <<pc, method, redirectsLeft, clock, sockets, response, outcome>>

\* connectWithTimeout: a socket that does not connect is closed.
Connect == /\ pc = "connect"
           /\ addresses # <<>>
           /\ AllowPrivate \/ Head(addresses) = "public"
           /\ Takes(0, ConnectTimeout)
           /\ \/ addresses' = Tail(addresses) /\ UNCHANGED <<pc, sockets>>
              \/ addresses' = <<>> /\ sockets' = sockets + 1 /\ pc' = "send"
           /\ UNCHANGED <<method, redirectsLeft, response, outcome>>

NoConnection == /\ pc = "connect"
                /\ addresses = <<>>
                /\ End("failed")
                /\ UNCHANGED <<hop, clock, sockets, response>>

\* Mutant of SendRequest: the socket of a failed send stays open.
SendRequestLeaking ==
    /\ pc = "send"
    /\ \/ Late /\ End("failed") /\ UNCHANGED clock
       \/ ~Late /\ Takes(1, TotalTimeout) /\ \/ End("failed")
                                             \/ pc' = "status" /\ UNCHANGED outcome
                                             \/ UNCHANGED <<pc, outcome>>
    /\ pending' = <<>> /\ headers' = 0 /\ framing' = "close" /\ want' = 0 /\ body' = 0
    /\ UNCHANGED <<hop, sockets>>

\* One send: the deadline, then part of the request, all of it, or an error.
SendRequest ==
    /\ pc = "send"
    /\ \/ /\ Late
          /\ End("failed")
          /\ sockets' = sockets - 1
          /\ UNCHANGED clock
       \/ /\ ~Late
          /\ Takes(1, TotalTimeout)
          /\ \/ End("failed") /\ sockets' = sockets - 1
             \/ pc' = "status" /\ UNCHANGED <<sockets, outcome>>
             \/ UNCHANGED <<pc, sockets, outcome>>
    /\ pending' = <<>> /\ headers' = 0 /\ framing' = "close" /\ want' = 0 /\ body' = 0
    /\ UNCHANGED hop

-----------------------------------------------------------------------------
(* receiveResponse. *)

LineReady == \E i \in 1..Len(pending) : pending[i] = "nl"

LineEnd == CHOOSE i \in 1..Len(pending) : /\ pending[i] = "nl"
                                          /\ \A j \in 1..(i - 1) : pending[j] # "nl"

Blank    == LineEnd = 1
PastLine == SubSeq(pending, LineEnd + 1, Len(pending))

\* Mutant of StopReading: an error in the trailer is not the end of it.
StopReadingBeforeTrailer == pc # "trailer" /\ End("failed") /\ sockets' = sockets - 1

\* Reading ends with an error: the socket is closed and the request fails.
\* Only in the trailer of a chunked body is such an error the end of the body.
StopReading ==
    \/ pc = "trailer" /\ pc' = "answer" /\ UNCHANGED <<sockets, outcome>>
    \/ pc # "trailer" /\ End("failed") /\ sockets' = sockets - 1

\* The server has said something the client cannot take.
Refuse == End("failed") /\ sockets' = sockets - 1 /\ UNCHANGED <<framing, want, body>>

GoOn(p) == pc' = p /\ UNCHANGED <<sockets, outcome>>

ReadStatus == /\ pc = "status"
              /\ LineReady
              /\ pending' = PastLine
              /\ \/ Refuse
                 \/ ~Blank /\ GoOn("headers") /\ UNCHANGED <<framing, want, body>>
              /\ UNCHANGED <<hop, clock, headers>>

\* A line with a colon is kept, one without is passed over.
ReadHeader == /\ pc = "headers"
              /\ LineReady
              /\ ~Blank
              /\ pending' = PastLine
              /\ headers' \in {headers, headers + LineEnd}
              /\ UNCHANGED <<pc, hop, clock, sockets, framing, want, body, outcome>>

\* The empty line: of the headers kept, Transfer-Encoding, Content-Length or
\* neither decides.
ReadHeadersEnd ==
    /\ pc = "headers"
    /\ LineReady
    /\ Blank
    /\ \/ /\ headers > 0
          /\ framing' = "chunked"
          /\ pending' = PastLine
          /\ GoOn("chunkSize")
          /\ UNCHANGED <<want, body>>
       \/ /\ headers > 0
          /\ Refuse
          /\ pending' = PastLine
       \/ \E n \in 0..MaxBytes :
             /\ headers > 0
             /\ framing' = "length"
             /\ want' = n
             /\ body' = IF Len(PastLine) < n THEN Len(PastLine) ELSE n
             /\ pending' = <<>>
             /\ GoOn(IF Len(PastLine) < n THEN "body" ELSE "answer")
       \/ /\ framing' = "close"
          /\ body' = Len(PastLine)
          /\ pending' = <<>>
          /\ GoOn("body")
          /\ UNCHANGED want
    /\ UNCHANGED <<hop, clock, headers>>

\* Mutant of ReadChunkSize: what the body holds already is not counted.
ReadChunkSizeAlone ==
    /\ pc = "chunkSize"
    /\ LineReady
    /\ pending' = PastLine
    /\ \E n \in 0..(MaxBytes + 1) :
          \/ n = 0 /\ GoOn("trailer") /\ UNCHANGED <<framing, want, body>>
          \/ n > MaxBytes /\ Refuse
          \/ n \in 1..MaxBytes /\ ~Blank /\ want' = n /\ GoOn("chunk") /\ UNCHANGED <<framing, body>>
    /\ UNCHANGED <<hop, clock, headers>>

\* A size that is not a number is a size of zero.
ReadChunkSize ==
    /\ pc = "chunkSize"
    /\ LineReady
    /\ pending' = PastLine
    /\ \E n \in 0..(MaxBytes + 1) :
          \/ /\ n = 0
             /\ GoOn("trailer")
             /\ UNCHANGED <<framing, want, body>>
          \/ /\ n > MaxBytes - body
             /\ ~Blank
             /\ Refuse
          \/ /\ n \in 1..(MaxBytes - body)
             /\ ~Blank
             /\ want' = n
             /\ GoOn("chunk")
             /\ UNCHANGED <<framing, body>>
    /\ UNCHANGED <<hop, clock, headers>>

TakeChunk == /\ pc = "chunk"
             /\ Len(pending) >= want
             /\ body' = body + want
             /\ pending' = SubSeq(pending, want + 1, Len(pending))
             /\ GoOn("chunkEnd")
             /\ UNCHANGED <<hop, clock, headers, framing, want>>

ReadChunkEnd == /\ pc = "chunkEnd"
                /\ LineReady
                /\ pending' = PastLine
                /\ GoOn("chunkSize")
                /\ UNCHANGED <<hop, clock, headers, framing, want, body>>

ReadTrailer == /\ pc = "trailer"
               /\ LineReady
               /\ pending' = PastLine
               /\ GoOn(IF Blank THEN "answer" ELSE "trailer")
               /\ UNCHANGED <<hop, clock, headers, framing, want, body>>

\* readBytes has what Content-Length asked for.
BodyRead == /\ pc = "body"
            /\ framing = "length"
            /\ body >= want
            /\ GoOn("answer")
            /\ UNCHANGED <<hop, clock, response>>

\* The loops around recv need more bytes.
Waiting == \/ pc \in LineSteps /\ ~LineReady
           \/ pc = "chunk" /\ Len(pending) < want
           \/ pc = "body" /\ (framing = "length" => body < want)

Overlong == pc \in LineSteps /\ Len(pending) > LineCap

GiveUp == /\ Waiting
          /\ Overlong \/ Late
          /\ StopReading
          /\ UNCHANGED <<hop, clock, response>>

\* One recv, which SO_RCVTIMEO bounds: bytes, nothing, an error, or the end.
Received(n) ==
    IF pc = "body"
    THEN /\ IF body + n > MaxBytes THEN StopReading /\ UNCHANGED body
                                   ELSE body' = body + n /\ UNCHANGED <<pc, sockets, outcome>>
         /\ UNCHANGED pending
    ELSE /\ \E s \in [1..n -> Bytes] : pending' = pending \o s
         /\ UNCHANGED <<pc, sockets, body, outcome>>

\* Mutant of Receive: the deadline is not looked at.
ReceiveWithoutDeadline ==
    /\ Waiting
    /\ ~Overlong
    /\ Takes(1, TotalTimeout)
    /\ \/ \E n \in 1..ReadChunk : Received(n)
       \/ StopReading /\ UNCHANGED <<pending, body>>
       \/ pc = "body" /\ GoOn("answer") /\ UNCHANGED <<pending, body>>
    /\ UNCHANGED <<hop, headers, framing, want>>

Receive ==
    /\ Waiting
    /\ ~Overlong
    /\ ~Late
    /\ \/ Takes(1, TotalTimeout) /\ \E n \in 1..ReadChunk : Received(n)
       \/ clock' = clock + TotalTimeout /\ UNCHANGED <<pc, sockets, pending, body, outcome>>
       \/ Takes(1, TotalTimeout) /\ StopReading /\ UNCHANGED <<pending, body>>
       \/ /\ pc = "body"
          /\ Takes(1, TotalTimeout)
          /\ GoOn("answer")
          /\ UNCHANGED <<pending, body>>
    /\ UNCHANGED <<hop, headers, framing, want>>

-----------------------------------------------------------------------------
(* The answer is complete: the socket is closed before it is looked at. *)

\* A response that is no redirect, has no Location, or is one too many.
Answer == /\ pc = "answer"
          /\ sockets' = sockets - 1
          /\ End("ok")
          /\ UNCHANGED <<hop, clock, response>>

\* 303, and 301 or 302 after a POST, go on with a GET; the others repeat the
\* request.
Redirect == /\ pc = "answer"
            /\ redirectsLeft > 0
            /\ headers > 0
            /\ sockets' = sockets - 1
            /\ redirectsLeft' = redirectsLeft - 1
            /\ method' = "GET" \/ UNCHANGED method
            /\ pc' = "hop"
            /\ UNCHANGED <<clock, addresses, response, outcome>>

-----------------------------------------------------------------------------
Reading == \/ ReadStatus \/ ReadHeader \/ ReadHeadersEnd \/ ReadChunkSize \/ TakeChunk
           \/ ReadChunkEnd \/ ReadTrailer \/ BodyRead \/ GiveUp \/ Receive

Working == \/ Resolve \/ SkipAddress \/ Connect \/ NoConnection \/ SendRequest
           \/ Reading \/ Answer \/ Redirect

Next == Begin \/ Working

Spec == Init /\ [][Next]_vars

\* The thread that asked keeps executing; no call blocks for longer than its
\* timeout.  What the server sends, and that it sends at all, is not assumed.
FairSpec == Spec /\ WF_vars(Working)

-----------------------------------------------------------------------------
(* Properties. *)

\* Every variable stays in its range.
TypeOK ==
    /\ pc \in Steps
    /\ method \in {"GET", "POST"}
    /\ redirectsLeft \in -1..MaxRedirects
    /\ clock \in Nat
    /\ addresses \in Seq({"public", "private"})
    /\ sockets \in {0, 1}
    /\ pending \in Seq(Bytes)
    /\ headers \in Nat
    /\ framing \in {"close", "length", "chunked"}
    /\ want \in 0..MaxBytes
    /\ body \in Nat
    /\ outcome \in Outcomes

\* However the server trickles, stalls or redirects, a request takes no longer
\* than its deadline, the one call that was blocked when it passed, and one
\* more host to find and connect to: neither getaddrinfo nor connect looks at
\* the deadline.
ElapsedBounded ==
    clock <= 2 * TotalTimeout + ResolveTime + MaxAddresses * ConnectTimeout

\* Whatever sizes and lengths the server announces, the body never grows over
\* the limit, and with the bytes received and not yet used it is at most that and
\* one line and one recv.  The header lines that are kept have no limit of that
\* kind: only the deadline ends them, after what TotalTimeout + 1 calls of recv
\* can bring, a call taking at least a unit of time.
HeldBounded ==
    /\ body <= MaxBytes
    /\ pc = "chunk" => body + want <= MaxBytes
    /\ body + Len(pending) <= MaxBytes + LineCap + ReadChunk
    /\ headers <= ReadChunk * (TotalTimeout + 1)

\* A request that is over has closed every socket it opened, on every way out.
SocketsClosed == pc \in {"idle", "hop", "connect"} => sockets = 0

\* A request ends, whatever the server does.
RequestEnds == pc # "idle" ~> pc = "idle"

=============================================================================
