------------------------------ MODULE Framing ------------------------------
(***************************************************************************)
(* The wire format: a 4-byte big-endian length and then the payload        *)
(* (src/protocol/framing.cpp, Connection::send_frame), taken apart by two  *)
(* parsers that are fed whatever recv returns: Connection::on_readable in  *)
(* the server and FrameDecoder::feed in the client.  Each has a loop and a *)
(* limit of its own, stops at a bad length in its own way, and undoes      *)
(* frame() by itself: both read one stream here only to be checked in one  *)
(* run, and no property compares them.                                     *)
(***************************************************************************)
EXTENDS Integers, Sequences

CONSTANTS
  Bytes,     \* the values that occur among the bytes
  MaxFrame,  \* max_frame_bytes of the server's configuration
  ClientMax, \* FrameDecoder::max_frame_bytes
  MaxChunk,  \* the buffer that recv fills
  MaxInput   \* bound: bytes in the stream

ASSUME FramingAssumption ==
  /\ Bytes \subseteq 0..255
  /\ MaxFrame \in Nat /\ ClientMax \in Nat
  /\ MaxChunk \in Nat \ {0}
  /\ MaxInput \in Nat

VARIABLES
  fed,         \* history: the stream so far
  server,      \* Connection: rbuf_, reading_length_, want_
  dispatched,  \* the payloads given to on_frame_
  closing,     \* schedule_close was called
  client,      \* FrameDecoder: buf, reading_len, want
  returned,    \* the payloads that feed returned
  thrown,      \* feed threw; the client stops reading
  lost         \* history: the payloads found in the call that threw

vars == <<fed, server, dispatched, closing, client, returned, thrown, lost>>

\* want_ is 4 while a length is read, then the length.
Parser(max) ==
  [buf : Seq(Bytes), reading : {TRUE}, want : {4}] \cup [buf : Seq(Bytes), reading : {FALSE}, want : 1..max]
Start == [buf |-> <<>>, reading |-> TRUE, want |-> 4]

TypeOK ==
  /\ fed \in Seq(Bytes) /\ Len(fed) <= MaxInput
  /\ server \in Parser(MaxFrame) /\ client \in Parser(ClientMax)
  /\ dispatched \in Seq(Seq(Bytes)) /\ returned \in Seq(Seq(Bytes)) /\ lost \in Seq(Seq(Bytes))
  /\ closing \in BOOLEAN /\ thrown \in BOOLEAN

Init ==
  /\ fed = <<>>
  /\ server = Start /\ client = Start
  /\ dispatched = <<>> /\ returned = <<>> /\ lost = <<>>
  /\ closing = FALSE /\ thrown = FALSE

\* The shifts and masks, and the frame that frame() makes.
Header(n) == <<(n \div 16777216) % 256, (n \div 65536) % 256, (n \div 256) % 256, n % 256>>
Frame(payload) == Header(Len(payload)) \o payload

Length(b) == 16777216 * b[1] + 65536 * b[2] + 256 * b[3] + b[4]

BadLength(n, max) == n = 0 \/ n > max

\* Mutant: a payload needs one byte more than its length.
AwaitMore(p) == Len(p.buf) <= p.want

Await(p) == Len(p.buf) < p.want

\* The length is cut off the buffer, and then the payload.
ReadLength(p) == [buf |-> SubSeq(p.buf, 5, Len(p.buf)), reading |-> FALSE, want |-> Length(p.buf)]
NextFrame(p) == [buf |-> SubSeq(p.buf, p.want + 1, Len(p.buf)), reading |-> TRUE, want |-> 4]

\* What a parsing loop has done: the parser, the payloads it found, whether it met
\* a bad length, and whether it goes on.
Begin(p) == [parser |-> p, found |-> <<>>, bad |-> FALSE, more |-> TRUE]

\* The server's loop, a length or a payload at a time.
Iteration(r) ==
  LET p == r.parser IN
  IF ~r.more THEN r
  ELSE IF p.reading
    THEN IF Len(p.buf) < 4 THEN [r EXCEPT !.more = FALSE]
         ELSE IF BadLength(Length(p.buf), MaxFrame) THEN [r EXCEPT !.more = FALSE, !.bad = TRUE]
         ELSE [r EXCEPT !.parser = ReadLength(p)]
    ELSE IF Await(p) THEN [r EXCEPT !.more = FALSE]
         ELSE [r EXCEPT !.parser = NextFrame(p), !.found = Append(@, SubSeq(p.buf, 1, p.want))]

\* The loop.  An iteration after which it goes on takes a byte or more, so it
\* ends within one iteration more than there are bytes.
Parse(p) ==
  LET rounds == Len(p.buf) + 1
      after[n \in 0..rounds] == IF n = 0 THEN Begin(p) ELSE Iteration(after[n - 1])
  IN after[rounds]

Fill(p, chunk) == [p EXCEPT !.buf = @ \o chunk]

\* on_readable, one recv: each payload goes to on_frame_ as it is found.  After
\* a bad length the connection may be read again until it is closed.
OnReadable(chunk) ==
  LET r == Parse(Fill(server, chunk)) IN
  /\ server' = r.parser
  /\ dispatched' = dispatched \o r.found
  /\ closing' = (closing \/ r.bad)

\* The client's loop, a frame at a time: q is the parser past the length.
Round(r) ==
  LET p == r.parser
      q == IF p.reading THEN ReadLength(p) ELSE p
  IN IF ~r.more THEN r
     ELSE IF p.reading /\ Len(p.buf) < 4 THEN [r EXCEPT !.more = FALSE]
     ELSE IF p.reading /\ BadLength(Length(p.buf), ClientMax) THEN [r EXCEPT !.more = FALSE, !.bad = TRUE]
     ELSE IF Len(q.buf) < q.want THEN [r EXCEPT !.parser = q, !.more = FALSE]
     ELSE [r EXCEPT !.parser = NextFrame(q), !.found = Append(@, SubSeq(q.buf, 1, q.want))]

FeedLoop(p) ==
  LET rounds == Len(p.buf) + 1
      after[n \in 0..rounds] == IF n = 0 THEN Begin(p) ELSE Round(after[n - 1])
  IN after[rounds]

\* Mutant: feed stops at a bad length and does not throw.
FeedSilently(chunk) ==
  LET r == FeedLoop(Fill(client, chunk)) IN
  /\ client' = r.parser
  /\ returned' = returned \o r.found
  /\ UNCHANGED <<thrown, lost>>

\* feed: the payloads found in this call are lost when it throws, and reader_loop
\* does not call it again.
Feed(chunk) ==
  IF thrown THEN UNCHANGED <<client, returned, thrown, lost>>
  ELSE LET r == FeedLoop(Fill(client, chunk)) IN
       /\ client' = r.parser
       /\ returned' = IF r.bad THEN returned ELSE returned \o r.found
       /\ lost' = IF r.bad THEN r.found ELSE lost
       /\ thrown' = r.bad

Chunks == UNION {[1..n -> Bytes] : n \in 1..MaxChunk}

Receive(chunk) ==
  /\ Len(fed) + Len(chunk) <= MaxInput
  /\ fed' = fed \o chunk
  /\ OnReadable(chunk)
  /\ Feed(chunk)

Next == \E chunk \in Chunks : Receive(chunk)

Spec == Init /\ [][Next]_vars
-----------------------------------------------------------------------------
\* The sequences one after the other.
Join(seqs) ==
  LET upTo[i \in 0..Len(seqs)] == IF i = 0 THEN <<>> ELSE upTo[i - 1] \o seqs[i]
  IN upTo[Len(seqs)]

\* What the parser has taken in and not given out, the length it has read included.
Pending(p) == IF p.reading THEN p.buf ELSE Header(p.want) \o p.buf

\* No frame is complete, and the length, if it is there, is a good one.
Incomplete(rest, max) == Len(rest) < 4 \/ (~BadLength(Length(rest), max) /\ Len(rest) < 4 + Length(rest))

Begins(s, t) == \E n \in 0..Len(t) : s = SubSeq(t, 1, n)

(* However the stream is cut into pieces, the payloads dispatched, framed    *)
(* again, and the bytes still pending are the stream: on_readable undoes     *)
(* frame(), and loses, adds and reorders nothing.  It keeps no payload back  *)
(* that is complete, so what it buffers between two reads is less than a     *)
(* frame of the maximal size.                                                *)
ServerInvertsFrame ==
  LET rest == Pending(server) IN
  /\ fed = Join([i \in DOMAIN dispatched |-> Frame(dispatched[i])]) \o rest
  /\ ~closing => Incomplete(rest, MaxFrame)

(* feed undoes frame() as well, up to the limit of the decoder: as long as   *)
(* it has not thrown, the payloads returned, framed again, and the bytes     *)
(* pending are the stream, and nothing complete is kept back.  It throws     *)
(* only at a zero or excessive length, with which the bytes pending then     *)
(* begin.  Every frame before that was returned, or lost with the call that  *)
(* threw, in the order of the stream; until it throws, none is lost.         *)
ClientInvertsFrame ==
  LET rest == Pending(client)
      payloads == returned \o lost
      taken == Join([i \in DOMAIN payloads |-> Frame(payloads[i])]) \o rest
  IN IF thrown THEN Begins(taken, fed) /\ Len(rest) >= 4 /\ BadLength(Length(rest), ClientMax)
     ELSE taken = fed /\ lost = <<>> /\ Incomplete(rest, ClientMax)
=============================================================================
