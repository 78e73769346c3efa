----------------------------- MODULE Connection -----------------------------
(***************************************************************************)
(* One net::Connection and the net::Reactor it is registered with: worker  *)
(* threads call send_frame and close, the I/O thread runs the event loop.  *)
(*                                                                         *)
(* The kernel is modelled from how the code uses it: a socket whose send   *)
(* buffer can fill up, epoll with EPOLLET on the socket and without it on  *)
(* the eventfd, or select.  epoll_wait reports its events in any order     *)
(* (select's loop always takes the wakeup first, one of those orders).     *)
(***************************************************************************)
EXTENDS Integers, Sequences, FiniteSets

CONSTANTS
  Threads,        \* the threads that call send_frame or close
  Frames,         \* the frames they send, each one once
  NoFrame,
  Space,          \* bound: what the socket's send buffer holds, in parts of a frame
  MaxInput        \* bound: what the peer sends, in calls of recv

ASSUME ConnectionAssumption ==
  /\ NoFrame \notin Frames
  /\ Space \in Nat \ {0}
  /\ MaxInput \in Nat

VARIABLES
  edgeTriggered,  \* the reactor of this build: epoll with EPOLLET, or select
  wbuf,      \* wbuf_, as parts of frames: a header or a payload
  armed,     \* write_armed_
  closing,   \* closing_
  closed,    \* closed_; the socket is closed and removed from the reactor with it
  garbled,   \* rbuf_ starts with a length that on_readable refused
  pending,   \* pending_ of the reactor, as the names of the closures
  batch,     \* the closures drain_posts has yet to run
  wake,      \* the eventfd (or the wake socket) is readable
  io,        \* where the I/O thread is in run()
  events,    \* the events of this epoll_wait yet to be handled
  mask,      \* the events of the socket, as on_event gets them
  tpc,       \* where each thread is in send_frame or close
  tpost,     \* the closure it posts
  tframe,    \* the frame it sends
  interest,  \* kernel: the events the socket is registered for
  listed,    \* kernel: the socket is on epoll's ready list
  sndbuf,    \* kernel: parts in the send buffer
  nospace,   \* kernel: the last send failed for want of space
  rcvbuf,    \* kernel: what recv returns next
  peer,      \* kernel: the other end is open, has shut down or has reset
  wire,      \* history: the parts accepted by send
  order,     \* history: the frames in the order they were appended
  inputs,    \* history: how often the peer has sent something
  owed       \* history: frames appended before a flush that was posted before the close

ioVars == <<batch, io, events, mask, armed, garbled>>
threadVars == <<tpc, tpost, tframe>>
kernelVars == <<interest, listed, sndbuf, nospace, rcvbuf, peer, inputs>>
vars == <<edgeTriggered, wbuf, closing, closed, pending, wake, wire, order, owed, ioVars,
          threadVars, kernelVars>>

Posts == {"flush", "schedule_close", "deliver_close"}
Parts == Frames \X {"length", "payload"}
Input == {"frame", "bad"}

TypeOK ==
  /\ edgeTriggered \in BOOLEAN
  /\ wbuf \in Seq(Parts) /\ wire \in Seq(Parts) /\ order \in Seq(Frames) /\ owed \in 0..Len(order)
  /\ armed \in BOOLEAN /\ closing \in BOOLEAN /\ closed \in BOOLEAN /\ garbled \in BOOLEAN
  /\ pending \in Seq(Posts) /\ batch \in Seq(Posts) /\ wake \in BOOLEAN
  /\ io \in {"wait", "next", "swap", "flush", "arm", "read"}
  /\ events \subseteq {"wake", "socket"} /\ mask \subseteq {"read", "write"}
  /\ tpc \in [Threads -> {"idle", "append", "post", "wake"}]
  /\ tpost \in [Threads -> Posts] /\ tframe \in [Threads -> Frames \cup {NoFrame}]
  /\ interest \subseteq {"read", "write"} /\ listed \in BOOLEAN
  /\ sndbuf \in 0..Space /\ nospace \in BOOLEAN
  /\ rcvbuf \in Seq(Input) /\ peer \in {"open", "eof", "reset"} /\ inputs \in 0..MaxInput

\* Connection::start has registered the socket for reading.
Init ==
  /\ edgeTriggered \in BOOLEAN
  /\ wbuf = << >> /\ wire = << >> /\ order = << >> /\ owed = 0
  /\ armed = FALSE /\ closing = FALSE /\ closed = FALSE /\ garbled = FALSE
  /\ pending = << >> /\ batch = << >> /\ wake = FALSE
  /\ io = "wait" /\ events = {} /\ mask = {}
  /\ tpc = [t \in Threads |-> "idle"]
  /\ tpost = [t \in Threads |-> "flush"]
  /\ tframe = [t \in Threads |-> NoFrame]
  /\ interest = {"read"} /\ listed = FALSE
  /\ sndbuf = 0 /\ nospace = FALSE
  /\ rcvbuf = << >> /\ peer = "open" /\ inputs = 0
-----------------------------------------------------------------------------
(* The kernel *)

\* The events of `ev` that hold now; a reset is reported as readable.
Ready(ev) ==
  {e \in ev : \/ e = "read" /\ (rcvbuf # << >> \/ peer # "open")
              \/ e = "write" /\ (sndbuf < Space \/ peer = "reset")}

\* What epoll_wait or select has to report of the socket.
Reported == IF edgeTriggered /\ ~listed THEN {} ELSE Ready(interest)

\* The peer sends something, shuts down or resets the connection.
PeerSends ==
  /\ peer = "open" /\ ~closed /\ inputs < MaxInput
  /\ inputs' = inputs + 1
  /\ \/ \E x \in Input : rcvbuf' = Append(rcvbuf, x) /\ peer' = peer
     \/ peer' = "eof" /\ rcvbuf' = rcvbuf
     \/ peer' = "reset" /\ rcvbuf' = << >>
  /\ listed' = (listed \/ interest # {})
  /\ UNCHANGED <<edgeTriggered, wbuf, closing, closed, pending, wake, wire, order, owed, ioVars,
                 threadVars, interest, sndbuf, nospace>>

\* The peer reads; a writer that had found no space is told so.
PeerReads ==
  /\ sndbuf > 0 /\ peer # "reset"
  /\ sndbuf' = sndbuf - 1
  /\ nospace' = FALSE
  /\ listed' = (listed \/ (nospace /\ "write" \in interest))
  /\ UNCHANGED <<edgeTriggered, wbuf, closing, closed, pending, wake, wire, order, owed, ioVars,
                 threadVars, interest, rcvbuf, peer, inputs>>

\* Reactor::modify: EPOLL_CTL_MOD looks at the socket again.
Modify(ev) ==
  /\ interest' = ev
  /\ listed' = (listed \/ Ready(ev) # {})
-----------------------------------------------------------------------------
(* Any thread *)

\* send_frame: the test of closing_ and closed_.
SendFrame(t, f) ==
  /\ tpc[t] = "idle"
  /\ \A i \in 1..Len(order) : order[i] # f
  /\ \A u \in Threads : tframe[u] # f
  /\ ~closing /\ ~closed
  /\ tpc' = [tpc EXCEPT ![t] = "append"]
  /\ tframe' = [tframe EXCEPT ![t] = f]
  /\ UNCHANGED <<edgeTriggered, wbuf, closing, closed, pending, wake, wire, order, owed, ioVars,
                 tpost, kernelVars>>

\* The length and the payload are inserted under mu_, which try_flush_locked
\* holds as well.
AppendFrame(t) ==
  LET f == tframe[t] IN
  /\ tpc[t] = "append"
  /\ io \notin {"flush", "arm"}
  /\ wbuf' = wbuf \o << <<f, "length">>, <<f, "payload">> >>
  /\ order' = Append(order, f)
  /\ tpc' = [tpc EXCEPT ![t] = "post"]
  /\ tpost' = [tpost EXCEPT ![t] = "flush"]
  /\ tframe' = [tframe EXCEPT ![t] = NoFrame]
  /\ UNCHANGED <<edgeTriggered, closing, closed, pending, wake, wire, owed, ioVars, kernelVars>>

\* close() calls schedule_close, whose compare_exchange lets one caller pass.
Close(t) ==
  /\ tpc[t] = "idle"
  /\ ~closing
  /\ closing' = TRUE
  /\ tpc' = [tpc EXCEPT ![t] = "post"]
  /\ tpost' = [tpost EXCEPT ![t] = "deliver_close"]
  /\ UNCHANGED <<edgeTriggered, wbuf, closed, pending, wake, wire, order, owed, ioVars, tframe,
                 kernelVars>>

ClosePosted ==
  closed \/ \E i \in 1..Len(pending \o batch) : (pending \o batch)[i] = "deliver_close"

\* Reactor::post pushes the closure under post_mu_,
PostPush(t) ==
  /\ tpc[t] = "post"
  /\ pending' = Append(pending, tpost[t])
  /\ owed' = IF tpost[t] = "flush" /\ ~ClosePosted THEN Len(order) ELSE owed
  /\ tpc' = [tpc EXCEPT ![t] = "wake"]
  /\ UNCHANGED <<edgeTriggered, wbuf, closing, closed, wake, wire, order, ioVars, tpost, tframe,
                 kernelVars>>

PostEnd(t, w) ==
  /\ tpc[t] = "wake"
  /\ wake' = w
  /\ tpc' = [tpc EXCEPT ![t] = "idle"]
  /\ UNCHANGED <<edgeTriggered, wbuf, closing, closed, pending, wire, order, owed, ioVars, tpost,
                 tframe, kernelVars>>

\* Mutant: the reactor is not woken up.
PostSilently(t) == PostEnd(t, wake)

\* and writes to the eventfd.
PostWake(t) == PostEnd(t, TRUE)
-----------------------------------------------------------------------------
(* The I/O thread *)

\* epoll_wait returns: a timeout without events changes nothing.
Wait ==
  /\ io = "wait"
  /\ wake \/ Reported # {}
  /\ events' = {e \in {"wake", "socket"} : IF e = "wake" THEN wake ELSE Reported # {}}
  /\ mask' = Reported
  /\ listed' = FALSE
  /\ io' = "next"
  /\ UNCHANGED <<edgeTriggered, wbuf, closing, closed, pending, wake, wire, order, owed, batch,
                 armed, garbled, threadVars, interest, sndbuf, nospace, rcvbuf, peer, inputs>>

\* The loop over the events comes to the eventfd, and reads it.
Woken ==
  /\ io = "next" /\ batch = << >>
  /\ "wake" \in events
  /\ events' = events \ {"wake"}
  /\ wake' = FALSE
  /\ io' = "swap"
  /\ UNCHANGED <<edgeTriggered, wbuf, closing, closed, pending, wire, order, owed, batch, mask,
                 armed, garbled, threadVars, kernelVars>>

SwapAs(posts) ==
  /\ io = "swap"
  /\ batch' = posts
  /\ pending' = << >>
  /\ io' = "next"
  /\ UNCHANGED <<edgeTriggered, wbuf, closing, closed, wake, wire, order, owed, events, mask, armed,
                 garbled, threadVars, kernelVars>>

\* Mutant: the last closure posted is run first.
SwapBackwards == SwapAs([i \in 1..Len(pending) |-> pending[Len(pending) + 1 - i]])

\* drain_posts takes the closures under post_mu_.
Swap == SwapAs(pending)

\* It runs the next one: send_frame's flush, if `unless` does not hold,
RunFlush(unless) ==
  /\ io = "next" /\ batch # << >> /\ Head(batch) = "flush"
  /\ batch' = Tail(batch)
  /\ io' = IF unless THEN "next" ELSE "flush"
  /\ UNCHANGED <<edgeTriggered, wbuf, closing, closed, pending, wake, wire, order, owed, events,
                 mask, armed, garbled, threadVars, kernelVars>>

\* Mutant: closed_ is not tested.
PostedFlushAlways == RunFlush(FALSE)

PostedFlush == RunFlush(closed)

\* The I/O thread's own schedule_close, with its post.
ScheduleClose ==
  /\ closing' = TRUE
  /\ pending' = IF closing THEN pending ELSE Append(pending, "deliver_close")
  /\ wake' = (wake \/ ~closing)

\* the schedule_close that a failed send has posted,
PostedScheduleClose ==
  /\ io = "next" /\ batch # << >> /\ Head(batch) = "schedule_close"
  /\ batch' = Tail(batch)
  /\ ScheduleClose
  /\ UNCHANGED <<edgeTriggered, wbuf, closed, wire, order, owed, io, events, mask, armed, garbled,
                 threadVars, kernelVars>>

\* or deliver_close: Reactor::remove, the close of the socket and on_close.
DeliverClose ==
  /\ io = "next" /\ batch # << >> /\ Head(batch) = "deliver_close"
  /\ batch' = Tail(batch)
  /\ closed' = TRUE
  /\ interest' = {}
  /\ listed' = FALSE
  /\ UNCHANGED <<edgeTriggered, wbuf, closing, pending, wake, wire, order, owed, io, events, mask,
                 armed, garbled, threadVars, sndbuf, nospace, rcvbuf, peer, inputs>>

\* The loop comes to the socket: a callback that was removed is not found.
Dispatch ==
  /\ io = "next" /\ batch = << >>
  /\ "socket" \in events
  /\ events' = events \ {"socket"}
  /\ io' = CASE closed -> "next"
             [] ~closed /\ "read" \in mask -> "read"
             [] OTHER -> "flush"
  /\ UNCHANGED <<edgeTriggered, wbuf, closing, closed, pending, wake, wire, order, owed, batch,
                 mask, armed, garbled, threadVars, kernelVars>>

AgainWith(w) ==
  /\ io = "next" /\ batch = << >> /\ events = {}
  /\ io' = "wait"
  /\ wake' = w
  /\ UNCHANGED <<edgeTriggered, wbuf, closing, closed, pending, wire, order, owed, batch, events,
                 mask, armed, garbled, threadVars, kernelVars>>

\* Mutant: the eventfd is read after the closures were run.
AgainReadsWake == AgainWith(FALSE)

\* All events are handled.
Again == AgainWith(wake)

\* on_event goes on to on_writable.
AfterRead == IF "write" \in mask THEN "flush" ELSE "next"

\* on_readable: one recv that returns something; the loop goes on to the next.
Read ==
  /\ io = "read" /\ rcvbuf # << >>
  /\ rcvbuf' = Tail(rcvbuf)
  /\ garbled' = (garbled \/ Head(rcvbuf) = "bad")
  /\ IF garbled'
       THEN ScheduleClose /\ io' = AfterRead
       ELSE io' = "read" /\ UNCHANGED <<closing, pending, wake>>
  /\ UNCHANGED <<edgeTriggered, wbuf, closed, wire, order, owed, batch, events, mask, armed,
                 threadVars, interest, listed, sndbuf, nospace, peer, inputs>>

\* recv returns EAGAIN, or end of file or an error.
ReadEnds ==
  /\ io = "read" /\ rcvbuf = << >>
  /\ IF peer = "open" THEN UNCHANGED <<closing, pending, wake>> ELSE ScheduleClose
  /\ io' = AfterRead
  /\ UNCHANGED <<edgeTriggered, wbuf, closed, wire, order, owed, batch, events, mask, armed,
                 garbled, threadVars, kernelVars>>

\* try_flush_locked: send takes n parts, of which wbuf_ is rid.
SendSome(n, erased) ==
  /\ io = "flush" /\ wbuf # << >> /\ peer # "reset"
  /\ n <= Space - sndbuf
  /\ wire' = wire \o SubSeq(wbuf, 1, n)
  /\ wbuf' = SubSeq(wbuf, erased + 1, Len(wbuf))
  /\ sndbuf' = sndbuf + n
  /\ UNCHANGED <<edgeTriggered, closing, closed, pending, wake, order, owed, ioVars, threadVars,
                 interest, listed, nospace, rcvbuf, peer, inputs>>

\* Mutant: a partial send empties the buffer.
FlushAll == \E n \in 1..Len(wbuf) : SendSome(n, Len(wbuf))

Flush == \E n \in 1..Len(wbuf) : SendSome(n, n)

\* send fails: EAGAIN, or the connection is broken.
FlushFails ==
  /\ io = "flush" /\ wbuf # << >>
  /\ \/ /\ peer # "reset" /\ sndbuf = Space
        /\ nospace' = TRUE
        /\ io' = IF armed THEN "next" ELSE "arm"
        /\ UNCHANGED <<pending, wake>>
     \/ /\ peer = "reset"
        /\ pending' = Append(pending, "schedule_close")
        /\ wake' = TRUE
        /\ io' = "next"
        /\ nospace' = nospace
  /\ UNCHANGED <<edgeTriggered, wbuf, closing, closed, wire, order, owed, batch, events, mask,
                 armed, garbled, threadVars, interest, listed, sndbuf, rcvbuf, peer, inputs>>

\* modify(Read | Write) and write_armed_, after EAGAIN.
Arm ==
  /\ io = "arm"
  /\ Modify({"read", "write"})
  /\ armed' = TRUE
  /\ io' = "next"
  /\ UNCHANGED <<edgeTriggered, wbuf, closing, closed, pending, wake, wire, order, owed, batch,
                 events, mask, garbled, threadVars, sndbuf, nospace, rcvbuf, peer, inputs>>

DisarmAs(a) ==
  /\ io = "flush" /\ wbuf = << >>
  /\ IF armed THEN Modify({"read"}) ELSE UNCHANGED <<interest, listed>>
  /\ armed' = a
  /\ io' = "next"
  /\ UNCHANGED <<edgeTriggered, wbuf, closing, closed, pending, wake, wire, order, owed, batch,
                 events, mask, garbled, threadVars, sndbuf, nospace, rcvbuf, peer, inputs>>

\* Mutant: write_armed_ stays set.
DisarmKeepsFlag == DisarmAs(armed)

\* The buffer is empty: modify(Read) if writing was armed.
Disarm == DisarmAs(FALSE)

IoStep ==
  \/ Wait \/ Woken \/ Swap \/ PostedFlush \/ PostedScheduleClose \/ DeliverClose
  \/ Dispatch \/ Again \/ Read \/ ReadEnds \/ Flush \/ FlushFails \/ Arm \/ Disarm

ThreadStep(t) ==
  \/ \E f \in Frames : SendFrame(t, f)
  \/ AppendFrame(t) \/ Close(t) \/ PostPush(t) \/ PostWake(t)

Next == IoStep \/ PeerSends \/ PeerReads \/ \E t \in Threads : ThreadStep(t)

Spec == Init /\ [][Next]_vars

\* The I/O thread and a thread inside send_frame or close keep running, and
\* the peer keeps reading.
Fairness ==
  /\ WF_vars(IoStep)
  /\ WF_vars(PeerReads)
  /\ \A t \in Threads : WF_vars(AppendFrame(t) \/ PostPush(t) \/ PostWake(t))

LiveSpec == Spec /\ Fairness
-----------------------------------------------------------------------------
(* Properties *)

\* A posted closure is never overlooked: the eventfd is readable, or the I/O
\* thread is about to swap, or the thread that posted it has yet to write.
\* drain_posts reads the eventfd before it takes the closures for this.
PostsAreHeard ==
  pending # << >> => \/ wake
                     \/ io = "swap"
                     \/ \E t \in Threads : tpc[t] = "wake"

\* What was sent and what waits in wbuf_ are the frames as they were appended,
\* whole and in order, whatever send accepts at a time.
FramesStayWhole ==
  LET s == wire \o wbuf IN
  /\ Len(s) = 2 * Len(order)
  /\ \A i \in 1..Len(order) : s[2*i - 1] = <<order[i], "length">> /\ s[2*i] = <<order[i], "payload">>

\* No recv, send or modify on a socket that was closed: posted flushes and
\* events of the same epoll_wait can come after deliver_close.
NoCallAfterClose == io \in {"flush", "arm", "read"} => ~closed

\* A waiting I/O thread leaves nothing behind.  With nothing on its way to it,
\* bytes in wbuf_ are not forgotten: the socket is watched for writing, and
\* either an event is due or the peer's next read causes one.  And input that
\* has arrived is announced, though an edge is reported only once
\* (try_flush_locked, on_readable).
NothingStranded ==
  io = "wait" /\ ~closing =>
    /\ wbuf # << >> /\ ~wake /\ pending = << >> /\ (\A t \in Threads : tpc[t] \notin {"post", "wake"}) =>
         /\ "write" \in interest
         /\ "write" \in Reported \/ (IF edgeTriggered THEN nospace ELSE sndbuf = Space)
    /\ rcvbuf # << >> \/ peer # "open" => "read" \in Reported

\* Closing is graceful: closures run in the order in which they were posted, so
\* a frame whose flush was posted before the close has been sent, unless the
\* peer is too slow or gone.
CloseFlushesFirst ==
  [][~closed /\ closed' => Len(wire) >= 2 * owed \/ armed \/ peer = "reset"]_vars

\* A frame appended to an open connection goes out, or the connection closes.
FrameGoesOut ==
  \A f \in Frames : (\E i \in 1..Len(order) : order[i] = f)
                      ~> (closing \/ \E i \in 1..Len(wire) : wire[i] = <<f, "payload">>)

\* A close that was scheduled is carried out, and on_close called.
CloseCompletes == closing ~> closed
=============================================================================
