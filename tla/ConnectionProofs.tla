-------------------------- MODULE ConnectionProofs --------------------------
(***************************************************************************)
(* Proofs that Connection keeps the properties of its run for any threads, *)
(* frames, send buffer and input, with either reactor.                     *)
(***************************************************************************)
EXTENDS Connection, TLAPS

\* Most leaves are first-order: Zenon is the default, SMT is cited by name.
USE Zenon

NoClose(posts) == \A i \in 1..Len(posts) : posts[i] # "deliver_close"

\* A flush comes before any deliver_close.
FlushFirst(posts) ==
  \E i \in 1..Len(posts) :
    posts[i] = "flush" /\ \A j \in 1..Len(posts) : j < i => posts[j] # "deliver_close"

\* Something that sends the buffer, or closes the connection, is to be run.
WillFlush(posts) == \E i \in 1..Len(posts) : posts[i] \in {"flush", "schedule_close"}

\* While it waits, and while it is about to take the posts, the loop has nothing
\* in hand.
Loop ==
  /\ io \in {"wait", "swap"} => batch = << >>
  /\ io = "wait" => events = {}

\* deliver_close is only posted by whoever has set closing_.
Closing ==
  ~closing =>
    /\ ~closed
    /\ NoClose(pending)
    /\ NoClose(batch)
    /\ \A t \in Threads : tpc[t] = "post" => tpost[t] # "deliver_close"

\* write_armed_ agrees with what the kernel was told.
Registered == ~closed => interest = IF armed THEN {"read", "write"} ELSE {"read"}

\* An edge of the input is with the kernel, with the loop, or being read.
InputKept ==
  ~closing /\ edgeTriggered /\ (rcvbuf # << >> \/ peer # "open") =>
    listed \/ io = "read" \/ ("socket" \in events /\ "read" \in mask)

\* The end of the kernel's lack of space has been, or will be, an edge.
Watched ==
  \/ ~edgeTriggered
  \/ nospace
  \/ listed /\ (sndbuf < Space \/ peer = "reset")
  \/ "socket" \in events /\ "write" \in mask

\* Whatever is in the buffer has somebody to send it.
OutputKept ==
  ~closing /\ wbuf # << >> =>
    \/ \E t \in Threads : tpc[t] = "post" /\ tpost[t] = "flush"
    \/ WillFlush(pending)
    \/ WillFlush(batch)
    \/ io = "flush"
    \/ io = "arm" /\ (nospace \/ sndbuf < Space)
    \/ io = "read" /\ "write" \in mask
    \/ armed /\ Watched

\* What is owed before the close has been sent, or will be tried before it.
Due ==
  ~closed =>
    \/ 2 * owed <= Len(wire)
    \/ armed
    \/ peer = "reset"
    \/ io \in {"flush", "arm"}
    \/ FlushFirst(batch)
    \/ NoClose(batch) /\ FlushFirst(pending)

\* TypeOK in three parts: the buffers, the queues, and the rest.
Buffers ==
  wbuf \in Seq(Parts) /\ wire \in Seq(Parts) /\ order \in Seq(Frames) /\ owed \in 0..Len(order)

Queues == pending \in Seq(Posts) /\ batch \in Seq(Posts) /\ rcvbuf \in Seq(Input)

Flags ==
  /\ edgeTriggered \in BOOLEAN
  /\ armed \in BOOLEAN /\ closing \in BOOLEAN /\ closed \in BOOLEAN /\ garbled \in BOOLEAN
  /\ wake \in BOOLEAN
  /\ io \in {"wait", "next", "swap", "flush", "arm", "read"}
  /\ events \subseteq {"wake", "socket"} /\ mask \subseteq {"read", "write"}
  /\ tpc \in [Threads -> {"idle", "append", "post", "wake"}]
  /\ tpost \in [Threads -> Posts] /\ tframe \in [Threads -> Frames \cup {NoFrame}]
  /\ \A t \in Threads : tpc[t] = "append" => tframe[t] \in Frames
  /\ interest \subseteq {"read", "write"} /\ listed \in BOOLEAN
  /\ sndbuf \in 0..Space /\ nospace \in BOOLEAN
  /\ peer \in {"open", "eof", "reset"} /\ inputs \in 0..MaxInput

IInv ==
  /\ Buffers
  /\ Queues
  /\ Flags
  /\ PostsAreHeard
  /\ NoCallAfterClose
  /\ FramesStayWhole
  /\ Loop
  /\ Closing
  /\ Registered
  /\ InputKept
  /\ OutputKept
  /\ Due
-----------------------------------------------------------------------------
LEMMA InitIInv == Init => IInv
<1> SUFFICES ASSUME Init PROVE IInv
  OBVIOUS
<1>1. Buffers /\ Queues
  BY SMT DEF Init, Buffers, Queues
<1> Flags
  <2>1. /\ tpc \in [Threads -> {"idle", "append", "post", "wake"}]
        /\ tpost \in [Threads -> Posts]
        /\ tframe \in [Threads -> Frames \cup {NoFrame}]
        /\ \A t \in Threads : tpc[t] = "append" => tframe[t] \in Frames
    BY DEF Init, Posts
  <2>2. sndbuf \in 0..Space /\ inputs \in 0..MaxInput
    BY ConnectionAssumption, SMT DEF Init
  <2> QED
    BY <2>1, <2>2 DEF Init, Flags
<1>2. PostsAreHeard /\ NoCallAfterClose /\ Loop /\ Registered /\ InputKept /\ OutputKept
  BY DEF Init, PostsAreHeard, NoCallAfterClose, Loop, Registered, InputKept, OutputKept
<1>3. FramesStayWhole
  BY SMT DEF Init, FramesStayWhole
<1>4. Closing /\ Due
  BY SMT DEF Init, Closing, NoClose, Due
<1> QED
  BY <1>1, <1>2, <1>3, <1>4 DEF IInv

-----------------------------------------------------------------------------
(* Types *)

LEMMA BuffersStep ==
  ASSUME Buffers, Flags, Next
  PROVE  Buffers'
<1>1. CASE UNCHANGED <<wbuf, wire, order, owed>>
  BY <1>1 DEF Buffers
<1>2. ASSUME NEW t \in Threads, AppendFrame(t)
      PROVE  Buffers'
  <2>1. tframe[t] \in Frames
    BY <1>2 DEF AppendFrame, Flags
  <2> QED
    BY <1>2, <2>1, SMT DEF Buffers, AppendFrame, Parts
<1>3. ASSUME NEW t \in Threads, PostPush(t)
      PROVE  Buffers'
  BY <1>3, SMT DEF Buffers, PostPush
<1>4. CASE Flush
  <2>1. PICK n \in 1..Len(wbuf) : SendSome(n, n)
    BY <1>4 DEF Flush
  <2>2. SubSeq(wbuf, 1, n) \in Seq(Parts) /\ SubSeq(wbuf, n + 1, Len(wbuf)) \in Seq(Parts)
    BY SMT DEF Buffers
  <2> QED
    BY <2>1, <2>2, SMT DEF Buffers, SendSome
<1> QED
  BY <1>1, <1>2, <1>3, <1>4
  DEF Next, IoStep, ThreadStep, PeerSends, PeerReads, SendFrame, Close, PostWake, PostEnd, Wait,
      Woken, Swap, SwapAs, PostedFlush, RunFlush, PostedScheduleClose, DeliverClose, Dispatch,
      Again, AgainWith, Read, ReadEnds, FlushFails, Arm, Disarm, DisarmAs

LEMMA QueuesStep ==
  ASSUME Queues, Flags, Next
  PROVE  Queues'
<1> USE DEF Queues
<1>0. {"flush", "schedule_close", "deliver_close"} \subseteq Posts /\ {"frame", "bad"} \subseteq Input
  BY DEF Posts, Input
<1>1. CASE UNCHANGED <<pending, batch, rcvbuf>>
  BY <1>1
<1>2. CASE PeerSends
  <2>1. rcvbuf' \in Seq(Input)
    <3>1. CASE \E x \in Input : rcvbuf' = Append(rcvbuf, x)
      BY <3>1, SMT
    <3>2. CASE rcvbuf' = rcvbuf
      BY <3>2
    <3>3. CASE rcvbuf' = << >>
      BY <3>3, SMT
    <3> QED
      BY <1>2, <3>1, <3>2, <3>3 DEF PeerSends
  <2> QED
    BY <1>2, <2>1 DEF PeerSends, ioVars
<1>3. ASSUME NEW t \in Threads, PostPush(t)
      PROVE  Queues'
  BY <1>3, SMT DEF PostPush, Flags, ioVars, kernelVars
<1>4. CASE Swap
  BY <1>4, SMT DEF Swap, SwapAs, kernelVars
<1>5. CASE PostedFlush \/ DeliverClose
  <2>1. pending' = pending /\ batch # << >> /\ batch' = Tail(batch) /\ rcvbuf' = rcvbuf
    BY <1>5 DEF PostedFlush, RunFlush, DeliverClose, kernelVars
  <2> QED
    BY <2>1, SMT
<1>6. CASE PostedScheduleClose
  BY <1>0, <1>6, SMT DEF PostedScheduleClose, ScheduleClose, kernelVars
<1>7. CASE Read
  <2>1. rcvbuf' \in Seq(Input) /\ batch' = batch
    BY <1>7, SMT DEF Read
  <2>2. pending' = pending \/ pending' = Append(pending, "deliver_close")
    BY <1>7 DEF Read, ScheduleClose
  <2>3. "deliver_close" \in Posts
    BY DEF Posts
  <2>4. Append(pending, "deliver_close") \in Seq(Posts)
    BY <2>3, SMT
  <2> QED
    BY <2>1, <2>2, <2>4, Zenon
<1>8. CASE ReadEnds
  BY <1>0, <1>8, SMT DEF ReadEnds, ScheduleClose, kernelVars
<1>9. CASE FlushFails
  <2>1. pending' = pending \/ pending' = Append(pending, "schedule_close")
    BY <1>9 DEF FlushFails
  <2>2. "schedule_close" \in Posts
    BY DEF Posts
  <2>3. Append(pending, "schedule_close") \in Seq(Posts)
    BY <2>2, SMT
  <2>4. batch' = batch /\ rcvbuf' = rcvbuf
    BY <1>9 DEF FlushFails
  <2> QED
    BY <2>1, <2>3, <2>4, Zenon
<1> QED
  BY <1>1, <1>2, <1>3, <1>4, <1>5, <1>6, <1>7, <1>8, <1>9
  DEF Next, IoStep, ThreadStep, PeerReads, SendFrame, AppendFrame, Close, PostWake, PostEnd, Wait,
      Woken, Dispatch, Again, AgainWith, Flush, SendSome, Arm, Disarm, DisarmAs, ioVars, kernelVars

LEMMA FlagsStep ==
  ASSUME Flags, Next
  PROVE  Flags'
<1> USE DEF Flags
<1>1. CASE PeerSends
  <2>1. inputs' \in 0..MaxInput /\ listed' \in BOOLEAN /\ peer' \in {"open", "eof", "reset"}
    BY ConnectionAssumption, <1>1, SMT DEF PeerSends
  <2> QED
    BY <1>1, <2>1, SMT DEF PeerSends, ioVars, threadVars
<1>2. CASE PeerReads
  <2>1. sndbuf' \in 0..Space /\ listed' \in BOOLEAN
    BY ConnectionAssumption, <1>2, SMT DEF PeerReads
  <2> QED
    BY <1>2, <2>1, ZenonT(30) DEF PeerReads, ioVars, threadVars
<1>3. ASSUME NEW t \in Threads, NEW f \in Frames, SendFrame(t, f)
      PROVE  Flags'
  BY <1>3, SMT DEF SendFrame, ioVars, kernelVars
<1>4. ASSUME NEW t \in Threads, AppendFrame(t)
      PROVE  Flags'
  BY <1>4, SMT DEF AppendFrame, ioVars, kernelVars, Posts
<1>5. ASSUME NEW t \in Threads, Close(t)
      PROVE  Flags'
  BY <1>5, SMT DEF Close, ioVars, kernelVars, Posts
<1>6. ASSUME NEW t \in Threads, PostPush(t)
      PROVE  Flags'
  BY <1>6, SMT DEF PostPush, ioVars, kernelVars
<1>7. ASSUME NEW t \in Threads, PostWake(t)
      PROVE  Flags'
  BY <1>7, SMT DEF PostWake, PostEnd, ioVars, kernelVars
<1>8. CASE Wait
  BY <1>8, ZenonT(30) DEF Wait, Reported, Ready, threadVars
<1>9. CASE Woken
  BY <1>9, ZenonT(30) DEF Woken, threadVars, kernelVars
<1>21. CASE Swap
  BY <1>21, SMT DEF Swap, SwapAs, threadVars, kernelVars
<1>20. CASE PostedFlush
  BY <1>20, SMT DEF PostedFlush, RunFlush, threadVars, kernelVars
<1>10. CASE PostedScheduleClose
  BY <1>10, SMT DEF PostedScheduleClose, ScheduleClose, threadVars, kernelVars
<1>11. CASE DeliverClose
  BY <1>11 DEF DeliverClose, threadVars
<1>12. CASE Dispatch
  BY <1>12, SMT DEF Dispatch, threadVars, kernelVars
<1>13. CASE Again
  BY <1>13, SMT DEF Again, AgainWith, threadVars, kernelVars
<1>14. CASE Read
  BY <1>14, ZenonT(30) DEF Read, ScheduleClose, AfterRead, threadVars
<1>15. CASE ReadEnds
  BY <1>15, ZenonT(30) DEF ReadEnds, ScheduleClose, AfterRead, threadVars, kernelVars
<1>16. CASE Flush
  <2>1. PICK n \in 1..Len(wbuf) : SendSome(n, n)
    BY <1>16 DEF Flush
  <2> QED
    BY ConnectionAssumption, <2>1, SMT DEF SendSome, ioVars, threadVars
<1>17. CASE FlushFails
  BY <1>17, ZenonT(30) DEF FlushFails, threadVars
<1>18. CASE Arm
  BY <1>18, SMT DEF Arm, Modify, threadVars
<1>19. CASE Disarm
  BY <1>19, ZenonT(30) DEF Disarm, DisarmAs, Modify, threadVars
<1> QED
  BY <1>1, <1>2, <1>3, <1>4, <1>5, <1>6, <1>7, <1>8, <1>9, <1>10, <1>11, <1>12, <1>13, <1>14,
     <1>15, <1>16, <1>17, <1>18, <1>19, <1>20, <1>21 DEF Next, IoStep, ThreadStep
-----------------------------------------------------------------------------
(* Posts, and the closing of the connection *)

\* The eventfd is read before the posts are taken, and written after a push.
LEMMA HeardStep ==
  ASSUME PostsAreHeard, Flags, Next
  PROVE  PostsAreHeard'
<1> USE DEF PostsAreHeard
<1>1. CASE UNCHANGED <<pending, wake, io, tpc>>
  BY <1>1
<1>2. ASSUME NEW t \in Threads, NEW f \in Frames, SendFrame(t, f)
      PROVE  PostsAreHeard'
  BY <1>2 DEF SendFrame, ioVars, Flags
<1>3. ASSUME NEW t \in Threads, AppendFrame(t) \/ Close(t)
      PROVE  PostsAreHeard'
  BY <1>3 DEF AppendFrame, Close, ioVars, Flags
<1>4. ASSUME NEW t \in Threads, PostPush(t)
      PROVE  PostsAreHeard'
  BY <1>4 DEF PostPush, Flags
<1>5. ASSUME NEW t \in Threads, PostWake(t)
      PROVE  PostsAreHeard'
  BY <1>5 DEF PostWake, PostEnd
<1>6. CASE Wait \/ Woken \/ Dispatch \/ Again
  BY <1>6 DEF Wait, Woken, Dispatch, Again, AgainWith, threadVars
<1>7. CASE Swap
  BY <1>7 DEF Swap, SwapAs
<1>8. CASE PostedFlush
  BY <1>8 DEF PostedFlush, RunFlush, threadVars
<1>9. CASE PostedScheduleClose
  BY <1>9 DEF PostedScheduleClose, ScheduleClose, threadVars
<1>10. CASE Read
  BY <1>10 DEF Read, ScheduleClose, threadVars
<1>11. CASE ReadEnds
  BY <1>11 DEF ReadEnds, ScheduleClose, threadVars
<1>12. CASE FlushFails
  BY <1>12, SMT DEF FlushFails, threadVars
<1>13. CASE Arm \/ Disarm
  BY <1>13 DEF Arm, Disarm, DisarmAs, threadVars
<1> QED
  BY <1>1, <1>2, <1>3, <1>4, <1>5, <1>6, <1>7, <1>8, <1>9, <1>10, <1>11, <1>12, <1>13
  DEF Next, IoStep, ThreadStep, PeerSends, PeerReads, DeliverClose, Flush, SendSome, ioVars,
      threadVars

\* The loop comes to a closure or an event of the socket only when it is open.
LEMMA OpenStep ==
  ASSUME NoCallAfterClose, Next
  PROVE  NoCallAfterClose'
<1> USE DEF NoCallAfterClose
<1>1. CASE UNCHANGED <<io, closed>>
  BY <1>1
<1>2. CASE Wait \/ Woken \/ Again \/ Swap
  BY <1>2 DEF Wait, Woken, Again, AgainWith, Swap, SwapAs
<1>3. CASE PostedFlush
  BY <1>3 DEF PostedFlush, RunFlush
<1>4. CASE DeliverClose
  BY <1>4 DEF DeliverClose
<1>5. CASE Dispatch
  BY <1>5 DEF Dispatch
<1>6. CASE Read \/ ReadEnds
  BY <1>6 DEF Read, ReadEnds, AfterRead
<1>7. CASE FlushFails \/ Arm \/ Disarm
  BY <1>7 DEF FlushFails, Arm, Disarm, DisarmAs
<1> QED
  BY <1>1, <1>2, <1>3, <1>4, <1>5, <1>6, <1>7
  DEF Next, IoStep, ThreadStep, PeerSends, PeerReads, SendFrame, AppendFrame, Close, PostPush,
      PostWake, PostEnd, PostedScheduleClose, Flush, SendSome, ioVars

LEMMA LoopStep ==
  ASSUME Loop, Next
  PROVE  Loop'
<1> USE DEF Loop
<1>1. CASE UNCHANGED <<io, batch, events>>
  BY <1>1
<1>2. CASE Wait \/ Woken \/ Again \/ Swap
  BY <1>2 DEF Wait, Woken, Again, AgainWith, Swap, SwapAs
<1>3. CASE PostedFlush \/ PostedScheduleClose \/ DeliverClose
  BY <1>3 DEF PostedFlush, RunFlush, PostedScheduleClose, DeliverClose
<1>4. CASE Dispatch
  BY <1>4 DEF Dispatch
<1>5. CASE Read \/ ReadEnds
  BY <1>5 DEF Read, ReadEnds, AfterRead
<1>6. CASE FlushFails \/ Arm \/ Disarm
  BY <1>6 DEF FlushFails, Arm, Disarm, DisarmAs
<1> QED
  BY <1>1, <1>2, <1>3, <1>4, <1>5, <1>6
  DEF Next, IoStep, ThreadStep, PeerSends, PeerReads, SendFrame, AppendFrame, Close, PostPush,
      PostWake, PostEnd, Flush, SendSome, ioVars

\* What a push at the end does to the three predicates,
LEMMA OnAppend ==
  ASSUME NEW posts \in Seq(Posts), NEW x \in Posts
  PROVE  /\ x # "deliver_close" /\ NoClose(posts) => NoClose(Append(posts, x))
         /\ WillFlush(posts) => WillFlush(Append(posts, x))
         /\ x \in {"flush", "schedule_close"} => WillFlush(Append(posts, x))
         /\ FlushFirst(posts) => FlushFirst(Append(posts, x))
         /\ x = "flush" /\ NoClose(posts) => FlushFirst(Append(posts, x))
<1> DEFINE more == Append(posts, x)
<1>1. /\ Len(more) = Len(posts) + 1
      /\ \A i \in 1..Len(posts) : more[i] = posts[i]
      /\ more[Len(posts) + 1] = x
  BY SMT
<1>2. Len(posts) \in Nat
  BY SMT
<1> HIDE DEF more
<1>3. x # "deliver_close" /\ NoClose(posts) => NoClose(more)
  BY <1>1, <1>2, SMT DEF NoClose
<1>4. WillFlush(posts) => WillFlush(more)
  BY <1>1, <1>2, SMT DEF WillFlush
<1>5. x \in {"flush", "schedule_close"} => WillFlush(more)
  BY <1>1, <1>2, SMT DEF WillFlush
<1>6. FlushFirst(posts) => FlushFirst(more)
  BY <1>1, <1>2, SMT DEF FlushFirst
<1>7. x = "flush" /\ NoClose(posts) => FlushFirst(more)
  BY <1>1, <1>2, SMT DEF FlushFirst, NoClose
<1> QED
  BY <1>3, <1>4, <1>5, <1>6, <1>7 DEF more

\* and what is left of them when the first closure is taken.
LEMMA OnTail ==
  ASSUME NEW posts \in Seq(Posts), posts # << >>
  PROVE  /\ NoClose(posts) => Head(posts) # "deliver_close" /\ NoClose(Tail(posts))
         /\ WillFlush(posts) => Head(posts) \in {"flush", "schedule_close"} \/ WillFlush(Tail(posts))
         /\ FlushFirst(posts) => \/ Head(posts) = "flush"
                                 \/ Head(posts) # "deliver_close" /\ FlushFirst(Tail(posts))
<1> DEFINE rest == Tail(posts)
<1>1. /\ Len(posts) \in Nat \ {0}
      /\ Len(rest) = Len(posts) - 1
      /\ \A i \in 1..(Len(posts) - 1) : rest[i] = posts[i + 1]
      /\ Head(posts) = posts[1]
  BY SMT
<1> HIDE DEF rest
<1>2. NoClose(posts) => Head(posts) # "deliver_close" /\ NoClose(rest)
  BY <1>1, SMT DEF NoClose
<1>3. WillFlush(posts) => Head(posts) \in {"flush", "schedule_close"} \/ WillFlush(rest)
  <2> SUFFICES ASSUME NEW i \in 1..Len(posts), posts[i] \in {"flush", "schedule_close"}, i # 1
               PROVE  WillFlush(rest)
    BY <1>1 DEF WillFlush
  <2>1. i - 1 \in 1..Len(rest) /\ rest[i - 1] = posts[i]
    BY <1>1, SMT
  <2> QED
    BY <2>1 DEF WillFlush
<1>4. FlushFirst(posts) => \/ Head(posts) = "flush"
                           \/ Head(posts) # "deliver_close" /\ FlushFirst(rest)
  <2> SUFFICES ASSUME NEW i \in 1..Len(posts), posts[i] = "flush", i # 1,
                      \A j \in 1..Len(posts) : j < i => posts[j] # "deliver_close"
               PROVE  Head(posts) # "deliver_close" /\ FlushFirst(rest)
    BY <1>1 DEF FlushFirst
  <2>1. posts[1] # "deliver_close"
    BY <1>1, SMT
  <2>2. i - 1 \in 1..Len(rest) /\ rest[i - 1] = "flush"
    BY <1>1, SMT
  <2>3. \A j \in 1..Len(rest) : j < i - 1 => rest[j] # "deliver_close"
    BY <1>1, SMT
  <2> QED
    BY <1>1, <2>1, <2>2, <2>3 DEF FlushFirst
<1> QED
  BY <1>2, <1>3, <1>4 DEF rest

\* Only schedule_close posts a deliver_close, and it sets closing_ first.
LEMMA ClosingStep ==
  ASSUME Closing, Queues, Flags, Next
  PROVE  Closing'
<1> SUFFICES ASSUME ~closing'
             PROVE  /\ ~closed' /\ NoClose(pending)' /\ NoClose(batch)'
                    /\ (\A t \in Threads : tpc[t] = "post" => tpost[t] # "deliver_close")'
  BY DEF Closing
<1> DEFINE Goal == /\ ~closed' /\ NoClose(pending') /\ NoClose(batch')
                   /\ \A t \in Threads : tpc'[t] = "post" => tpost'[t] # "deliver_close"
<1>0. {"flush", "schedule_close", "deliver_close"} \subseteq Posts
  BY DEF Posts
<1>1. CASE UNCHANGED <<closing, closed, pending, batch, tpc, tpost>>
  BY <1>1 DEF Closing
<1>2. ASSUME NEW t \in Threads, NEW f \in Frames, SendFrame(t, f)
      PROVE  Goal
  BY <1>2 DEF SendFrame, ioVars, Flags, Closing
<1>3. ASSUME NEW t \in Threads, AppendFrame(t)
      PROVE  Goal
  BY <1>3 DEF AppendFrame, ioVars, Flags, Closing
<1>4. ASSUME NEW t \in Threads, Close(t)
      PROVE  Goal
  BY <1>4 DEF Close
<1>5. ASSUME NEW t \in Threads, PostPush(t)
      PROVE  Goal
  <2>1. tpost[t] \in Posts /\ tpost[t] # "deliver_close" /\ NoClose(pending)
    BY <1>5 DEF PostPush, Flags, Closing
  <2>2. NoClose(pending')
    BY <1>5, <2>1, OnAppend DEF PostPush, Queues
  <2> QED
    BY <1>5, <2>2 DEF PostPush, ioVars, Flags, Closing
<1>6. ASSUME NEW t \in Threads, PostWake(t)
      PROVE  Goal
  BY <1>6 DEF PostWake, PostEnd, ioVars, Flags, Closing
<1>7. CASE Swap
  BY <1>7, SMT DEF Swap, SwapAs, threadVars, Closing, NoClose
<1>8. CASE PostedFlush
  BY <1>8, OnTail DEF PostedFlush, RunFlush, threadVars, Closing, Queues
<1>9. CASE DeliverClose
  BY <1>9, OnTail DEF DeliverClose, Closing, Queues
<1>10. CASE PostedScheduleClose
  BY <1>10 DEF PostedScheduleClose, ScheduleClose
<1>11. CASE Read
  BY <1>11 DEF Read, ScheduleClose, threadVars, Closing
<1>12. CASE ReadEnds
  BY <1>12 DEF ReadEnds, ScheduleClose, threadVars, Closing
<1>13. CASE FlushFails
  <2>1. NoClose(pending)
    BY <1>13 DEF FlushFails, Closing
  <2>2. NoClose(pending')
    BY <1>0, <1>13, <2>1, OnAppend DEF FlushFails, Queues
  <2> QED
    BY <1>13, <2>2 DEF FlushFails, threadVars, Closing
<1> QED
  BY <1>1, <1>2, <1>3, <1>4, <1>5, <1>6, <1>7, <1>8, <1>9, <1>10, <1>11, <1>12, <1>13
  DEF Next, IoStep, ThreadStep, PeerSends, PeerReads, Wait, Woken, Dispatch, Again, AgainWith,
      Flush, SendSome, Arm, Disarm, DisarmAs, ioVars, threadVars

LEMMA Posted == ASSUME Flags, NEW t \in Threads PROVE tpost[t] \in Posts
<1>1. tpost \in [Threads -> Posts]
  BY Zenon DEF Flags
<1> QED
  BY <1>1

\* modify and write_armed_ change together.
LEMMA RegisteredStep ==
  ASSUME Registered, Flags, Next
  PROVE  Registered'
<1> USE DEF Registered
<1>1. CASE UNCHANGED <<closed, interest, armed>>
  BY <1>1
<1>2. CASE DeliverClose
  BY <1>2 DEF DeliverClose
<1>3. CASE Arm
  BY <1>3 DEF Arm, Modify
<1>4. CASE Disarm
  BY <1>4 DEF Disarm, DisarmAs, Modify
<1> QED
  BY <1>1, <1>2, <1>3, <1>4
  DEF Next, IoStep, ThreadStep, PeerSends, PeerReads, SendFrame, AppendFrame, Close, PostPush,
      PostWake, PostEnd, Wait, Woken, Swap, SwapAs, PostedFlush, RunFlush, PostedScheduleClose,
      Dispatch, Again, AgainWith, Read, ReadEnds, Flush, SendSome, FlushFails, ioVars, kernelVars
-----------------------------------------------------------------------------
(* Input and output *)

\* An edge of the input goes from the kernel to the loop and on to on_readable,
\* which reads until nothing is left.
LEMMA InputStep ==
  ASSUME InputKept, Loop, Closing, Closing', Registered, Flags, Next
  PROVE  InputKept'
<1> SUFFICES ASSUME ~closing', edgeTriggered', (rcvbuf # << >> \/ peer # "open")'
             PROVE  (listed \/ io = "read" \/ ("socket" \in events /\ "read" \in mask))'
  BY DEF InputKept
<1> USE DEF InputKept
<1>1. CASE UNCHANGED <<edgeTriggered, closing, rcvbuf, peer, listed, io, events, mask>>
  BY <1>1
<1>2. CASE PeerSends
  <2>1. interest # {}
    BY <1>2 DEF PeerSends, Registered
  <2> QED
    BY <1>2, <2>1 DEF PeerSends
<1>3. CASE PeerReads
  BY <1>3 DEF PeerReads, ioVars
<1>4. ASSUME NEW t \in Threads, Close(t)
      PROVE  FALSE
  BY <1>4 DEF Close
<1>5. CASE Wait
  <2>1. listed
    BY <1>5 DEF Wait, Loop
  <2>2. "read" \in interest
    BY <1>5 DEF Wait, Closing, Registered
  <2>3. "read" \in Reported
    BY <1>5, <2>1, <2>2 DEF Wait, Reported, Ready
  <2> QED
    BY <1>5, <2>3 DEF Wait
<1>6. CASE Woken \/ Again
  BY <1>6 DEF Woken, Again, AgainWith, kernelVars
<1>7. CASE Swap
  BY <1>7 DEF Swap, SwapAs, kernelVars
<1>8. CASE PostedFlush
  BY <1>8 DEF PostedFlush, RunFlush, kernelVars
<1>9. CASE PostedScheduleClose
  BY <1>9 DEF PostedScheduleClose, ScheduleClose
<1>10. CASE DeliverClose
  BY <1>10 DEF DeliverClose, Closing
<1>11. CASE Dispatch
  BY <1>11 DEF Dispatch, Closing, kernelVars
<1>12. CASE Read
  BY <1>12 DEF Read, ScheduleClose
<1>13. CASE ReadEnds
  BY <1>13 DEF ReadEnds, ScheduleClose, kernelVars
<1>14. CASE FlushFails
  BY <1>14 DEF FlushFails
<1>15. CASE Arm \/ Disarm
  BY <1>15 DEF Arm, Disarm, DisarmAs, Modify
<1> QED
  BY <1>1, <1>2, <1>3, <1>4, <1>5, <1>6, <1>7, <1>8, <1>9, <1>10, <1>11, <1>12, <1>13, <1>14,
     <1>15
  DEF Next, IoStep, ThreadStep, SendFrame, AppendFrame, PostPush, PostWake, PostEnd, Flush,
      SendSome, ioVars, kernelVars

\* Bytes in the buffer go from the thread that appended them, with its flush, to
\* try_flush_locked, and from there to the edge that it has asked for.
LEMMA OutputStep ==
  ASSUME OutputKept, Loop, Closing, Closing', Registered, Queues, Flags, Next
  PROVE  OutputKept'
<1> SUFFICES ASSUME ~closing', wbuf' # << >>
             PROVE  OutputKept'
  BY DEF OutputKept
<1>0. {"flush", "schedule_close", "deliver_close"} \subseteq Posts
  BY DEF Posts
<1>1. CASE UNCHANGED <<closing, wbuf, tpc, tpost, pending, batch, io, mask, events, armed,
                       edgeTriggered, nospace, listed, sndbuf, peer>>
  BY <1>1 DEF OutputKept, Watched
<1>2. CASE PeerSends
  BY <1>2 DEF PeerSends, OutputKept, Watched, ioVars, threadVars
<1>3. CASE PeerReads
  <2>1. armed => "write" \in interest
    BY <1>3 DEF PeerReads, Closing, Registered
  <2>2. sndbuf' < Space
    BY <1>3, ConnectionAssumption, SMT DEF PeerReads, Flags
  <2> QED
    BY <1>3, <2>1, <2>2 DEF PeerReads, OutputKept, Watched, ioVars, threadVars
<1>4. ASSUME NEW t \in Threads, NEW f \in Frames, SendFrame(t, f)
      PROVE  OutputKept'
  BY <1>4 DEF SendFrame, OutputKept, Watched, Flags, ioVars, kernelVars
<1>5. ASSUME NEW t \in Threads, AppendFrame(t)
      PROVE  OutputKept'
  BY <1>5 DEF AppendFrame, OutputKept, Flags
<1>6. ASSUME NEW t \in Threads, Close(t)
      PROVE  FALSE
  BY <1>6 DEF Close
<1>7. ASSUME NEW t \in Threads, PostPush(t)
      PROVE  OutputKept'
  <2>1. tpost[t] \in Posts
    BY Posted, Zenon
  <2>2. WillFlush(pending) \/ tpost[t] = "flush" => WillFlush(pending')
    BY <1>7, <2>1, OnAppend DEF PostPush, Queues
  <2> QED
    BY <1>7, <2>2 DEF PostPush, OutputKept, Watched, Flags, ioVars, kernelVars
<1>8. ASSUME NEW t \in Threads, PostWake(t)
      PROVE  OutputKept'
  BY <1>8 DEF PostWake, PostEnd, OutputKept, Watched, Flags, ioVars, kernelVars
<1>9. CASE Wait
  <2>1. armed => "write" \in interest
    BY <1>9 DEF Wait, Closing, Registered
  <2>2. armed /\ Watched => Watched'
    <3>1. CASE listed /\ (sndbuf < Space \/ peer = "reset") /\ armed
      BY <1>9, <2>1, <3>1 DEF Wait, Watched, Reported, Ready
    <3> QED
      BY <1>9, <3>1 DEF Wait, Watched, Loop
  <2>3. ~WillFlush(batch)
    BY <1>9, SMT DEF Wait, Loop, WillFlush
  <2> QED
    BY <1>9, <2>2, <2>3 DEF Wait, OutputKept, threadVars
<1>10. CASE Woken \/ Again
  BY <1>10 DEF Woken, Again, AgainWith, OutputKept, Watched, threadVars, kernelVars
<1>11. CASE Swap
  <2>1. ~WillFlush(batch)
    BY <1>11, SMT DEF Swap, SwapAs, Loop, WillFlush
  <2> QED
    BY <1>11, <2>1 DEF Swap, SwapAs, OutputKept, Watched, threadVars, kernelVars
<1>12. CASE PostedFlush
  BY <1>12 DEF PostedFlush, RunFlush, OutputKept, Closing
<1>13. CASE PostedScheduleClose
  BY <1>13 DEF PostedScheduleClose, ScheduleClose
<1>14. CASE DeliverClose
  BY <1>14 DEF DeliverClose, Closing
<1>15. CASE Dispatch
  BY <1>15 DEF Dispatch, OutputKept, Watched, Closing, threadVars, kernelVars
<1>16. CASE Read
  BY <1>16 DEF Read, ScheduleClose, OutputKept, Watched, threadVars
<1>17. CASE ReadEnds
  BY <1>17 DEF ReadEnds, ScheduleClose, AfterRead, OutputKept, Watched, threadVars, kernelVars
<1>18. CASE Flush
  BY <1>18 DEF Flush, SendSome, OutputKept, ioVars
<1>19. CASE FlushFails
  <2>1. CASE peer = "reset"
    <3>1. WillFlush(pending')
      BY <1>0, <1>19, <2>1, OnAppend DEF FlushFails, Queues
    <3> QED
      BY <3>1 DEF OutputKept
  <2>2. CASE peer # "reset"
    BY <1>19, <2>2 DEF FlushFails, OutputKept, Watched
  <2> QED
    BY <2>1, <2>2
<1>20. CASE Arm
  <2>1. nospace \/ sndbuf < Space => Watched'
    BY <1>20 DEF Arm, Modify, Ready, Watched
  <2> QED
    BY <1>20, <2>1 DEF Arm, OutputKept, Watched, Modify, threadVars
<1>21. CASE Disarm
  BY <1>21 DEF Disarm, DisarmAs
<1> QED
  BY <1>1, <1>2, <1>3, <1>4, <1>5, <1>6, <1>7, <1>8, <1>9, <1>10, <1>11, <1>12, <1>13, <1>14,
     <1>15, <1>16, <1>17, <1>18, <1>19, <1>20, <1>21 DEF Next, IoStep, ThreadStep
-----------------------------------------------------------------------------
(* Frames, and the flush before the close *)

\* Facts about sequences in a row.
LEMMA Associative ==
  ASSUME NEW a \in Seq(Parts), NEW b \in Seq(Parts), NEW c \in Seq(Parts)
  PROVE  (a \o b) \o c = a \o (b \o c)
BY SMT

LEMMA InARow ==
  ASSUME NEW S, NEW a \in Seq(S), NEW b \in Seq(S)
  PROVE  /\ Len(a) \in Nat /\ Len(b) \in Nat
         /\ Len(a \o b) = Len(a) + Len(b)
         /\ \A i \in 1..Len(a) : (a \o b)[i] = a[i]
         /\ \A i \in 1..Len(b) : (a \o b)[Len(a) + i] = b[i]
BY SMT

\* Frames are appended whole, and send takes from the front what wbuf_ loses.
LEMMA FramesStep ==
  ASSUME FramesStayWhole, Buffers, Flags, Next
  PROVE  FramesStayWhole'
<1> DEFINE s == wire \o wbuf
           Whole(seq, frames) ==
             /\ Len(seq) = 2 * Len(frames)
             /\ \A i \in 1..Len(frames) : seq[2*i - 1] = <<frames[i], "length">>
                                         /\ seq[2*i] = <<frames[i], "payload">>
<1>0. Whole(s, order) /\ (Whole(s', order') => FramesStayWhole')
  BY DEF FramesStayWhole
<1>1. CASE UNCHANGED <<wbuf, wire, order>>
  BY <1>1 DEF FramesStayWhole
<1>2. ASSUME NEW t \in Threads, AppendFrame(t)
      PROVE  FramesStayWhole'
  <2> DEFINE f == tframe[t]
             new == << <<f, "length">>, <<f, "payload">> >>
             n == Len(order)
  <2>1. f \in Frames
    BY <1>2 DEF AppendFrame, Flags
  <2>2. new \in Seq(Parts) /\ Len(new) = 2 /\ new[1] = <<f, "length">> /\ new[2] = <<f, "payload">>
    BY <2>1, SMT DEF Parts
  <2>3. wire' = wire /\ wbuf' = wbuf \o new /\ order' = Append(order, f)
    BY <1>2 DEF AppendFrame
  <2>4. s' = s \o new
    <3>1. s' = wire \o (wbuf \o new)
      BY <2>3
    <3>2. (wire \o wbuf) \o new = wire \o (wbuf \o new)
      <4>1. wire \in Seq(Parts) /\ wbuf \in Seq(Parts) /\ new \in Seq(Parts)
        BY <2>2 DEF Buffers
      <4> HIDE DEF new, s
      <4> QED
        BY <4>1, Associative
    <3> QED
      BY <3>1, <3>2
  <2>5. /\ n \in Nat
        /\ Len(order') = n + 1
        /\ \A i \in 1..n : order'[i] = order[i]
        /\ order'[n + 1] = f
    BY <2>1, <2>3, SMT DEF Buffers
  <2>6. s \in Seq(Parts) /\ Len(s) = 2 * n
    BY <1>0, SMT DEF Buffers
  <2>7. /\ Len(s') = 2 * n + 2
        /\ \A i \in 1..(2 * n) : s'[i] = s[i]
        /\ s'[2 * n + 1] = <<f, "length">>
        /\ s'[2 * n + 2] = <<f, "payload">>
    <3> HIDE DEF s, new, n, f
    <3>0. s \in Seq(Parts) /\ new \in Seq(Parts)
      BY <2>2, <2>6
    <3>1. /\ Len(s \o new) = Len(s) + Len(new)
          /\ \A i \in 1..Len(s) : (s \o new)[i] = s[i]
          /\ \A i \in 1..Len(new) : (s \o new)[Len(s) + i] = new[i]
      BY <3>0, InARow, SMT
    <3>2. 1 \in 1..Len(new) /\ 2 \in 1..Len(new)
      BY <2>2, SMT
    <3>3. (s \o new)[Len(s) + 1] = new[1] /\ (s \o new)[Len(s) + 2] = new[2]
      BY <3>1, <3>2, Zenon
    <3> QED
      BY <2>2, <2>4, <2>6, <3>1, <3>3
  <2> HIDE DEF s, new, n, f
  <2>8. ASSUME NEW i \in 1..(n + 1)
        PROVE  s'[2*i - 1] = <<order'[i], "length">> /\ s'[2*i] = <<order'[i], "payload">>
    <3>1. CASE i = n + 1
      BY <2>5, <2>7, <3>1, SMT
    <3>2. CASE i # n + 1
      <4>1. i \in 1..n /\ 2*i - 1 \in 1..(2 * n) /\ 2*i \in 1..(2 * n)
        BY <2>5, <3>2, SMT
      <4>2. s'[2*i - 1] = s[2*i - 1] /\ s'[2*i] = s[2*i] /\ order'[i] = order[i]
        BY <2>5, <2>7, <4>1
      <4> QED
        BY <1>0, <4>1, <4>2 DEF n
    <3> QED
      BY <3>1, <3>2
  <2>9. Len(s') = 2 * Len(order')
    BY <2>5, <2>7, SMT
  <2> QED
    BY <1>0, <2>5, <2>8, <2>9
<1>3. CASE Flush
  <2>1. PICK n \in 1..Len(wbuf) : SendSome(n, n)
    BY <1>3 DEF Flush
  <2> DEFINE sent == SubSeq(wbuf, 1, n)
             kept == SubSeq(wbuf, n + 1, Len(wbuf))
  <2>2. wire' = wire \o sent /\ wbuf' = kept /\ order' = order
    BY <2>1 DEF SendSome
  <2>3. wbuf = sent \o kept
    BY SMT DEF Buffers
  <2>4. sent \in Seq(Parts) /\ kept \in Seq(Parts)
    BY SMT DEF Buffers
  <2>5. (wire \o sent) \o kept = wire \o (sent \o kept)
    <3>1. wire \in Seq(Parts)
      BY DEF Buffers
    <3> HIDE DEF sent, kept, s
    <3> QED
      BY <2>4, <3>1, Associative
  <2> QED
    BY <1>0, <2>2, <2>3, <2>5
<1> QED
  BY <1>1, <1>2, <1>3
  DEF Next, IoStep, ThreadStep, PeerSends, PeerReads, SendFrame, Close, PostPush, PostWake, PostEnd,
      Wait, Woken, Swap, SwapAs, PostedFlush, RunFlush, PostedScheduleClose, DeliverClose, Dispatch,
      Again, AgainWith, Read, ReadEnds, FlushFails, Arm, Disarm, DisarmAs

\* A flush is posted for what is owed, and runs before any later deliver_close.
LEMMA DueStep ==
  ASSUME Due, FramesStayWhole, Loop, Buffers, Queues, Flags, NoCallAfterClose, Next
  PROVE  Due'
<1> SUFFICES ASSUME ~closed'
             PROVE  Due'
  BY DEF Due
<1>0. {"flush", "schedule_close", "deliver_close"} \subseteq Posts
  BY DEF Posts
<1>1. CASE UNCHANGED <<closed, owed, wire, armed, peer, io, batch, pending>>
  BY <1>1 DEF Due
<1>2. CASE PeerSends
  BY <1>2 DEF PeerSends, Due, ioVars
<1>3. ASSUME NEW t \in Threads, PostPush(t)
      PROVE  Due'
  <2>1. tpost[t] \in Posts
    BY Posted, Zenon
  <2>2. CASE owed' = owed
    <3>1. FlushFirst(pending) => FlushFirst(pending')
      BY <1>3, <2>1, OnAppend DEF PostPush, Queues
    <3> QED
      <4>1. UNCHANGED <<closed, wire, armed, peer, io, batch>>
        BY <1>3 DEF PostPush, ioVars, kernelVars
      <4> QED
        BY <2>2, <3>1, <4>1 DEF Due
  <2>3. CASE owed' # owed
    <3>1. tpost[t] = "flush" /\ ~ClosePosted
      BY <1>3, <2>3 DEF PostPush
    <3>2. NoClose(pending) /\ NoClose(batch)
      <4> DEFINE all == pending \o batch
      <4>1. \A i \in 1..Len(all) : all[i] # "deliver_close"
        BY <3>1 DEF ClosePosted
      <4>2. /\ Len(pending) \in Nat /\ Len(batch) \in Nat
            /\ Len(all) = Len(pending) + Len(batch)
            /\ \A i \in 1..Len(pending) : all[i] = pending[i]
            /\ \A i \in 1..Len(batch) : all[Len(pending) + i] = batch[i]
        BY InARow, SMT DEF Queues
      <4> HIDE DEF all
      <4>3. \A i \in 1..Len(pending) : i \in 1..Len(all)
        BY <4>2, SMT
      <4>4. \A i \in 1..Len(batch) : Len(pending) + i \in 1..Len(all)
        BY <4>2, SMT
      <4> QED
        BY <4>1, <4>2, <4>3, <4>4, Zenon DEF NoClose
    <3>3. FlushFirst(pending')
      BY <1>3, <2>1, <3>1, <3>2, OnAppend DEF PostPush, Queues
    <3> QED
      BY <1>3, <3>2, <3>3 DEF PostPush, Due, ioVars
  <2> QED
    BY <2>2, <2>3
<1>4. CASE Wait
  BY <1>4 DEF Wait, Due
<1>5. CASE Woken
  BY <1>5 DEF Woken, Due, kernelVars
<1>6. CASE Again
  BY <1>6 DEF Again, AgainWith, Due, kernelVars
<1>7. CASE Dispatch
  BY <1>7 DEF Dispatch, Due, kernelVars
<1>8. CASE Swap
  <2>1. ~FlushFirst(batch)
    BY <1>8, SMT DEF Swap, SwapAs, Loop, FlushFirst
  <2> QED
    BY <1>8, <2>1 DEF Swap, SwapAs, Due, kernelVars
<1>9. CASE PostedFlush
  BY <1>9 DEF PostedFlush, RunFlush, Due
<1>10. CASE PostedScheduleClose
  <2>1. /\ FlushFirst(batch) => FlushFirst(batch')
        /\ NoClose(batch) => NoClose(batch')
    BY <1>10, OnTail DEF PostedScheduleClose, Queues
  <2>2. FlushFirst(pending) => FlushFirst(pending')
    BY <1>0, <1>10, OnAppend DEF PostedScheduleClose, ScheduleClose, Queues
  <2> QED
    BY <1>10, <2>1, <2>2 DEF PostedScheduleClose, Due, kernelVars
<1>11. CASE DeliverClose
  BY <1>11 DEF DeliverClose
<1>12. CASE Read
  <2>1. FlushFirst(pending) => FlushFirst(pending')
    BY <1>0, <1>12, OnAppend DEF Read, ScheduleClose, Queues
  <2> QED
    BY <1>12, <2>1 DEF Read, Due
<1>13. CASE ReadEnds
  <2>1. FlushFirst(pending) => FlushFirst(pending')
    BY <1>0, <1>13, OnAppend DEF ReadEnds, ScheduleClose, Queues
  <2> QED
    BY <1>13, <2>1 DEF ReadEnds, Due, kernelVars
<1>14. CASE Flush
  BY <1>14 DEF Flush, SendSome, Due, ioVars
<1>15. CASE FlushFails
  BY <1>15 DEF FlushFails, Due
<1>16. CASE Arm
  BY <1>16 DEF Arm, Due
<1>17. CASE Disarm
  <2>1. wire \o wbuf = wire
    BY <1>17, SMT DEF Disarm, DisarmAs, Buffers
  <2>2. Len(wire) = 2 * Len(order)
    BY <2>1 DEF FramesStayWhole
  <2>3. 2 * owed <= Len(wire)
    BY <2>2, SMT DEF Buffers
  <2> QED
    BY <1>17, <2>3 DEF Disarm, DisarmAs, Due
<1> QED
  BY <1>1, <1>2, <1>3, <1>4, <1>5, <1>6, <1>7, <1>8, <1>9, <1>10, <1>11, <1>12, <1>13, <1>14,
     <1>15, <1>16, <1>17
  DEF Next, IoStep, ThreadStep, PeerReads, SendFrame, AppendFrame, Close, PostWake, PostEnd,
      ioVars, kernelVars
-----------------------------------------------------------------------------
LEMMA StepIInv == IInv /\ [Next]_vars => IInv'
<1> SUFFICES ASSUME IInv, [Next]_vars
             PROVE  IInv'
  OBVIOUS
<1>1. CASE Next
  <2> USE <1>1 DEF IInv
  <2>1. Buffers' /\ Queues' /\ Flags'
    BY BuffersStep, QueuesStep, FlagsStep
  <2>2. PostsAreHeard' /\ NoCallAfterClose' /\ Loop'
    BY HeardStep, OpenStep, LoopStep
  <2>3. Closing' /\ Registered'
    BY ClosingStep, RegisteredStep
  <2>4. InputKept' /\ OutputKept'
    BY <2>3, InputStep, OutputStep
  <2>5. FramesStayWhole' /\ Due'
    BY FramesStep, DueStep
  <2> QED
    BY <2>1, <2>2, <2>3, <2>4, <2>5
<1>2. CASE UNCHANGED vars
  <2> USE <1>2 DEF vars, ioVars, threadVars, kernelVars
  <2>1. Buffers' /\ Queues'
    BY DEF IInv, Buffers, Queues
  <2>2. Flags'
    BY SMT DEF IInv, Flags
  <2>3. PostsAreHeard' /\ NoCallAfterClose'
    BY DEF IInv, PostsAreHeard, NoCallAfterClose
  <2>8. Loop' /\ Registered'
    BY DEF IInv, Loop, Registered
  <2>7. Closing'
    BY DEF IInv, Closing, NoClose
  <2>4. FramesStayWhole'
    BY DEF IInv, FramesStayWhole
  <2>5. InputKept' /\ OutputKept'
    BY DEF IInv, InputKept, OutputKept, Watched, WillFlush
  <2>6. Due'
    BY DEF IInv, Due, FlushFirst, NoClose
  <2> QED
    BY <2>1, <2>2, <2>3, <2>4, <2>5, <2>6, <2>7, <2>8 DEF IInv
<1> QED
  BY <1>1, <1>2

LEMMA Invariance == Spec => []IInv
BY InitIInv, StepIInv, PTL DEF Spec

\* A closure given to Reactor::post is never left in pending_ by a loop that
\* goes to sleep without a wakeup.
THEOREM WakeupsArrive == Spec => []PostsAreHeard
<1>1. IInv => PostsAreHeard
  BY DEF IInv
<1> QED
  BY <1>1, Invariance, PTL

\* However send splits the buffer and however many threads call send_frame, what
\* the peer gets is whole frames in the order in which they were appended.
THEOREM FramesInOrder == Spec => []FramesStayWhole
<1>1. IInv => FramesStayWhole
  BY DEF IInv
<1> QED
  BY <1>1, Invariance, PTL

\* After deliver_close no closure and no event of the same epoll_wait uses the
\* socket.
THEOREM NoUseAfterClose == Spec => []NoCallAfterClose
<1>1. IInv => NoCallAfterClose
  BY DEF IInv
<1> QED
  BY <1>1, Invariance, PTL

\* With epoll's edges and with select, the loop never waits while there are
\* bytes to send that nobody will send, or input that nobody will read.
THEOREM NothingIsStranded == Spec => []NothingStranded
<1>1. IInv => NothingStranded
  <2> SUFFICES ASSUME IInv, io = "wait", ~closing
               PROVE  NothingStranded
    BY DEF NothingStranded
  <2>1. ~closed /\ events = {} /\ batch = << >>
    BY DEF IInv, Loop, Closing
  <2>2. interest = IF armed THEN {"read", "write"} ELSE {"read"}
    BY <2>1 DEF IInv, Registered
  <2>3. ASSUME wbuf # << >>, pending = << >>, \A t \in Threads : tpc[t] \notin {"post", "wake"}
        PROVE  /\ "write" \in interest
               /\ "write" \in Reported \/ (IF edgeTriggered THEN nospace ELSE sndbuf = Space)
    <3>1. ~WillFlush(pending) /\ ~WillFlush(batch)
      BY <2>1, <2>3, SMT DEF WillFlush
    <3>2. armed /\ Watched
      BY <2>1, <2>3, <3>1 DEF IInv, OutputKept
    <3>3. edgeTriggered \in BOOLEAN /\ Space \in Nat /\ sndbuf \in 0..Space
      BY ConnectionAssumption DEF IInv, Flags
    <3> QED
      BY <2>1, <2>2, <3>2, <3>3, SMT DEF Watched, Reported, Ready
  <2>4. ASSUME rcvbuf # << >> \/ peer # "open"
        PROVE  "read" \in Reported
    <3>1. edgeTriggered => listed
      BY <2>1, <2>4 DEF IInv, InputKept
    <3> QED
      BY <2>2, <2>4, <3>1 DEF Reported, Ready
  <2> QED
    BY <2>3, <2>4 DEF NothingStranded
<1> QED
  BY <1>1, Invariance, PTL

\* A connection is closed only after its owed frames were sent, or after sending
\* them was tried and the peer was slow or gone.
THEOREM GracefulClose == Spec => CloseFlushesFirst
<1> DEFINE Graceful == ~closed /\ closed' => Len(wire) >= 2 * owed \/ armed \/ peer = "reset"
<1>1. IInv /\ [Next]_vars => [Graceful]_vars
  <2> SUFFICES ASSUME IInv, Next, ~closed, closed'
               PROVE  Len(wire) >= 2 * owed \/ armed \/ peer = "reset"
    BY Zenon
  <2>1. DeliverClose
    BY DEF Next, IoStep, ThreadStep, PeerSends, PeerReads, SendFrame, AppendFrame, Close, PostPush,
           PostWake, PostEnd, Wait, Woken, Swap, SwapAs, PostedFlush, RunFlush, PostedScheduleClose,
           Dispatch, Again, AgainWith, Read, ReadEnds, Flush, SendSome, FlushFails, Arm, Disarm,
           DisarmAs
  <2>2. batch \in Seq(Posts) /\ batch # << >> /\ Head(batch) = "deliver_close" /\ io = "next"
    BY <2>1 DEF DeliverClose, IInv, Queues
  <2>3. ~FlushFirst(batch) /\ ~NoClose(batch)
    BY <2>2, OnTail
  <2>4. owed \in Nat /\ Len(wire) \in Nat
    BY SMT DEF IInv, Buffers
  <2> QED
    BY <2>2, <2>3, <2>4 DEF IInv, Due
<1> QED
  BY <1>1, Invariance, PTL DEF Spec, CloseFlushesFirst
=============================================================================
