---------------------------- MODULE ServerProofs ----------------------------
(***************************************************************************)
(* For any number of clients and workers, and wherever the signal finds    *)
(* them: conns_ is exact until somebody calls stop(); the process ends     *)
(* with its queue empty, its workers gone and every close posted; no mutex *)
(* is held by a thread that will not give it back, and a worker that       *)
(* stop() has come to join sleeps only if notify_all() came too early; and *)
(* no client in the listen queue is forgotten.                             *)
(***************************************************************************)
EXTENDS Server, TLAPS

\* Most leaves are first-order: Zenon is the default, SMT is cited by name.
USE Zenon

-----------------------------------------------------------------------------
(* The inductive invariant *)

\* The connection in hand is one where the I/O thread works on it,
InHand ==
  /\ iopc \in {"register", "start", "read", "submit", "hangup", "unregister"} => cur \in Conns
  /\ iopc \notin {"closures", "unregister"} => running = {}

\* and the only one that is between accept() and start().
Accepted ==
  /\ \A c \in Conns : life[c] = "accepted" => cur = c /\ iopc \in {"register", "start"}
  /\ iopc \in {"register", "start"} => life[cur] = "accepted"
  /\ iopc = "unregister" => life[cur] = "closed"

\* Before anybody calls stop(), conns_ is exact, and has the connection that is
\* about to start.
Registered ==
  /\ RegistryIsExact
  /\ (\A s \in Stoppers : spc[s] = "idle") /\ iopc = "start" => cur \in conns

\* A mutex is held by a thread at a place where it needs it.
Holding ==
  /\ \A w \in Workers :
       /\ mutex["conns"] # w
       /\ mutex["pool"] = w => wpc[w] \in {"look", "block"}
       /\ mutex["posts"] = w => wpc[w] = "reply"
  /\ mutex["conns"] = IO => iopc \in {"register", "unregister"}
  /\ mutex["pool"] = IO => iopc = "submit"
  /\ mutex["posts"] = IO => iopc \in {"hangup", "drain"}

\* A worker that stop() comes to join is awake, or missed notify_all(); one that
\* has left found the pool stopped and its queue empty, which both stay.
Joining ==
  /\ \A s \in Stoppers : spc[s] \in {"notify", "join", "done"} => draining
  /\ \A s \in Stoppers, w \in Workers :
       spc[s] = "join" /\ wpc[w] \in {"block", "waiting"} => w \in missed
  /\ \A w \in Workers : wpc[w] = "exited" => draining /\ queue = {}

\* A waiting client is announced: the listener is open while there is one, and
\* epoll_wait() is called with no event left to handle.
Announced ==
  /\ WaitingIsAnnounced
  /\ \A c \in Conns : life[c] = "backlog" => listening
  /\ iopc \in {"loop", "wait", "returned", "destroyed"} => batch = {}

\* ~ChatServer calls stop() when run() has returned, and waits for the workers.
\* The thread a handler runs on is not past its end: it is suspended.
Ending ==
  /\ spc["main"] # "idle" => iopc \in {"returned", "destroyed"}
  /\ iopc = "destroyed" => spc["main"] = "done"
  /\ spc["main"] = "done" => \A w \in Workers : wpc[w] = "exited"
  /\ InHandler =>
       /\ hthread \in Threads
       /\ hthread = IO => iopc \notin {"returned", "destroyed"}
       /\ hthread \in Workers => wpc[hthread] # "exited"

\* The close of c is under way: posted, about to be posted or about to run.
ClosePosted(c) ==
  \/ c \in posts \cup running
  \/ iopc = "hangup" /\ cur = c
  \/ \E s \in Stoppers : c \in pending[s]

\* An open connection is one that stop() will find, has found, or need not: its
\* close is under way.  stop() leaves out those whose closing_ is set, so that
\* flag has to mean it.
Reached ==
  /\ \A c \in Conns :
       life[c] = "open" \/ (iopc = "start" /\ cur = c) =>
         c \in conns \/ (\E s \in Stoppers : c \in snap[s]) \/ ClosePosted(c)
  /\ \A c \in closing : ClosePosted(c) \/ life[c] = "closed"
  /\ \A s \in Stoppers : snap[s] \cup pending[s] # {} => spc[s] = "close"
  /\ spc["main"] \notin {"idle", "listener", "snapshot"} => conns = {}

IInv ==
  /\ TypeOK
  /\ InHand
  /\ Accepted
  /\ Registered
  /\ Holding
  /\ Joining
  /\ Announced
  /\ Ending
  /\ Reached
-----------------------------------------------------------------------------
\* run() is entered with no client, every worker awake and nobody stopping.
LEMMA InitIInv == Init => IInv
<1> SUFFICES ASSUME Init PROVE IInv
  OBVIOUS
<1> USE ServerAssumption DEF Init
<1>1. TypeOK
  BY DEF TypeOK, IoPc, WorkerPc, StopPc, Stoppers, Mutexes, Threads
<1>2. InHand /\ Accepted /\ Registered
  BY DEF InHand, Accepted, Registered, RegistryIsExact
<1>3. Holding /\ Joining /\ Announced
  BY DEF Holding, Joining, Announced, WaitingIsAnnounced, Mutexes, Threads
<1>4. Ending /\ Reached
  BY DEF Ending, Reached, InHandler, ClosePosted, Stoppers
<1> QED
  BY <1>1, <1>2, <1>3, <1>4 DEF IInv

\* Thread t takes the mutex that it needs where it is.
LEMMA LockTakes ==
  ASSUME NEW t \in Threads, Lock(t)
  PROVE  \E m \in Mutexes :
           /\ mutex[m] = Free
           /\ mutex' = [mutex EXCEPT ![m] = t]
           /\ \/ m = "conns" /\ At(t) \in {"register", "unregister"}
              \/ m = "pool" /\ At(t) \in {"submit", "look"}
              \/ m = "posts" /\ At(t) \in {"hangup", "drain", "reply"}
<1> USE DEF Lock, Mutexes
<1>1. CASE At(t) \in {"register", "unregister"}
  <2>1. Needs(At(t)) = "conns"
    BY <1>1 DEF Needs
  <2> QED
    BY <1>1, <2>1
<1>2. CASE At(t) \in {"submit", "look"}
  <2>1. Needs(At(t)) = "pool"
    BY <1>2 DEF Needs
  <2> QED
    BY <1>2, <2>1
<1>3. CASE At(t) \in {"hangup", "drain", "reply"}
  <2>1. Needs(At(t)) = "posts"
    BY <1>3 DEF Needs
  <2> QED
    BY <1>3, <2>1
<1> QED
  BY <1>1, <1>2, <1>3

\* A step leaves every variable of its type.
LEMMA TypesStep ==
  ASSUME TypeOK, InHand, Next
  PROVE  TypeOK'
<1> USE DEF TypeOK, InHand, IoPc, WorkerPc, StopPc, Stoppers, Mutexes, Threads, net, server, work,
            loop, pool, stops, closes
<1>1. ASSUME NEW c \in Conns, Connect(c)
      PROVE  TypeOK'
  BY <1>1, SMT DEF Connect
<1>2. ASSUME NEW c \in Conns, NEW what \in {"frame", "eof"}, Send(c, what)
      PROVE  TypeOK'
  BY <1>2, SMT DEF Send
<1>3. CASE LoopTest
  BY <1>3, SMT DEF LoopTest, IoStep
<1>4. CASE EpollWait
  BY <1>4 DEF EpollWait, IoStep
<1>5. CASE Dispatch
  BY <1>5, SMT DEF Dispatch
<1>6. ASSUME NEW t \in Threads, Lock(t)
      PROVE  TypeOK'
  <2>1. mutex' \in [Mutexes -> Threads \cup {Free}]
    BY <1>6, LockTakes, SMT
  <2>2. UNCHANGED <<net, edge, server, stopping, loop, pool, stops>>
    BY <1>6 DEF Lock
  <2> QED
    BY <2>1, <2>2, SMT
<1>7. CASE Accept
  BY <1>7, SMT DEF Accept
<1>8. CASE Register
  BY <1>8 DEF Register, IoStep, Unlock
<1>9. CASE Start
  BY <1>9, SMT DEF Start, StartAs, IoStep
<1>10. CASE Read
  BY <1>10, SMT DEF Read
<1>11. CASE Submit
  BY <1>11, SMT DEF Submit, IoStep, Unlock
<1>12. CASE HangUp
  BY <1>12 DEF HangUp, IoStep, Unlock
<1>13. CASE Swap
  BY <1>13, SMT DEF Swap, IoStep, Unlock
<1>14. CASE DeliverClose
  BY <1>14, SMT DEF DeliverClose, DeliverCloseAs
<1>15. CASE Unregister
  BY <1>15 DEF Unregister, IoStep, Unlock
<1>16. CASE Destruct
  BY <1>16, SMT DEF Destruct
<1>17. CASE Destroy
  BY <1>17 DEF Destroy, IoStep
<1>18. ASSUME NEW w \in Workers, WorkerTest(w)
      PROVE  TypeOK'
  BY <1>18, SMT DEF WorkerTest, WorkerTestAs, WorkerStep, Unlock
<1>19. ASSUME NEW w \in Workers, Block(w)
      PROVE  TypeOK'
  BY <1>19, SMT DEF Block, WorkerStep, Unlock
<1>20. ASSUME NEW w \in Workers, Task(w)
      PROVE  TypeOK'
  BY <1>20, SMT DEF Task, WorkerStep
<1>21. ASSUME NEW w \in Workers, Reply(w)
      PROVE  TypeOK'
  BY <1>21, SMT DEF Reply, WorkerStep, Unlock
<1>22. ASSUME NEW t \in Threads, Signal(t)
      PROVE  TypeOK'
  BY <1>22 DEF Signal
<1>23. ASSUME NEW s \in Stoppers, StopListening(s)
      PROVE  TypeOK'
  BY <1>23, ZenonT(30) DEF StopListening, StopStep
<1>24. ASSUME NEW s \in Stoppers, Snapshot(s)
      PROVE  TypeOK'
  BY <1>24, SMT DEF Snapshot, StopStep
<1>25. ASSUME NEW s \in Stoppers, CloseOne(s)
      PROVE  TypeOK'
  BY <1>25, SMT DEF CloseOne, StopStep
<1>26. ASSUME NEW s \in Stoppers, AllClosed(s)
      PROVE  TypeOK'
  BY <1>26, SMT DEF AllClosed, StopStep
<1>27. ASSUME NEW s \in Stoppers, StopReactor(s)
      PROVE  TypeOK'
  BY <1>27, SMT DEF StopReactor, StopStep
<1>28. ASSUME NEW s \in Stoppers, StopPool(s)
      PROVE  TypeOK'
  BY <1>28, SMT DEF StopPool, StopStep
<1>29. ASSUME NEW s \in Stoppers, NotifyAll(s)
      PROVE  TypeOK'
  BY <1>29, SMT DEF NotifyAll, NotifyAs, StopStep
<1>30. ASSUME NEW s \in Stoppers, Join(s)
      PROVE  TypeOK'
  BY <1>30, SMT DEF Join, StopStep
<1>31. CASE JoinItself
  BY <1>31, SMT DEF JoinItself
<1>32. CASE EpollFails
  BY <1>32 DEF EpollFails, IoStep
<1>33. ASSUME NEW s \in Stoppers, PostClose(s)
      PROVE  TypeOK'
  BY <1>33, SMT DEF PostClose, StopStep
<1> QED
  BY <1>1, <1>2, <1>3, <1>4, <1>5, <1>6, <1>7, <1>8, <1>9, <1>10, <1>11, <1>12, <1>13, <1>14,
     <1>15, <1>16, <1>17, <1>18, <1>19, <1>20, <1>21, <1>22, <1>23, <1>24, <1>25, <1>26, <1>27,
     <1>28, <1>29, <1>30, <1>31, <1>32, <1>33, ZenonT(30)
  DEF Next, Io, Worker, Stop, Threads

\* The I/O thread picks its connection where it needs one, and runs all the
\* closures it took before the next event.
LEMMA InHandStep ==
  ASSUME TypeOK, InHand, Next
  PROVE  InHand'
<1> USE DEF InHand, net, server, work, loop, pool, stops, closes
<1>1. CASE UNCHANGED <<iopc, cur, running>>
  BY <1>1
<1>2. CASE Dispatch
  BY <1>2 DEF Dispatch
<1>3. CASE Accept
  BY <1>3 DEF Accept
<1>4. CASE Read
  BY <1>4 DEF Read
<1>5. CASE Submit
  BY <1>5 DEF Submit, IoStep, Unlock
<1>6. CASE Swap
  BY <1>6 DEF Swap, IoStep, Unlock
<1>7. CASE DeliverClose
  BY <1>7, SMT DEF DeliverClose, DeliverCloseAs, TypeOK
<1>8. CASE Unregister
  BY <1>8 DEF Unregister, IoStep, Unlock
<1>9. ASSUME NEW t \in Threads, Signal(t)
      PROVE  InHand'
  BY <1>9 DEF Signal
<1>10. CASE Register
  BY <1>10 DEF Register, IoStep, Unlock
<1>11. CASE Start
  BY <1>11 DEF Start, StartAs, IoStep
<1> QED
  BY <1>1, <1>2, <1>3, <1>4, <1>5, <1>6, <1>7, <1>8, <1>9, <1>10, <1>11, ZenonT(30)
  DEF Next, Io, Worker, Stop, Connect, Send, LoopTest, IoStep, EpollWait, Lock, HangUp, Unlock,
      Destruct, Destroy, WorkerTest, WorkerTestAs, WorkerStep, Block, Task, Reply, StopListening,
      StopStep, Snapshot, CloseOne, AllClosed, StopReactor, StopPool, NotifyAll, NotifyAs, Join,
      JoinItself, EpollFails, PostClose

\* accept() picks a client and start() opens it, with nothing in between.
LEMMA AcceptedStep ==
  ASSUME TypeOK, InHand, Accepted, Next
  PROVE  Accepted'
<1> USE DEF Accepted, net, server, work, loop, pool, stops, closes
<1>1. CASE UNCHANGED <<iopc, cur, life>>
  BY <1>1
<1>2. ASSUME NEW c \in Conns, Connect(c)
      PROVE  Accepted'
  BY <1>2 DEF Connect, TypeOK, InHand
<1>3. CASE Dispatch
  BY <1>3 DEF Dispatch
<1>4. CASE Accept
  BY <1>4, SMT DEF Accept, TypeOK, InHand
<1>5. CASE Read
  BY <1>5 DEF Read
<1>6. CASE Register
  BY <1>6 DEF Register, IoStep, Unlock
<1>7. CASE Start
  BY <1>7 DEF Start, StartAs, IoStep, TypeOK, InHand
<1>8. CASE HangUp
  BY <1>8 DEF HangUp, IoStep, Unlock
<1>9. CASE Swap
  BY <1>9 DEF Swap, IoStep, Unlock
<1>10. CASE DeliverClose
  BY <1>10, SMT DEF DeliverClose, DeliverCloseAs, TypeOK, InHand
<1>11. CASE Unregister
  BY <1>11 DEF Unregister, IoStep, Unlock
<1>12. ASSUME NEW t \in Threads, Signal(t)
      PROVE  Accepted'
  BY <1>12 DEF Signal
<1>13. ASSUME NEW s \in Stoppers, StopListening(s)
      PROVE  Accepted'
  BY <1>13 DEF StopListening, StopStep, TypeOK, InHand
<1>14. CASE Submit
  BY <1>14 DEF Submit, IoStep, Unlock
<1>15. CASE EpollWait
  BY <1>15 DEF EpollWait, IoStep
<1>16. CASE LoopTest
  BY <1>16 DEF LoopTest, IoStep
<1>17. CASE Destroy
  BY <1>17 DEF Destroy, IoStep
<1>18. CASE EpollFails
  BY <1>18 DEF EpollFails, IoStep
<1> QED
  BY <1>1, <1>2, <1>3, <1>4, <1>5, <1>6, <1>7, <1>8, <1>9, <1>10, <1>11, <1>12, <1>13, <1>14,
     <1>15, <1>16, <1>17, <1>18, ZenonT(30)
  DEF Next, Io, Worker, Stop, Send, Lock, Destruct, WorkerTest, WorkerTestAs, WorkerStep, Unlock,
      Block, Task, Reply, Snapshot, StopStep, CloseOne, AllClosed, StopReactor, StopPool,
      NotifyAll, NotifyAs, Join, JoinItself, PostClose

\* register_connection() adds the accepted connection before it opens and
\* unregister_connection() removes the one that was closed.
LEMMA RegisteredStep ==
  ASSUME TypeOK, InHand, Accepted, Registered, Next
  PROVE  Registered'
<1> USE DEF Registered, RegistryIsExact, net, server, work, loop, pool, stops, closes
<1>1. CASE UNCHANGED <<iopc, cur, life, conns, spc>>
  BY <1>1
<1>2. ASSUME NEW c \in Conns, Connect(c)
      PROVE  Registered'
  BY <1>2 DEF Connect, TypeOK, InHand, Accepted
<1>3. CASE Dispatch
  BY <1>3 DEF Dispatch, TypeOK, InHand, Accepted
<1>4. CASE Accept
  BY <1>4, SMT DEF Accept, TypeOK, InHand, Accepted
<1>5. CASE Register
  BY <1>5 DEF Register, IoStep, Unlock, TypeOK, InHand, Accepted
<1>6. CASE Start
  BY <1>6 DEF Start, StartAs, IoStep, TypeOK, InHand, Accepted
<1>7. CASE Read
  BY <1>7 DEF Read
<1>8. CASE Submit
  BY <1>8 DEF Submit, IoStep, Unlock
<1>9. CASE HangUp
  BY <1>9 DEF HangUp, IoStep, Unlock
<1>10. CASE Swap
  BY <1>10 DEF Swap, IoStep, Unlock
<1>11. CASE DeliverClose
  BY <1>11, SMT DEF DeliverClose, DeliverCloseAs, TypeOK, InHand, Accepted
<1>12. CASE Unregister
  BY <1>12 DEF Unregister, IoStep, Unlock, TypeOK, InHand, Accepted
<1>13. ASSUME NEW t \in Threads, Signal(t)
      PROVE  Registered'
  BY <1>13 DEF Signal, TypeOK
<1>14. CASE Destruct
  BY <1>14 DEF Destruct, TypeOK
<1>15. ASSUME NEW s \in Stoppers, StopListening(s)
      PROVE  Registered'
  BY <1>15 DEF StopListening, StopStep, TypeOK
<1>16. ASSUME NEW s \in Stoppers, Snapshot(s)
      PROVE  Registered'
  BY <1>16 DEF Snapshot, StopStep, TypeOK
<1>17. ASSUME NEW s \in Stoppers, CloseOne(s)
      PROVE  Registered'
  BY <1>17, SMT DEF CloseOne, StopStep, TypeOK
<1>18. ASSUME NEW s \in Stoppers, AllClosed(s)
      PROVE  Registered'
  BY <1>18 DEF AllClosed, StopStep, TypeOK
<1>19. ASSUME NEW s \in Stoppers, StopReactor(s)
      PROVE  Registered'
  BY <1>19 DEF StopReactor, StopStep, TypeOK
<1>20. ASSUME NEW s \in Stoppers, StopPool(s)
      PROVE  Registered'
  BY <1>20 DEF StopPool, StopStep, TypeOK
<1>21. ASSUME NEW s \in Stoppers, NotifyAll(s)
      PROVE  Registered'
  BY <1>21 DEF NotifyAll, NotifyAs, StopStep, TypeOK
<1>22. ASSUME NEW s \in Stoppers, Join(s)
      PROVE  Registered'
  BY <1>22 DEF Join, StopStep, TypeOK
<1>23. CASE EpollWait
  BY <1>23 DEF EpollWait, IoStep
<1>24. CASE LoopTest
  BY <1>24 DEF LoopTest, IoStep
<1>25. CASE Destroy
  BY <1>25 DEF Destroy, IoStep
<1>26. CASE EpollFails
  BY <1>26 DEF EpollFails, IoStep
<1>27. ASSUME NEW s \in Stoppers, PostClose(s)
      PROVE  Registered'
  BY <1>27, SMT DEF PostClose, StopStep, TypeOK
<1> QED
  BY <1>1, <1>2, <1>3, <1>4, <1>5, <1>6, <1>7, <1>8, <1>9, <1>10, <1>11, <1>12, <1>13, <1>14,
     <1>15, <1>16, <1>17, <1>18, <1>19, <1>20, <1>21, <1>22, <1>23, <1>24, <1>25, <1>26, <1>27
  DEF Next, Io, Worker, Stop, Send, Lock, WorkerTest, WorkerTestAs, WorkerStep, Unlock, Block,
      Task, Reply, JoinItself

\* A mutex is given back in the step that leaves the place where it was taken.
LEMMA HoldingStep ==
  ASSUME TypeOK, Holding, Next
  PROVE  Holding'
<1> USE ServerAssumption DEF Holding, net, server, work, loop, pool, stops, closes
<1>1. CASE UNCHANGED <<mutex, iopc, wpc>>
  BY <1>1
<1>2. CASE Dispatch
  BY <1>2 DEF Dispatch
<1>3. ASSUME NEW t \in Threads, Lock(t)
      PROVE  Holding'
  <2>1. PICK m \in Mutexes :
          /\ mutex[m] = Free
          /\ mutex' = [mutex EXCEPT ![m] = t]
          /\ \/ m = "conns" /\ At(t) \in {"register", "unregister"}
             \/ m = "pool" /\ At(t) \in {"submit", "look"}
             \/ m = "posts" /\ At(t) \in {"hangup", "drain", "reply"}
    BY <1>3, LockTakes
  <2>2. UNCHANGED <<iopc, wpc>>
    BY <1>3 DEF Lock
  <2>3. \A n \in Mutexes : n # m => mutex'[n] = mutex[n]
    BY <2>1, SMT DEF TypeOK
  <2>4. mutex'[m] = t
    BY <2>1, SMT DEF TypeOK
  <2>5. CASE t = IO
    <3>1. At(t) \in {"register", "unregister", "submit", "hangup", "drain", "look", "reply"} /\ At(t) = iopc
      BY <2>1, <2>5 DEF At
    <3>2. iopc \notin {"look", "reply"}
      BY DEF TypeOK, IoPc
    <3> QED
      BY <2>1, <2>2, <2>3, <2>4, <2>5, <3>1, <3>2, SMT DEF Mutexes
  <2>6. CASE t \in Workers
    <3>1. At(t) = wpc[t]
      BY <2>6 DEF At
    <3>2. wpc[t] \notin {"register", "unregister", "submit", "hangup", "drain"}
      BY <2>6, SMT DEF TypeOK, WorkerPc
    <3> QED
      BY <2>1, <2>2, <2>3, <2>4, <2>6, <3>1, <3>2, SMT DEF Mutexes
  <2> QED
    BY <2>5, <2>6 DEF Threads
<1>4. CASE Accept
  BY <1>4 DEF Accept
<1>5. CASE Read
  BY <1>5 DEF Read
<1>6. CASE Register
  BY <1>6, SMT DEF Register, IoStep, Unlock, TypeOK, Mutexes, Threads
<1>7. CASE Start
  BY <1>7 DEF Start, StartAs, IoStep
<1>8. CASE Submit
  BY <1>8, SMT DEF Submit, IoStep, Unlock, TypeOK, Mutexes, Threads
<1>9. CASE HangUp
  BY <1>9 DEF HangUp, IoStep, Unlock, TypeOK, Mutexes, Threads
<1>10. CASE Swap
  BY <1>10 DEF Swap, IoStep, Unlock, TypeOK, Mutexes, Threads
<1>11. CASE DeliverClose
  BY <1>11 DEF DeliverClose, DeliverCloseAs
<1>12. CASE Unregister
  BY <1>12, SMT DEF Unregister, IoStep, Unlock, TypeOK, Mutexes, Threads
<1>13. ASSUME NEW t \in Threads, Signal(t)
      PROVE  Holding'
  BY <1>13 DEF Signal
<1>14. ASSUME NEW w \in Workers, WorkerTest(w)
      PROVE  Holding'
  BY <1>14, SMT DEF WorkerTest, WorkerTestAs, WorkerStep, Unlock, TypeOK, Mutexes, Threads
<1>15. ASSUME NEW w \in Workers, Block(w)
      PROVE  Holding'
  BY <1>15, SMT DEF Block, WorkerStep, Unlock, TypeOK, Mutexes, Threads
<1>16. ASSUME NEW w \in Workers, Task(w)
      PROVE  Holding'
  BY <1>16, SMT DEF Task, WorkerStep, TypeOK, Mutexes, Threads
<1>17. ASSUME NEW w \in Workers, Reply(w)
      PROVE  Holding'
  BY <1>17, SMT DEF Reply, WorkerStep, Unlock, TypeOK, Mutexes, Threads
<1>18. ASSUME NEW s \in Stoppers, NotifyAll(s)
      PROVE  Holding'
  BY <1>18 DEF NotifyAll, NotifyAs, StopStep, TypeOK, Mutexes, Threads
<1>19. CASE EpollWait
  BY <1>19 DEF EpollWait, IoStep
<1>20. CASE LoopTest
  BY <1>20 DEF LoopTest, IoStep
<1>21. CASE Destroy
  BY <1>21 DEF Destroy, IoStep
<1>22. CASE EpollFails
  BY <1>22 DEF EpollFails, IoStep
<1> QED
  BY <1>1, <1>2, <1>3, <1>4, <1>5, <1>6, <1>7, <1>8, <1>9, <1>10, <1>11, <1>12, <1>13, <1>14,
     <1>15, <1>16, <1>17, <1>18, <1>19, <1>20, <1>21, <1>22
  DEF Next, Io, Worker, Stop, Threads, Connect, Send, Destruct, StopListening, StopStep, Snapshot,
      CloseOne, AllClosed, StopReactor, StopPool, Join, JoinItself, PostClose

\* A worker blocks only while the pool is not stopping; shutdown() notifies after
\* it has stopped the pool.
LEMMA JoiningStep ==
  ASSUME TypeOK, Joining, Next
  PROVE  Joining'
<1> USE DEF Joining, TypeOK, net, server, work, loop, pool, stops, closes
<1>1. CASE UNCHANGED <<spc, wpc, draining, missed, queue>>
  BY <1>1
<1>2. CASE Submit
  BY <1>2 DEF Submit, IoStep, Unlock
<1>3. ASSUME NEW w \in Workers, WorkerTest(w)
      PROVE  Joining'
  BY <1>3, SMT DEF WorkerTest, WorkerTestAs, WorkerStep, Unlock
<1>4. ASSUME NEW w \in Workers, Block(w)
      PROVE  Joining'
  BY <1>4 DEF Block, WorkerStep, Unlock
<1>5. ASSUME NEW w \in Workers, Task(w)
      PROVE  Joining'
  BY <1>5, SMT DEF Task, WorkerStep
<1>6. ASSUME NEW w \in Workers, Reply(w)
      PROVE  Joining'
  BY <1>6 DEF Reply, WorkerStep, Unlock
<1>7. ASSUME NEW t \in Threads, Signal(t)
      PROVE  Joining'
  BY <1>7 DEF Signal
<1>8. CASE Destruct
  BY <1>8 DEF Destruct
<1>9. ASSUME NEW s \in Stoppers, StopListening(s)
      PROVE  Joining'
  BY <1>9 DEF StopListening, StopStep
<1>10. ASSUME NEW s \in Stoppers, Snapshot(s)
      PROVE  Joining'
  BY <1>10 DEF Snapshot, StopStep
<1>11. ASSUME NEW s \in Stoppers, CloseOne(s)
      PROVE  Joining'
  BY <1>11, SMT DEF CloseOne, StopStep
<1>12. ASSUME NEW s \in Stoppers, AllClosed(s)
      PROVE  Joining'
  BY <1>12 DEF AllClosed, StopStep
<1>13. ASSUME NEW s \in Stoppers, StopReactor(s)
      PROVE  Joining'
  BY <1>13 DEF StopReactor, StopStep
<1>14. ASSUME NEW s \in Stoppers, StopPool(s)
      PROVE  Joining'
  BY <1>14 DEF StopPool, StopStep
<1>15. ASSUME NEW s \in Stoppers, NotifyAll(s)
      PROVE  Joining'
  BY <1>15 DEF NotifyAll, NotifyAs, StopStep
<1>16. ASSUME NEW s \in Stoppers, Join(s)
      PROVE  Joining'
  BY <1>16 DEF Join, StopStep
<1>17. ASSUME NEW s \in Stoppers, PostClose(s)
      PROVE  Joining'
  BY <1>17, SMT DEF PostClose, StopStep
<1> QED
  BY <1>1, <1>2, <1>3, <1>4, <1>5, <1>6, <1>7, <1>8, <1>9, <1>10, <1>11, <1>12, <1>13, <1>14,
     <1>15, <1>16, <1>17, ZenonT(30)
  DEF Next, Io, Worker, Stop, Connect, Send, LoopTest, IoStep, EpollWait, Dispatch, Lock, Accept,
      Register, Unlock, Start, StartAs, Read, HangUp, Swap, DeliverClose, DeliverCloseAs,
      Unregister, Destroy, JoinItself, EpollFails

\* accept() is called until it fails, once for the one event of many clients.
LEMMA AnnouncedStep ==
  ASSUME TypeOK, InHand, Announced, Next
  PROVE  Announced'
<1> USE ServerAssumption DEF Announced, WaitingIsAnnounced, net, server, work, loop, pool, stops,
            closes
<1>1. CASE UNCHANGED <<life, starved, edge, batch, iopc, listening>>
  BY <1>1
<1>2. ASSUME NEW c \in Conns, Connect(c)
      PROVE  Announced'
  BY <1>2 DEF Connect, TypeOK, InHand
<1>3. ASSUME NEW c \in Conns, NEW what \in {"frame", "eof"}, Send(c, what)
      PROVE  Announced'
  BY <1>3 DEF Send
<1>4. CASE LoopTest
  BY <1>4 DEF LoopTest, IoStep
<1>5. CASE EpollWait
  BY <1>5 DEF EpollWait, IoStep
<1>6. CASE Dispatch
  <2>1. CASE batch = {}
    BY <1>6, <2>1 DEF Dispatch
  <2>2. ASSUME NEW e \in batch, batch' = batch \ {e}, e = "listener", listening
        PROVE  Announced'
    <3>1. iopc' = "accept"
      BY <1>6, <2>2, <2>1 DEF Dispatch
    <3> QED
      BY <1>6, <2>2, <3>1 DEF Dispatch
  <2>3. ASSUME NEW e \in batch, batch' = batch \ {e}, e # "listener" \/ ~listening
        PROVE  Announced'
    BY <1>6, <2>3 DEF Dispatch
  <2> QED
    BY <1>6, <2>1, <2>2, <2>3 DEF Dispatch
<1>7. CASE Accept
  BY <1>7 DEF Accept, TypeOK, InHand
<1>8. CASE Register
  BY <1>8 DEF Register, IoStep, Unlock
<1>9. CASE Start
  BY <1>9 DEF Start, StartAs, IoStep, TypeOK, InHand
<1>10. CASE Read
  BY <1>10 DEF Read
<1>11. CASE Submit
  BY <1>11 DEF Submit, IoStep, Unlock
<1>12. CASE HangUp
  BY <1>12 DEF HangUp, IoStep, Unlock
<1>13. CASE Swap
  BY <1>13 DEF Swap, IoStep, Unlock
<1>14. CASE DeliverClose
  BY <1>14, SMT DEF DeliverClose, DeliverCloseAs, TypeOK, InHand
<1>15. CASE Unregister
  BY <1>15 DEF Unregister, IoStep, Unlock
<1>16. CASE Destroy
  BY <1>16 DEF Destroy, IoStep
<1>17. ASSUME NEW w \in Workers, Reply(w)
      PROVE  Announced'
  BY <1>17 DEF Reply, WorkerStep, Unlock
<1>18. ASSUME NEW t \in Threads, Signal(t)
      PROVE  Announced'
  BY <1>18 DEF Signal
<1>19. ASSUME NEW s \in Stoppers, StopListening(s)
      PROVE  Announced'
  BY <1>19 DEF StopListening, StopStep, TypeOK, InHand
<1>20. ASSUME NEW s \in Stoppers, CloseOne(s)
      PROVE  Announced'
  BY <1>20, SMT DEF CloseOne, StopStep
<1>21. ASSUME NEW s \in Stoppers, StopReactor(s)
      PROVE  Announced'
  BY <1>21 DEF StopReactor, StopStep
<1>22. CASE EpollFails
  BY <1>22 DEF EpollFails, IoStep
<1>23. ASSUME NEW s \in Stoppers, PostClose(s)
      PROVE  Announced'
  BY <1>23, SMT DEF PostClose, StopStep
<1> QED
  BY <1>1, <1>2, <1>3, <1>4, <1>5, <1>6, <1>7, <1>8, <1>9, <1>10, <1>11, <1>12, <1>13, <1>14,
     <1>15, <1>16, <1>17, <1>18, <1>19, <1>20, <1>21, <1>22, <1>23
  DEF Next, Io, Worker, Stop, Lock, Destruct, WorkerTest, WorkerTestAs, WorkerStep, Unlock, Block,
      Task, Snapshot, StopStep, AllClosed, StopPool, NotifyAll, NotifyAs, Join, JoinItself

\* ~ChatServer stops and joins, and only then are the members destroyed.
LEMMA EndingStep ==
  ASSUME TypeOK, Ending, Next
  PROVE  Ending'
<1> USE DEF Ending, InHandler, net, server, work, loop, pool, stops, closes
<1>1. CASE UNCHANGED <<iopc, spc, wpc, hthread>>
  BY <1>1
<1>2. CASE LoopTest
  BY <1>2 DEF LoopTest, IoStep, Runs, InHandler
<1>3. CASE EpollWait
  BY <1>3 DEF EpollWait, IoStep
<1>4. CASE Dispatch
  BY <1>4 DEF Dispatch
<1>5. CASE Accept
  BY <1>5 DEF Accept
<1>6. CASE Register
  BY <1>6 DEF Register, IoStep, Unlock
<1>7. CASE Start
  BY <1>7 DEF Start, StartAs, IoStep
<1>8. CASE Read
  BY <1>8 DEF Read
<1>9. CASE Submit
  BY <1>9 DEF Submit, IoStep, Unlock, TypeOK
<1>10. CASE HangUp
  BY <1>10 DEF HangUp, IoStep, Unlock
<1>11. CASE Swap
  BY <1>11 DEF Swap, IoStep, Unlock
<1>12. CASE DeliverClose
  BY <1>12 DEF DeliverClose, DeliverCloseAs
<1>13. CASE Unregister
  BY <1>13 DEF Unregister, IoStep, Unlock
<1>14. CASE Destruct
  BY <1>14, SMT DEF Destruct, TypeOK
<1>15. CASE Destroy
  BY <1>15 DEF Destroy, IoStep
<1>16. ASSUME NEW w \in Workers, WorkerTest(w)
      PROVE  Ending'
  BY <1>16, SMT DEF WorkerTest, WorkerTestAs, WorkerStep, Unlock, TypeOK, Runs
<1>17. ASSUME NEW w \in Workers, Block(w)
      PROVE  Ending'
  BY <1>17 DEF Block, WorkerStep, Unlock, TypeOK
<1>18. ASSUME NEW w \in Workers, Task(w)
      PROVE  Ending'
  BY <1>18 DEF Task, WorkerStep, TypeOK
<1>19. ASSUME NEW w \in Workers, Reply(w)
      PROVE  Ending'
  BY <1>19 DEF Reply, WorkerStep, Unlock, TypeOK
<1>20. ASSUME NEW t \in Threads, Signal(t)
      PROVE  Ending'
  BY <1>20, ServerAssumption DEF Signal, TypeOK, Threads, Stoppers
<1>21. ASSUME NEW s \in Stoppers, StopListening(s)
      PROVE  Ending'
  BY <1>21, SMT DEF StopListening, StopStep, TypeOK
<1>22. ASSUME NEW s \in Stoppers, Snapshot(s)
      PROVE  Ending'
  BY <1>22, SMT DEF Snapshot, StopStep, TypeOK
<1>23. ASSUME NEW s \in Stoppers, CloseOne(s)
      PROVE  Ending'
  BY <1>23, SMT DEF CloseOne, StopStep, TypeOK
<1>24. ASSUME NEW s \in Stoppers, AllClosed(s)
      PROVE  Ending'
  BY <1>24, SMT DEF AllClosed, StopStep, TypeOK
<1>25. ASSUME NEW s \in Stoppers, StopReactor(s)
      PROVE  Ending'
  BY <1>25, SMT DEF StopReactor, StopStep, TypeOK
<1>26. ASSUME NEW s \in Stoppers, StopPool(s)
      PROVE  Ending'
  BY <1>26, SMT DEF StopPool, StopStep, TypeOK
<1>27. ASSUME NEW s \in Stoppers, NotifyAll(s)
      PROVE  Ending'
  BY <1>27, SMT DEF NotifyAll, NotifyAs, StopStep, TypeOK
<1>28. ASSUME NEW s \in Stoppers, Join(s)
      PROVE  Ending'
  BY <1>28, SMT DEF Join, StopStep, TypeOK
<1>29. CASE EpollFails
  BY <1>29 DEF EpollFails, IoStep, Runs, InHandler
<1>30. ASSUME NEW s \in Stoppers, PostClose(s)
      PROVE  Ending'
  BY <1>30, SMT DEF PostClose, StopStep, TypeOK
<1> QED
  BY <1>1, <1>2, <1>3, <1>4, <1>5, <1>6, <1>7, <1>8, <1>9, <1>10, <1>11, <1>12, <1>13, <1>14,
     <1>15, <1>16, <1>17, <1>18, <1>19, <1>20, <1>21, <1>22, <1>23, <1>24, <1>25, <1>26, <1>27,
     <1>28, <1>29, <1>30
  DEF Next, Io, Worker, Stop, Connect, Send, Lock, JoinItself

\* A connection leaves conns_ into a snapshot, a snapshot into a posted close, and
\* a posted close only when it is run.
LEMMA ReachedStep ==
  ASSUME TypeOK, InHand, Accepted, Ending, Reached, Next
  PROVE  Reached'
<1> USE DEF Reached, ClosePosted, TypeOK, InHand, net, server, work, loop, pool, stops, closes
<1>1. CASE UNCHANGED <<life, iopc, cur, conns, snap, pending, posts, running, closing, spc>>
  BY <1>1
<1>2. ASSUME NEW c \in Conns, Connect(c)
      PROVE  Reached'
  BY <1>2, SMT DEF Connect
<1>3. CASE LoopTest
  BY <1>3 DEF LoopTest, IoStep
<1>4. CASE EpollWait
  BY <1>4 DEF EpollWait, IoStep
<1>5. CASE Dispatch
  BY <1>5 DEF Dispatch
<1>6. CASE Accept
  BY <1>6, SMT DEF Accept
<1>7. CASE Register
  BY <1>7 DEF Register, IoStep, Unlock, Ending
<1>8. CASE Start
  <2>1. cur \in Conns /\ life' = [life EXCEPT ![cur] = "open"] /\ iopc = "start" /\ iopc' = "accept"
    BY <1>8 DEF Start, StartAs, IoStep
  <2>2. UNCHANGED <<conns, posts, running, closing, cur, spc, snap, pending>>
    BY <1>8 DEF Start, StartAs
  <2>3. life[cur] = "accepted"
    BY <2>1 DEF Accepted
  <2> QED
    BY <2>1, <2>2, <2>3, SMT
<1>9. CASE Read
  BY <1>9, SMT DEF Read
<1>10. CASE Submit
  BY <1>10 DEF Submit, IoStep, Unlock
<1>11. CASE HangUp
  BY <1>11 DEF HangUp, IoStep, Unlock
<1>12. CASE Swap
  BY <1>12 DEF Swap, IoStep, Unlock
<1>13. CASE DeliverClose
  BY <1>13, SMT DEF DeliverClose, DeliverCloseAs
<1>14. CASE Unregister
  BY <1>14 DEF Unregister, IoStep, Unlock, Accepted
<1>15. CASE Destruct
  BY <1>15, SMT DEF Destruct
<1>16. CASE Destroy
  BY <1>16 DEF Destroy, IoStep
<1>17. ASSUME NEW t \in Threads, Signal(t)
      PROVE  Reached'
  BY <1>17, SMT DEF Signal
<1>18. ASSUME NEW s \in Stoppers, StopListening(s)
      PROVE  Reached'
  BY <1>18, SMT DEF StopListening, StopStep
<1>19. ASSUME NEW s \in Stoppers, Snapshot(s)
      PROVE  Reached'
  BY <1>19 DEF Snapshot, StopStep, Stoppers
<1>20. ASSUME NEW s \in Stoppers, CloseOne(s)
      PROVE  Reached'
  <2>1. PICK c \in snap[s] :
          /\ snap' = [snap EXCEPT ![s] = @ \ {c}]
          /\ closing' = closing \cup {c}
          /\ pending' = [pending EXCEPT ![s] = {c} \ closing]
    BY <1>20 DEF CloseOne
  <2>2. UNCHANGED <<life, iopc, cur, conns, posts, running>> /\ spc[s] = "close"
    BY <1>20 DEF CloseOne, StopStep
  <2>3. spc' = spc /\ pending[s] = {}
    BY <1>20, SMT DEF CloseOne, StopStep
  <2>4. c \in Conns /\ pending'[s] = {c} \ closing
    BY <2>1, SMT
  <2>5. \A z \in Stoppers : z # s => pending'[z] = pending[z] /\ snap'[z] = snap[z]
    BY <2>1, SMT
  <2>6. ClosePosted(c)' \/ life[c] = "closed"
    <3>1. CASE c \in closing
      <4>1. ClosePosted(c) \/ life[c] = "closed"
        BY <3>1
      <4> QED
        BY <2>2, <2>3, <2>5, <4>1
    <3>2. CASE c \notin closing
      BY <2>4, <3>2
    <3> QED
      BY <3>1, <3>2
  <2>7. \A d \in Conns : ClosePosted(d) => ClosePosted(d)'
    BY <2>2, <2>3, <2>5
  <2>8. \A d \in Conns, z \in Stoppers : d \in snap[z] => d = c \/ d \in snap'[z]
    BY <2>1
  <2> HIDE DEF ClosePosted
  <2>9. \A d \in closing' : ClosePosted(d)' \/ life'[d] = "closed"
    BY <2>1, <2>2, <2>6, <2>7
  <2>10. \A d \in Conns : life'[d] = "open" \/ (iopc' = "start" /\ cur' = d) =>
           d \in conns' \/ (\E z \in Stoppers : d \in snap'[z]) \/ ClosePosted(d)'
    BY <2>2, <2>4, <2>6, <2>7, <2>8, SMT DEF Accepted
  <2>11. \A z \in Stoppers : snap'[z] \cup pending'[z] # {} => spc'[z] = "close"
    BY <2>2, <2>3, <2>5
  <2> QED
    BY <2>2, <2>3, <2>9, <2>10, <2>11
<1>21. ASSUME NEW s \in Stoppers, AllClosed(s)
      PROVE  Reached'
  BY <1>21, SMT DEF AllClosed, StopStep
<1>22. ASSUME NEW s \in Stoppers, StopReactor(s)
      PROVE  Reached'
  BY <1>22, SMT DEF StopReactor, StopStep
<1>23. ASSUME NEW s \in Stoppers, StopPool(s)
      PROVE  Reached'
  BY <1>23, SMT DEF StopPool, StopStep
<1>24. ASSUME NEW s \in Stoppers, NotifyAll(s)
      PROVE  Reached'
  BY <1>24, SMT DEF NotifyAll, NotifyAs, StopStep
<1>25. ASSUME NEW s \in Stoppers, Join(s)
      PROVE  Reached'
  BY <1>25, SMT DEF Join, StopStep
<1>26. CASE EpollFails
  BY <1>26 DEF EpollFails, IoStep
<1>27. ASSUME NEW s \in Stoppers, PostClose(s)
      PROVE  Reached'
  <2>1. /\ posts' = posts \cup pending[s]
        /\ pending' = [pending EXCEPT ![s] = {}]
        /\ UNCHANGED <<life, iopc, cur, conns, snap, running, closing>>
    BY <1>27 DEF PostClose
  <2>2. spc' = spc
    BY <1>27, SMT DEF PostClose, StopStep
  <2>3. \A z \in Stoppers : z # s => pending'[z] = pending[z]
    BY <2>1, SMT
  <2>4. pending'[s] = {}
    BY <2>1, SMT
  <2>5. \A d \in Conns : ClosePosted(d) => ClosePosted(d)'
    BY <2>1, <2>3
  <2> HIDE DEF ClosePosted
  <2>6. \A d \in closing' : ClosePosted(d)' \/ life'[d] = "closed"
    BY <2>1, <2>5
  <2>7. \A d \in Conns : life'[d] = "open" \/ (iopc' = "start" /\ cur' = d) =>
          d \in conns' \/ (\E z \in Stoppers : d \in snap'[z]) \/ ClosePosted(d)'
    BY <2>1, <2>5
  <2>8. \A z \in Stoppers : snap'[z] \cup pending'[z] # {} => spc'[z] = "close"
    BY <2>1, <2>2, <2>3, <2>4
  <2> QED
    BY <2>1, <2>2, <2>6, <2>7, <2>8
<1> QED
  BY <1>1, <1>2, <1>3, <1>4, <1>5, <1>6, <1>7, <1>8, <1>9, <1>10, <1>11, <1>12, <1>13, <1>14,
     <1>15, <1>16, <1>17, <1>18, <1>19, <1>20, <1>21, <1>22, <1>23, <1>24, <1>25, <1>26,
     <1>27, ZenonT(30)
  DEF Next, Io, Worker, Stop, Send, Lock, WorkerTest, WorkerTestAs, WorkerStep, Unlock, Block,
      Task, Reply, JoinItself
-----------------------------------------------------------------------------
LEMMA StepIInv == IInv /\ [Next]_vars => IInv'
<1> SUFFICES ASSUME IInv, [Next]_vars PROVE IInv'
  OBVIOUS
<1> USE DEF IInv
<1>1. CASE Next
  BY <1>1, TypesStep, InHandStep, AcceptedStep, RegisteredStep, HoldingStep, JoiningStep,
     AnnouncedStep, EndingStep, ReachedStep
<1>2. CASE UNCHANGED vars
  <2> USE <1>2 DEF vars
  <2>1. TypeOK' /\ InHand' /\ Accepted' /\ Registered'
    BY SMT DEF TypeOK, InHand, Accepted, Registered, RegistryIsExact
  <2>2. Holding' /\ Joining'
    BY DEF Holding, Joining
  <2>3. Announced'
    BY DEF Announced, WaitingIsAnnounced
  <2>4. Ending' /\ Reached'
    BY DEF Ending, Reached, InHandler, ClosePosted
  <2> QED
    BY <2>1, <2>2, <2>3, <2>4
<1> QED
  BY <1>1, <1>2

LEMMA Invariance == Spec => []IInv
BY InitIInv, StepIInv, PTL DEF Spec

\* stop() will find every open connection in conns_, and no connection that was
\* closed is kept there (register_connection, unregister_connection).
THEOREM RegistryExact == Spec => []RegistryIsExact
<1>1. IInv => RegistryIsExact
  BY DEF IInv, Registered
<1> QED
  BY <1>1, Invariance, PTL

\* Once the server is destroyed no worker runs, no frame that was accepted is
\* left in the queue, and the close of every open connection was posted
\* (~ChatServer, Server::stop, ThreadPool::shutdown).
THEOREM TeardownComplete == Spec => []TeardownIsComplete
<1>1. ASSUME IInv, iopc = "destroyed"
      PROVE  /\ queue = {}
             /\ \A w \in Workers : wpc[w] = "exited"
             /\ \A c \in Conns : life[c] \in {"accepted", "open"} => c \in posts
  <2> USE <1>1 DEF IInv
  <2>1. spc["main"] = "done" /\ \A w \in Workers : wpc[w] = "exited"
    BY DEF Ending
  <2>2. queue = {}
    BY <2>1, ServerAssumption DEF Joining
  <2>3. ~InHandler
    BY <2>1 DEF Ending, Threads
  <2>4. conns = {} /\ running = {} /\ \A s \in Stoppers : snap[s] = {} /\ pending[s] = {}
    BY <2>1, <2>3 DEF Reached, InHand, InHandler, Stoppers
  <2>5. \A c \in Conns : life[c] # "accepted" /\ (life[c] = "open" => c \in posts)
    BY <2>4 DEF Accepted, Reached, ClosePosted
  <2> QED
    BY <2>1, <2>2, <2>5
<1>2. IInv => TeardownIsComplete
  BY <1>1 DEF TeardownIsComplete
<1> QED
  BY <1>2, Invariance, PTL

\* Whoever holds a mutex gives it back when it goes on, and a worker that stop()
\* has come to join is awake unless notify_all() found it about to sleep
\* (Server::stop, ThreadPool::shutdown, worker_loop).
THEOREM StopOnlyWaits == Spec => []StopWaitsForSteps
<1>1. ASSUME IInv, NEW m \in Mutexes, mutex[m] # Free
      PROVE  Needs(At(mutex[m])) = m
  <2> USE <1>1 DEF IInv
  <2>1. mutex[m] \in Workers \cup {IO}
    BY DEF TypeOK, Threads
  <2>2. CASE m = "conns"
    <3>1. At(mutex[m]) \in {"register", "unregister"}
      BY <2>1, <2>2 DEF Holding, At
    <3> QED
      BY <2>2, <3>1 DEF Needs
  <2>3. CASE m = "pool"
    <3>1. At(mutex[m]) \in {"submit", "look", "block"}
      BY <2>1, <2>3, ServerAssumption DEF Holding, At
    <3> QED
      BY <2>3, <3>1 DEF Needs
  <2>4. CASE m = "posts"
    <3>1. At(mutex[m]) \in {"hangup", "drain", "reply"}
      BY <2>1, <2>4, ServerAssumption DEF Holding, At
    <3> QED
      BY <2>4, <3>1 DEF Needs
  <2> QED
    BY <2>2, <2>3, <2>4 DEF Mutexes
<1>2. IInv => StopWaitsForSteps
  BY <1>1 DEF StopWaitsForSteps, IInv, Joining
<1> QED
  BY <1>2, Invariance, PTL

\* A client in the listen queue has an event to come or the accept loop running,
\* or was there when accept() failed (on_listen_event).
THEOREM NobodyIsForgotten == Spec => []WaitingIsAnnounced
<1>1. IInv => WaitingIsAnnounced
  BY DEF IInv, Announced
<1> QED
  BY <1>1, Invariance, PTL
=============================================================================
