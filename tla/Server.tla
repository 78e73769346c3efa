------------------------------- MODULE Server -------------------------------
(***************************************************************************)
(* The server as a process: the accept loop of src/net/server.cpp, the     *)
(* event loop of src/net/reactor_epoll.cpp that drives it, the workers     *)
(* behind it, and ChatServer::stop(), which main.cpp calls from a signal   *)
(* handler and ~ChatServer calls again once run() has returned.  The       *)
(* handler runs on whichever thread the kernel picks and suspends that     *)
(* thread, with the locks it holds.  A task is one frame; its reply shows  *)
(* only as a post().                                                       *)
(***************************************************************************)
EXTENDS Integers, FiniteSets

CONSTANTS
  Conns,    \* clients that may connect
  Workers,  \* the threads of the pool
  IO,       \* the thread that runs main() and the reactor
  Free,     \* a mutex nobody holds
  NoConn

ASSUME ServerAssumption ==
  /\ Workers # {}
  /\ IO \notin Workers
  /\ Free \notin Workers \cup {IO}
  /\ NoConn \notin Conns
  /\ Conns \cap {"listener", "wake"} = {}

Threads == Workers \cup {IO}
Mutexes == {"conns", "posts", "pool"}  \* Server::mu_, post_mu_, ThreadPool::mu_
Stoppers == {"signal", "main"}         \* who calls ChatServer::stop()

VARIABLES
  life,      \* what became of each client
  sent,      \* what each client has sent: one frame, the end of input
  unread,    \* the part of it that recv() has yet to return
  listening, \* listener_ is open and registered
  edge,      \* descriptors with an event epoll has yet to report
  batch,     \* the events of the current epoll_wait() still to handle
  conns,     \* conns_
  closing,   \* connections whose closing_ is set
  posts,     \* pending_: the connections whose deliver_close() is posted
  running,   \* the closures of the current drain_posts()
  stopping,  \* stopping_ of the reactor
  iopc,      \* where the I/O thread is
  cur,       \* the connection it is working on
  mutex,     \* who holds each mutex
  queue,     \* q_ of the pool, as the frames in it
  draining,  \* stopping_ of the pool
  wpc,       \* where each worker is
  hthread,   \* the thread the signal handler runs on
  spc,       \* where each call of stop() is
  snap,      \* its snapshot of conns_
  pending,   \* the connection it has set closing_ of and has yet to post
  aborted,   \* the process was terminated by an exception
  starved,   \* history: waiting clients that a failed accept() left behind
  missed     \* history: workers that a notify_all() found about to block

net == <<life, sent, unread, listening, starved>>
server == <<conns, closing, posts>>
work == <<batch, running, cur>>  \* what the I/O thread has in hand
loop == <<batch, running, cur, iopc>>
pool == <<queue, draining, wpc, missed>>
closes == <<snap, pending>>
stops == <<hthread, spc, closes, aborted>>
vars == <<life, sent, unread, listening, edge, batch, conns, closing, posts,
          running, stopping, iopc, cur, mutex, queue, draining, wpc, hthread, spc, snap,
          pending, aborted, starved, missed>>

IoPc == {"loop", "wait", "dispatch", "accept", "register", "start", "read",
         "submit", "hangup", "drain", "closures", "unregister", "returned",
         "destroyed"}
WorkerPc == {"look", "block", "waiting", "task", "reply", "exited"}
StopPc == {"idle", "listener", "snapshot", "close", "reactor", "pool",
           "notify", "join", "done"}

TypeOK ==
  /\ life \in [Conns -> {"away", "backlog", "accepted", "open", "closed"}]
  /\ sent \in [Conns -> SUBSET {"frame", "eof"}]
  /\ unread \in [Conns -> SUBSET {"frame", "eof"}]
  /\ listening \in BOOLEAN
  /\ edge \subseteq Conns \cup {"listener", "wake"}
  /\ batch \subseteq Conns \cup {"listener", "wake"}
  /\ conns \subseteq Conns
  /\ closing \subseteq Conns
  /\ posts \subseteq Conns
  /\ running \subseteq Conns
  /\ stopping \in BOOLEAN
  /\ iopc \in IoPc
  /\ cur \in Conns \cup {NoConn}
  /\ mutex \in [Mutexes -> Threads \cup {Free}]
  /\ queue \subseteq Conns
  /\ draining \in BOOLEAN
  /\ wpc \in [Workers -> WorkerPc]
  /\ hthread \in Threads \cup {Free}
  /\ spc \in [Stoppers -> StopPc]
  /\ snap \in [Stoppers -> SUBSET Conns]
  /\ pending \in [Stoppers -> SUBSET Conns]
  /\ aborted \in BOOLEAN
  /\ starved \subseteq Conns
  /\ missed \subseteq Workers

\* run() is entered with the listener registered and the workers started.
Init ==
  /\ life = [c \in Conns |-> "away"]
  /\ sent = [c \in Conns |-> {}]
  /\ unread = [c \in Conns |-> {}]
  /\ listening = TRUE
  /\ edge = {}
  /\ batch = {}
  /\ conns = {}
  /\ closing = {}
  /\ posts = {}
  /\ running = {}
  /\ stopping = FALSE
  /\ iopc = "loop"
  /\ cur = NoConn
  /\ mutex = [m \in Mutexes |-> Free]
  /\ queue = {}
  /\ draining = FALSE
  /\ wpc = [w \in Workers |-> "look"]
  /\ hthread = Free
  /\ spc = [s \in Stoppers |-> "idle"]
  /\ snap = [s \in Stoppers |-> {}]
  /\ pending = [s \in Stoppers |-> {}]
  /\ aborted = FALSE
  /\ starved = {}
  /\ missed = {}

\* The signal handler has been entered and has not returned.
InHandler == spc["signal"] \notin {"idle", "done"}

\* Thread t may take a step of its own program: a handler suspends it.
Runs(t) == ~aborted /\ ~(InHandler /\ hthread = t)

\* The mutex that a thread takes at each of these places.
Needs(at) == CASE at \in {"register", "unregister"} -> "conns"
               [] at \in {"submit", "look", "block"} -> "pool"
               [] at \in {"hangup", "drain", "reply"} -> "posts"

At(t) == IF t = IO THEN iopc ELSE wpc[t]

\* lock_guard: thread t gets the mutex it needs where it is ...
Lock(t) ==
  /\ Runs(t)
  /\ At(t) \in {"register", "unregister", "submit", "look", "hangup", "drain", "reply"}
  /\ mutex[Needs(At(t))] = Free
  /\ mutex' = [mutex EXCEPT ![Needs(At(t))] = t]
  /\ UNCHANGED <<net, edge, server, stopping, loop, pool, stops>>

\* ... and gives it back at the end of the block.
Unlock(t, m) == mutex[m] = t /\ mutex' = [mutex EXCEPT ![m] = Free]
-----------------------------------------------------------------------------
(* The clients *)

\* A client connects: the kernel queues it and the listener has an edge.
Connect(c) ==
  /\ life[c] = "away"
  /\ listening
  /\ ~aborted
  /\ life' = [life EXCEPT ![c] = "backlog"]
  /\ edge' = edge \cup {"listener"}
  /\ UNCHANGED <<sent, unread, listening, starved, server, stopping, loop, mutex, pool, stops>>

\* A client sends its frame, or closes its end; a registered socket has an
\* edge, an unregistered one has it when reactor_->add() registers it.
Send(c, what) ==
  /\ life[c] \in {"backlog", "accepted", "open"}
  /\ sent[c] \cap {what, "eof"} = {}
  /\ ~aborted
  /\ sent' = [sent EXCEPT ![c] = @ \cup {what}]
  /\ unread' = [unread EXCEPT ![c] = @ \cup {what}]
  /\ edge' = IF life[c] = "open" THEN edge \cup {c} ELSE edge
  /\ UNCHANGED <<life, listening, starved, server, stopping, loop, mutex, pool, stops>>
-----------------------------------------------------------------------------
(* The event loop *)

\* The steps of the I/O thread that move between places of the loop only.
IoStep(from, to) ==
  /\ Runs(IO)
  /\ iopc = from
  /\ iopc' = to

\* while (!stopping_)
LoopTest ==
  /\ IoStep("loop", IF stopping THEN "returned" ELSE "wait")
  /\ UNCHANGED <<net, edge, server, stopping, work, mutex, pool, stops>>

\* epoll_wait() reports the events there are, each once (EPOLLET), in an
\* order of its own; with none it times out.
EpollWait ==
  /\ IoStep("wait", "dispatch")
  /\ batch' = edge
  /\ edge' = {}
  /\ UNCHANGED <<net, server, stopping, running, cur, mutex, pool, stops>>

\* It fails with another error than EINTR: run() returns.
EpollFails ==
  /\ IoStep("wait", "returned")
  /\ UNCHANGED <<net, edge, server, stopping, work, mutex, pool, stops>>

\* The next event of the batch: the wake descriptor, or the callback found
\* in cbs_ (the listener's and a closed connection's are gone from there).
Dispatch ==
  /\ Runs(IO)
  /\ iopc = "dispatch"
  /\ \/ /\ batch = {}
        /\ iopc' = "loop"
        /\ UNCHANGED <<batch, cur>>
     \/ \E e \in batch :
          /\ batch' = batch \ {e}
          /\ iopc' = CASE e = "wake" -> "drain"
                       [] e = "listener" /\ listening -> "accept"
                       [] e \in Conns /\ life[e] = "open" -> "read"
                       [] OTHER -> "dispatch"
          /\ cur' = IF e \in Conns THEN e ELSE cur
  /\ UNCHANGED <<net, edge, server, stopping, running, mutex, pool, stops>>
-----------------------------------------------------------------------------
(* Server::on_listen_event() *)

\* accept() yields a client; the loop ends when it fails: nobody waits, the
\* listener was closed by a handler, or another error (no descriptors left).
Accept ==
  /\ Runs(IO)
  /\ iopc = "accept"
  /\ \/ \E c \in Conns :
          /\ listening
          /\ life[c] = "backlog"
          /\ life' = [life EXCEPT ![c] = "accepted"]
          /\ cur' = c
          /\ iopc' = "register"
          /\ starved' = starved \ {c}
     \/ /\ iopc' = "dispatch"
        /\ starved' = starved \cup {c \in Conns : life[c] = "backlog"}
        /\ cur' = NoConn
        /\ UNCHANGED life
  /\ UNCHANGED <<sent, unread, listening, edge, server, stopping, batch, running, mutex, pool, stops>>

\* register_connection(), under mu_
Register ==
  /\ IoStep("register", "start")
  /\ conns' = conns \cup {cur}
  /\ Unlock(IO, "conns")
  /\ UNCHANGED <<net, edge, closing, posts, stopping, work, pool, stops>>

StartAs(next) ==
  /\ IoStep("start", next)
  /\ life' = [life EXCEPT ![cur] = "open"]
  /\ edge' = IF unread[cur] # {} THEN edge \cup {cur} ELSE edge
  /\ UNCHANGED <<sent, unread, listening, starved, server, stopping, work, mutex, pool, stops>>

\* Mutant: one accept() per event, as with a level-triggered listener.
StartOnce == StartAs("dispatch")

\* on_connect() only logs; start() registers the socket, and accept() is
\* tried again.
Start == StartAs("accept")
-----------------------------------------------------------------------------
(* Connection::on_readable(), as far as it reaches the pool and the posts  *)

\* recv(): a frame goes to submit(), which first looks at stopping_ without
\* the lock; the end of input goes to schedule_close(); EAGAIN returns.
Read ==
  /\ Runs(IO)
  /\ iopc = "read"
  /\ \/ /\ "frame" \in unread[cur]
        /\ unread' = [unread EXCEPT ![cur] = @ \ {"frame"}]
        /\ iopc' = IF draining THEN "read" ELSE "submit"
        /\ UNCHANGED closing
     \/ /\ unread[cur] = {"eof"}
        /\ unread' = [unread EXCEPT ![cur] = {}]
        /\ closing' = closing \cup {cur}
        /\ iopc' = IF cur \in closing THEN "dispatch" ELSE "hangup"
     \/ /\ unread[cur] = {}
        /\ iopc' = "dispatch"
        /\ UNCHANGED <<sent, unread, closing>>
  /\ UNCHANGED <<life, sent, listening, starved, edge, conns, posts, stopping, work, mutex, pool, stops>>

\* The second look at stopping_, the push, and notify_one().
Submit ==
  /\ IoStep("submit", "read")
  /\ Unlock(IO, "pool")
  /\ IF draining
       THEN UNCHANGED <<queue, wpc>>
       ELSE /\ queue' = queue \cup {cur}
            /\ \/ \E w \in Workers :
                    /\ wpc[w] = "waiting"
                    /\ wpc' = [wpc EXCEPT ![w] = "look"]
               \/ /\ \A w \in Workers : wpc[w] # "waiting"
                  /\ UNCHANGED wpc
  /\ UNCHANGED <<net, edge, server, stopping, work, draining, missed, stops>>

\* schedule_close() posts deliver_close() and wakes the loop.
HangUp ==
  /\ IoStep("hangup", "dispatch")
  /\ posts' = posts \cup {cur}
  /\ edge' = edge \cup {"wake"}
  /\ Unlock(IO, "posts")
  /\ UNCHANGED <<net, conns, closing, stopping, work, pool, stops>>
-----------------------------------------------------------------------------
(* drain_posts() *)

Swap ==
  /\ IoStep("drain", "closures")
  /\ running' = posts
  /\ posts' = {}
  /\ Unlock(IO, "posts")
  /\ UNCHANGED <<net, edge, conns, closing, stopping, batch, cur, pool, stops>>

\* deliver_close(): the socket leaves the reactor and is closed; on_close()
\* goes on to unregister_connection().  With no closure left, the next event.
DeliverCloseAs(next) ==
  /\ Runs(IO)
  /\ iopc = "closures"
  /\ \/ /\ running = {}
        /\ iopc' = "dispatch"
        /\ UNCHANGED <<life, edge, running, cur>>
     \/ \E c \in running :
          /\ running' = running \ {c}
          /\ cur' = c
          /\ life' = [life EXCEPT ![c] = "closed"]
          /\ edge' = edge \ {c}
          /\ iopc' = next
  /\ UNCHANGED <<sent, unread, listening, starved, server, stopping, batch, mutex, pool, stops>>

\* Mutant: the connection stays in conns_ once it is closed.
DeliverCloseOnly == DeliverCloseAs("closures")

DeliverClose == DeliverCloseAs("unregister")

Unregister ==
  /\ IoStep("unregister", "closures")
  /\ conns' = conns \ {cur}
  /\ Unlock(IO, "conns")
  /\ UNCHANGED <<net, edge, closing, posts, stopping, work, pool, stops>>
-----------------------------------------------------------------------------
(* worker_loop() *)

WorkerStep(w, from, to) ==
  /\ Runs(w)
  /\ wpc[w] = from
  /\ wpc' = [wpc EXCEPT ![w] = to]

WorkerTestAs(w, quits) ==
  /\ mutex["pool"] = w
  /\ \/ /\ quits
        /\ WorkerStep(w, "look", "exited")
        /\ Unlock(w, "pool")
        /\ UNCHANGED queue
     \/ /\ ~quits
        /\ queue = {}
        /\ WorkerStep(w, "look", "block")
        /\ UNCHANGED <<mutex, queue>>
     \/ /\ ~quits
        /\ WorkerStep(w, "look", "task")
        /\ Unlock(w, "pool")
        /\ \E f \in queue : queue' = queue \ {f}
  /\ UNCHANGED <<net, edge, server, stopping, loop, draining, missed, stops>>

\* Mutant: a stopping pool drops what is still queued.
WorkerQuits(w) == WorkerTestAs(w, draining)

\* With mu_ held, the predicate of cv_.wait(): quit, be about to block, or take
\* a task.
WorkerTest(w) == WorkerTestAs(w, draining /\ queue = {})

\* cv_.wait() releases mu_ and sleeps, in one step.
Block(w) ==
  /\ WorkerStep(w, "block", "waiting")
  /\ Unlock(w, "pool")
  /\ UNCHANGED <<net, edge, server, stopping, loop, queue, draining, missed, stops>>

\* A task dispatches the frame and may answer: send_frame() posts a flush.
Task(w) ==
  /\ \/ WorkerStep(w, "task", "reply")
     \/ WorkerStep(w, "task", "look")
  /\ UNCHANGED <<net, edge, server, stopping, loop, mutex, queue, draining, missed, stops>>

Reply(w) ==
  /\ WorkerStep(w, "reply", "look")
  /\ Unlock(w, "posts")
  /\ edge' = edge \cup {"wake"}
  /\ UNCHANGED <<net, server, stopping, loop, queue, draining, missed, stops>>
-----------------------------------------------------------------------------
(* ChatServer::stop(), called by the signal handler and by ~ChatServer     *)

\* SIGINT or SIGTERM reaches thread t (once).  epoll_wait() is interrupted:
\* it will return EINTR and the loop starts over.
Signal(t) ==
  /\ ~aborted
  /\ spc["signal"] = "idle"
  /\ IF t = IO THEN iopc \notin {"returned", "destroyed"} ELSE wpc[t] # "exited"
  /\ iopc # "destroyed"
  /\ hthread' = t
  /\ spc' = [spc EXCEPT !["signal"] = "listener"]
  /\ iopc' = IF t = IO /\ iopc = "wait" THEN "loop" ELSE iopc
  /\ UNCHANGED <<net, edge, server, stopping, work, mutex, pool, closes, aborted>>

\* run() has returned: ~ChatServer calls stop().
Destruct ==
  /\ Runs(IO)
  /\ iopc = "returned"
  /\ spc["main"] = "idle"
  /\ spc' = [spc EXCEPT !["main"] = "listener"]
  /\ UNCHANGED <<net, edge, server, stopping, loop, mutex, pool, hthread, closes, aborted>>

\* A call of stop() goes from one place to the next.
StopStep(s, from, to) ==
  /\ ~aborted
  /\ s = "main" => Runs(IO)
  /\ spc[s] = from
  /\ spc' = [spc EXCEPT ![s] = to]
  /\ UNCHANGED <<hthread, aborted>>

\* The listener leaves the reactor and is closed; waiting clients are reset.
StopListening(s) ==
  /\ StopStep(s, "listener", "snapshot")
  /\ listening' = FALSE
  /\ edge' = edge \ {"listener"}
  /\ life' = [c \in Conns |-> IF life[c] = "backlog" THEN "closed" ELSE life[c]]
  /\ starved' = {}
  /\ UNCHANGED <<sent, unread, server, stopping, loop, mutex, pool, closes>>

\* Under mu_, conns_ moves to the snapshot.
Snapshot(s) ==
  /\ StopStep(s, "snapshot", "close")
  /\ mutex["conns"] = Free
  /\ snap' = [snap EXCEPT ![s] = conns]
  /\ conns' = {}
  /\ UNCHANGED <<net, edge, closing, posts, stopping, loop, mutex, pool, pending>>

\* c->close() sets closing_ ...
CloseOne(s) ==
  \E c \in snap[s] :
    /\ pending[s] = {}
    /\ StopStep(s, "close", "close")
    /\ snap' = [snap EXCEPT ![s] = @ \ {c}]
    /\ closing' = closing \cup {c}
    /\ pending' = [pending EXCEPT ![s] = {c} \ closing]
    /\ UNCHANGED <<net, edge, conns, posts, stopping, loop, mutex, pool>>

\* ... and, if it was not set before, posts deliver_close() under post_mu_.
PostClose(s) ==
  /\ pending[s] # {}
  /\ StopStep(s, "close", "close")
  /\ mutex["posts"] = Free
  /\ posts' = posts \cup pending[s]
  /\ edge' = edge \cup {"wake"}
  /\ pending' = [pending EXCEPT ![s] = {}]
  /\ UNCHANGED <<net, conns, closing, stopping, loop, mutex, pool, snap>>

AllClosed(s) ==
  /\ StopStep(s, "close", "reactor")
  /\ snap[s] = {} /\ pending[s] = {}
  /\ UNCHANGED <<net, edge, server, stopping, loop, mutex, pool, closes>>

\* Reactor::stop()
StopReactor(s) ==
  /\ StopStep(s, "reactor", "pool")
  /\ stopping' = TRUE
  /\ edge' = edge \cup {"wake"}
  /\ UNCHANGED <<net, server, loop, mutex, pool, closes>>

\* ThreadPool::shutdown(): stopping_ ...
StopPool(s) ==
  /\ StopStep(s, "pool", "notify")
  /\ draining' = TRUE
  /\ UNCHANGED <<net, edge, server, stopping, loop, mutex, queue, wpc, missed, closes>>

NotifyAs(s, woken) ==
  /\ StopStep(s, "notify", "join")
  /\ wpc' = [w \in Workers |-> IF w \in woken THEN "look" ELSE wpc[w]]
  /\ missed' = missed \cup {w \in Workers : wpc[w] = "block"}
  /\ UNCHANGED <<net, edge, server, stopping, loop, mutex, queue, draining, closes>>

\* Mutant: shutdown() does not notify.
NotifyNobody(s) == NotifyAs(s, {})

\* ... notify_all(), without mu_ ...
NotifyAll(s) == NotifyAs(s, {w \in Workers : wpc[w] = "waiting"})

\* ... and join() of every worker.
Join(s) ==
  /\ StopStep(s, "join", "done")
  /\ \A w \in Workers : wpc[w] = "exited"
  /\ UNCHANGED <<net, edge, server, stopping, loop, mutex, pool, closes>>

\* A worker that runs the handler comes to join itself: join() throws, and
\* nothing catches it in the handler.
JoinItself ==
  /\ ~aborted
  /\ spc["signal"] = "join"
  /\ hthread \in Workers
  /\ aborted' = TRUE
  /\ UNCHANGED <<net, edge, server, stopping, loop, mutex, pool, hthread, spc, closes>>

\* The members of ChatServer are destroyed and main() returns.
Destroy ==
  /\ IoStep("returned", "destroyed")
  /\ spc["main"] = "done"
  /\ UNCHANGED <<net, edge, server, stopping, work, mutex, pool, stops>>
-----------------------------------------------------------------------------
Stop(s) ==
  \/ StopListening(s) \/ Snapshot(s) \/ CloseOne(s) \/ PostClose(s)
  \/ AllClosed(s) \/ StopReactor(s) \/ StopPool(s) \/ NotifyAll(s) \/ Join(s)

Io ==
  \/ LoopTest \/ EpollWait \/ EpollFails \/ Dispatch
  \/ Lock(IO)
  \/ Accept \/ Register \/ Start
  \/ Read \/ Submit \/ HangUp
  \/ Swap \/ DeliverClose \/ Unregister
  \/ Destruct \/ Destroy

Worker(w) ==
  Lock(w) \/ WorkerTest(w) \/ Block(w) \/ Task(w) \/ Reply(w)

Next ==
  \/ \E c \in Conns : Connect(c)
  \/ \E c \in Conns, what \in {"frame", "eof"} : Send(c, what)
  \/ Io
  \/ \E w \in Workers : Worker(w)
  \/ \E t \in Threads : Signal(t)
  \/ \E s \in Stoppers : Stop(s)
  \/ JoinItself

Spec == Init /\ [][Next]_vars
-----------------------------------------------------------------------------
\* Until somebody calls stop(), conns_ holds every open connection, so that
\* stop() will reach it, and no closed one, so that a closed connection can be
\* freed; only the connection whose on_close callback is running may lag
\* (register_connection, unregister_connection).
RegistryIsExact ==
  (\A s \in Stoppers : spc[s] = "idle") =>
    \A c \in Conns :
      /\ life[c] = "open" => c \in conns
      /\ c \in conns /\ life[c] = "closed" =>
           cur = c /\ iopc = "unregister"

\* When main() destroys the server no worker is left that could touch it, every
\* frame submit() accepted has been dispatched, and the close of every open
\* connection has been posted, wherever the signal found the threads: also of
\* a connection that was between accept() and register_connection() when the
\* handler took its snapshot (ThreadPool::shutdown; the stop() of ~ChatServer).
TeardownIsComplete ==
  iopc = "destroyed" =>
    /\ queue = {}
    /\ \A w \in Workers : wpc[w] = "exited"
    /\ \A c \in Conns : life[c] \in {"accepted", "open"} => c \in posts

\* stop() is held up for ever only by the thread its handler suspends, or by a
\* worker that notify_all(), called without mu_, found between the predicate
\* and the sleep: a mutex is held only by a thread whose next steps give it
\* back, and any other worker that stop() has come to join is awake
\* (on_signal, Server::stop, ThreadPool::shutdown).
StopWaitsForSteps ==
  /\ \A m \in Mutexes : mutex[m] # Free => Needs(At(mutex[m])) = m
  /\ \A s \in Stoppers, w \in Workers :
       spc[s] = "join" /\ wpc[w] \in {"block", "waiting"} => w \in missed

\* A client in the listen queue is about to be accepted: an event of the
\* listener is still to come or to be handled, or the accept loop is running,
\* though an edge-triggered listener reports several clients only once.  Only
\* a client that was waiting when accept() failed may be left without.
WaitingIsAnnounced ==
  \A c \in Conns :
    life[c] = "backlog" /\ c \notin starved =>
      "listener" \in edge \cup batch \/ iopc \in {"accept", "register", "start"}
-----------------------------------------------------------------------------
(* What the documentation says and the code does not do.                   *)

\* What include/net/server.h promises of stop(): by the end of the process
\* every live connection was torn down, that is, deliver_close() ran for it
\* and with it on_close, which unbinds the user and stamps last_seen_at.
AllTornDown ==
  iopc = "destroyed" => \A c \in Conns : life[c] \in {"away", "closed"}

\* What README.md promises of the process: it shuts down gracefully.  The
\* handler never waits for a mutex its own thread holds, and the process is
\* not terminated by an exception.
ShutdownIsGraceful ==
  /\ ~aborted
  /\ InHandler =>
       /\ spc["signal"] = "snapshot" => mutex["conns"] # hthread
       /\ pending["signal"] # {} => mutex["posts"] # hthread
       /\ spc["signal"] = "join" => mutex["pool"] # hthread
=============================================================================
