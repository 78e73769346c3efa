----------------------------- MODULE ThreadPool -----------------------------
(***************************************************************************)
(* The worker pool of src/common/thread_pool.cpp.  Every access to mu_,    *)
(* cv_ and the atomic stopping_ that another thread can observe is a step. *)
(* The body of a task is one step: it always returns, because worker_loop  *)
(* swallows what it throws.                                                *)
(***************************************************************************)
EXTENDS Integers, Sequences, Functions

CONSTANTS
  Workers,  \* the threads started by the constructor
  Callers,  \* threads that call submit()
  Tasks,    \* the tasks they submit, each one once
  Nobody,   \* mu_ is free
  NoTask    \* a caller or a worker has no task in hand

\* The constructor starts at least one worker (n == 0 becomes 1).
ASSUME ThreadAssumption ==
  /\ Workers # {}
  /\ Workers \cap Callers = {}
  /\ Nobody \notin Workers \cup Callers
  /\ NoTask \notin Tasks

VARIABLES
  mu,        \* the thread that holds mu_
  q,         \* q_
  stopping,  \* stopping_
  wpc,       \* where each worker is in worker_loop()
  wtask,     \* job: the task a worker took
  cpc,       \* where each caller is in submit()
  ctask,     \* the argument of a caller's submit()
  spc,       \* where the thread calling shutdown() is
  st,        \* what became of each task
  accepted,  \* history: tasks in the order submit() pushed them
  started    \* history: tasks in the order workers popped them

poolState == <<mu, q, stopping>>
vars == <<mu, q, stopping, wpc, wtask, cpc, ctask, spc, st, accepted, started>>

WorkerPc == {"lock", "test", "block", "waiting", "take", "run", "exited"}
CallerPc == {"idle", "lock", "push", "notify"}
StopperPc == {"idle", "notify", "join", "returned"}
TaskState == {"fresh", "offered", "queued", "running", "done", "rejected"}

TypeOK ==
  /\ mu \in Workers \cup Callers \cup {Nobody}
  /\ q \in Seq(Tasks)
  /\ stopping \in BOOLEAN
  /\ wpc \in [Workers -> WorkerPc]
  /\ wtask \in [Workers -> Tasks \cup {NoTask}]
  /\ cpc \in [Callers -> CallerPc]
  /\ ctask \in [Callers -> Tasks \cup {NoTask}]
  /\ spc \in StopperPc
  /\ st \in [Tasks -> TaskState]
  /\ accepted \in Seq(Tasks)
  /\ started \in Seq(Tasks)

Init ==
  /\ mu = Nobody
  /\ q = << >>
  /\ stopping = FALSE
  /\ wpc = [w \in Workers |-> "lock"]
  /\ wtask = [w \in Workers |-> NoTask]
  /\ cpc = [c \in Callers |-> "idle"]
  /\ ctask = [c \in Callers |-> NoTask]
  /\ spc = "idle"
  /\ st = [t \in Tasks |-> "fresh"]
  /\ accepted = << >>
  /\ started = << >>
-----------------------------------------------------------------------------
(* submit() *)

\* The first, unlocked look at stopping_: a stopping pool rejects at once.
Submit(c, t) ==
  /\ cpc[c] = "idle"
  /\ st[t] = "fresh"
  /\ IF stopping
       THEN /\ st' = [st EXCEPT ![t] = "rejected"]
            /\ UNCHANGED <<cpc, ctask>>
       ELSE /\ st' = [st EXCEPT ![t] = "offered"]
            /\ cpc' = [cpc EXCEPT ![c] = "lock"]
            /\ ctask' = [ctask EXCEPT ![c] = t]
  /\ UNCHANGED <<poolState, wpc, wtask, spc, accepted, started>>

\* mu_ is taken and stopping_ looked at again, now with mu_ held.
SubmitLock(c) ==
  /\ cpc[c] = "lock"
  /\ mu = Nobody
  /\ IF stopping
       THEN /\ st' = [st EXCEPT ![ctask[c]] = "rejected"]
            /\ cpc' = [cpc EXCEPT ![c] = "idle"]
            /\ ctask' = [ctask EXCEPT ![c] = NoTask]
            /\ UNCHANGED mu
       ELSE /\ cpc' = [cpc EXCEPT ![c] = "push"]
            /\ mu' = c
            /\ UNCHANGED <<st, ctask>>
  /\ UNCHANGED <<q, stopping, wpc, wtask, spc, accepted, started>>

\* queue_.push, and mu_ is released.
SubmitPush(c) ==
  /\ cpc[c] = "push"
  /\ q' = Append(q, ctask[c])
  /\ accepted' = Append(accepted, ctask[c])
  /\ st' = [st EXCEPT ![ctask[c]] = "queued"]
  /\ cpc' = [cpc EXCEPT ![c] = "notify"]
  /\ mu' = Nobody
  /\ UNCHANGED <<stopping, wpc, wtask, ctask, spc, started>>

\* One of `sleepers` is woken, if there is one; submit() returns true.
WakeOneOf(c, sleepers) ==
  /\ cpc[c] = "notify"
  /\ cpc' = [cpc EXCEPT ![c] = "idle"]
  /\ ctask' = [ctask EXCEPT ![c] = NoTask]
  /\ \/ \E w \in sleepers : wpc' = [wpc EXCEPT ![w] = "lock"]
     \/ sleepers = {} /\ UNCHANGED wpc
  /\ UNCHANGED <<poolState, wtask, spc, st, accepted, started>>

\* Mutant: no notification after the push.
SubmitNoNotify(c) == WakeOneOf(c, {})

\* cv_.notify_one(), after mu_ was released.
SubmitNotify(c) == WakeOneOf(c, {w \in Workers : wpc[w] = "waiting"})
-----------------------------------------------------------------------------
(* worker_loop() *)

WorkerLock(w) ==
  /\ wpc[w] = "lock"
  /\ mu = Nobody
  /\ mu' = w
  /\ wpc' = [wpc EXCEPT ![w] = "test"]
  /\ UNCHANGED <<q, stopping, wtask, cpc, ctask, spc, st, accepted, started>>

\* Mutant: the predicate looks at the queue only.
WorkerTestQueue(w) ==
  /\ wpc[w] = "test"
  /\ wpc' = [wpc EXCEPT ![w] = IF q # << >> THEN "take" ELSE "block"]
  /\ UNCHANGED <<poolState, wtask, cpc, ctask, spc, st, accepted, started>>

\* The predicate of cv_.wait(), with mu_ held.
WorkerTest(w) ==
  /\ wpc[w] = "test"
  /\ wpc' = [wpc EXCEPT ![w] = IF stopping \/ q # << >> THEN "take" ELSE "block"]
  /\ UNCHANGED <<poolState, wtask, cpc, ctask, spc, st, accepted, started>>

\* cv_.wait() releases mu_ and blocks, in one step.
WorkerBlock(w) ==
  /\ wpc[w] = "block"
  /\ wpc' = [wpc EXCEPT ![w] = "waiting"]
  /\ mu' = Nobody
  /\ UNCHANGED <<q, stopping, wtask, cpc, ctask, spc, st, accepted, started>>

\* A condition variable may wake a thread that nobody notified.
SpuriousWakeup(w) ==
  /\ wpc[w] = "waiting"
  /\ wpc' = [wpc EXCEPT ![w] = "lock"]
  /\ UNCHANGED <<poolState, wtask, cpc, ctask, spc, st, accepted, started>>

\* With mu_ held: the worker ends (or loops, when the pool is not stopping) if
\* `nothing` holds, and pops the oldest task otherwise; mu_ is released.
TakeUnless(w, nothing) ==
  /\ wpc[w] = "take"
  /\ mu' = Nobody
  /\ IF nothing
       THEN /\ wpc' = [wpc EXCEPT ![w] = IF stopping THEN "exited" ELSE "lock"]
            /\ UNCHANGED <<q, wtask, st, started>>
       ELSE /\ wpc' = [wpc EXCEPT ![w] = "run"]
            /\ wtask' = [wtask EXCEPT ![w] = Head(q)]
            /\ q' = Tail(q)
            /\ st' = [st EXCEPT ![Head(q)] = "running"]
            /\ started' = Append(started, Head(q))
  /\ UNCHANGED <<stopping, cpc, ctask, spc, accepted>>

\* Mutant: a stopping pool ends its workers without draining the queue.
WorkerTakeHasty(w) == TakeUnless(w, stopping \/ q = << >>)

WorkerTake(w) == TakeUnless(w, q = << >>)

WorkerRun(w) ==
  /\ wpc[w] = "run"
  /\ wpc' = [wpc EXCEPT ![w] = "lock"]
  /\ wtask' = [wtask EXCEPT ![w] = NoTask]
  /\ st' = [st EXCEPT ![wtask[w]] = "done"]
  /\ UNCHANGED <<poolState, cpc, ctask, spc, accepted, started>>
-----------------------------------------------------------------------------
(* shutdown(), which may be called again once it has returned *)

\* The compare-and-swap of stopping_, without mu_; failing it changes nothing.
ShutdownBegin ==
  /\ spc \in {"idle", "returned"}
  /\ stopping' = TRUE
  /\ spc' = "notify"
  /\ UNCHANGED <<mu, q, wpc, wtask, cpc, ctask, st, accepted, started>>

ShutdownNotifyAll ==
  /\ spc = "notify"
  /\ wpc' = [w \in Workers |-> IF wpc[w] = "waiting" THEN "lock" ELSE wpc[w]]
  /\ spc' = "join"
  /\ UNCHANGED <<poolState, wtask, cpc, ctask, st, accepted, started>>

\* Mutant: one worker is joined.
ShutdownJoinOne ==
  /\ spc = "join"
  /\ \E w \in Workers : wpc[w] = "exited"
  /\ spc' = "returned"
  /\ UNCHANGED <<poolState, wpc, wtask, cpc, ctask, st, accepted, started>>

\* The joins, one worker after another, end when the last worker has ended.
ShutdownJoinAll ==
  /\ spc = "join"
  /\ \A w \in Workers : wpc[w] = "exited"
  /\ spc' = "returned"
  /\ UNCHANGED <<poolState, wpc, wtask, cpc, ctask, st, accepted, started>>
-----------------------------------------------------------------------------
CallerStep(c) == SubmitLock(c) \/ SubmitPush(c) \/ SubmitNotify(c)

WorkerStep(w) ==
  WorkerLock(w) \/ WorkerTest(w) \/ WorkerBlock(w) \/ WorkerTake(w) \/ WorkerRun(w)

Next ==
  \/ \E c \in Callers, t \in Tasks : Submit(c, t)
  \/ \E c \in Callers : CallerStep(c)
  \/ \E w \in Workers : WorkerStep(w) \/ SpuriousWakeup(w)
  \/ ShutdownBegin
  \/ ShutdownNotifyAll
  \/ ShutdownJoinAll

Spec == Init /\ [][Next]_vars

\* The operating system runs every thread that can run; nobody has to call
\* submit() or shutdown(), and no wakeup is owed without a notification.
Fairness ==
  /\ \A c \in Callers : WF_vars(CallerStep(c))
  /\ \A w \in Workers : WF_vars(WorkerStep(w))
  /\ WF_vars(ShutdownNotifyAll \/ ShutdownJoinAll)

FairSpec == Spec /\ Fairness
-----------------------------------------------------------------------------
(* Properties *)

\* shutdown() is graceful: when it returns, no accepted task is still queued or
\* running, whatever submit() calls raced with it (thread_pool.cpp lines 16-20
\* and 49-50).
DrainedAtReturn ==
  spc = "returned" => q = << >> /\ \A t \in Tasks : st[t] \notin {"queued", "running"}

\* The queue is FIFO across callers and workers: tasks start in exactly the
\* order in which submit() pushed them (lines 20 and 53-54).
StartsInOrder == accepted = started \o q

\* From the moment one worker has returned from worker_loop(), submit() accepts
\* nothing: nobody can slip a task in behind the workers' backs (lines 16-20).
NothingAcceptedAfterExit ==
  [][(\E w \in Workers : wpc[w] = "exited") => accepted' = accepted]_vars

\* Every accepted task is run to its end, even when shutdown() misses a worker
\* that is about to block: no wakeup a task needs is lost (lines 22 and 48).
AcceptedTaskRuns == \A t \in Tasks : st[t] = "queued" ~> st[t] = "done"

\* The one way for shutdown() to hang is a worker that its notification missed:
\* if no worker is asleep or about to block once it has notified, it returns
\* (lines 33-39 and 48).
ShutdownReturnsUnlessMissed ==
  (spc = "join" /\ \A w \in Workers : wpc[w] \notin {"block", "waiting"}) ~> spc = "returned"

\* The pool keeps the promise of TaskPool: it is closed when all workers ended.
Promise == INSTANCE TaskPool WITH
  pending <- q,
  executing <- {t \in Tasks : st[t] = "running"},
  finished <- {t \in Tasks : st[t] = "done"},
  closed <- \A w \in Workers : wpc[w] = "exited"

KeepsPromise == Promise!PoolSpec
-----------------------------------------------------------------------------
(* What the documentation says and the code does not do                    *)

\* thread_pool.h line 31: shutdown() "blocks until workers join", so a call of
\* shutdown() returns.
ShutdownReturns == spc = "notify" ~> spc = "returned"
=============================================================================
