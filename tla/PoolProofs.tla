----------------------------- MODULE PoolProofs -----------------------------
(***************************************************************************)
(* The two pools.  ThreadPool, for any number of workers, callers and      *)
(* tasks: shutdown() leaves no accepted task behind, tasks start in order, *)
(* and ThreadPool implements TaskPool.  MysqlPool, for any number of       *)
(* workers and connections, and however often the server goes away: a      *)
(* connection is lent to one caller at a time and none disappears          *)
(* unnoticed; and nobody sleeps beside an idle connection that no caller   *)
(* is about to look at.                                                    *)
(***************************************************************************)
EXTENDS ThreadPool, MysqlPool, TLAPS

\* Whoever is inside a critical section holds mu_.
Mutex ==
  /\ \A w \in Workers : wpc[w] \in {"test", "block", "take"} => mu = w
  /\ \A c \in Callers : cpc[c] = "push" => mu = c

\* A task in a caller's or a worker's hands is in no other hands.
Hands ==
  /\ \A c \in Callers : cpc[c] \in {"lock", "push"} =>
       ctask[c] \in Tasks /\ st[ctask[c]] = "offered"
  /\ \A c, d \in Callers :
       cpc[c] \in {"lock", "push"} /\ cpc[d] \in {"lock", "push"} /\ ctask[c] = ctask[d]
         => c = d
  /\ \A w \in Workers : wpc[w] = "run" => wtask[w] \in Tasks /\ st[wtask[w]] = "running"
  /\ \A v, w \in Workers :
       wpc[v] = "run" /\ wpc[w] = "run" /\ wtask[v] = wtask[w] => v = w
  /\ \A t \in Tasks : st[t] = "running" => \E w \in Workers : wpc[w] = "run" /\ wtask[w] = t

\* q_ holds exactly the queued tasks, each of them once.
Queued ==
  /\ \A i \in 1..Len(q) : st[q[i]] = "queued"
  /\ \A i, j \in 1..Len(q) : q[i] = q[j] => i = j
  /\ \A t \in Tasks : st[t] = "queued" => \E i \in 1..Len(q) : q[i] = t

\* Once a worker has ended, the queue is empty and no caller is about to push.
Ended ==
  (\E w \in Workers : wpc[w] = "exited")
    => stopping /\ q = << >> /\ \A c \in Callers : cpc[c] # "push"

Returned == spc = "returned" => \A w \in Workers : wpc[w] = "exited"

IInv == TypeOK /\ Mutex /\ Hands /\ Queued /\ Ended /\ Returned /\ StartsInOrder
-----------------------------------------------------------------------------
(* Sequences *)

\* Append lengthens a sequence by its last element.
LEMMA AppendFacts ==
  ASSUME NEW S, NEW s \in Seq(S), NEW e \in S
  PROVE  /\ Append(s, e) \in Seq(S)
         /\ Len(Append(s, e)) = Len(s) + 1
         /\ \A i \in 1..Len(s) : Append(s, e)[i] = s[i]
         /\ Append(s, e)[Len(s) + 1] = e
OBVIOUS

\* A sequence without repetitions stays so when what is appended was not in it.
LEMMA AppendDistinct ==
  ASSUME NEW S, NEW s \in Seq(S), NEW e \in S,
         \A i, j \in 1..Len(s) : s[i] = s[j] => i = j,
         \A i \in 1..Len(s) : s[i] # e
  PROVE  \A i, j \in 1..Len(Append(s, e)) : Append(s, e)[i] = Append(s, e)[j] => i = j
<1>1. \A i \in 1..Len(Append(s, e)) : \/ i \in 1..Len(s) /\ Append(s, e)[i] = s[i]
                                      \/ i = Len(s) + 1 /\ Append(s, e)[i] = e
  BY AppendFacts
<1> QED  BY <1>1

\* Head and Tail take the first element off a sequence.
LEMMA TailFacts ==
  ASSUME NEW S, NEW s \in Seq(S), s # << >>
  PROVE  /\ Head(s) \in S
         /\ Head(s) = s[1]
         /\ Tail(s) \in Seq(S)
         /\ Len(s) \in Nat \ {0}
         /\ Len(Tail(s)) = Len(s) - 1
         /\ \A i \in 1..Len(Tail(s)) : Tail(s)[i] = s[i + 1]
OBVIOUS

\* Moving the head of the second sequence to the end of the first keeps their concatenation.
LEMMA ShiftConcat ==
  ASSUME NEW S, NEW r \in Seq(S), NEW s \in Seq(S), s # << >>
  PROVE  Append(r, Head(s)) \o Tail(s) = r \o s
OBVIOUS

\* Appending to the second of two sequences appends to their concatenation.
LEMMA AppendConcat ==
  ASSUME NEW S, NEW r \in Seq(S), NEW s \in Seq(S), NEW e \in S
  PROVE  r \o Append(s, e) = Append(r \o s, e)
OBVIOUS
-----------------------------------------------------------------------------
\* A pool just constructed satisfies the invariant.
LEMMA InitIInv == Init => IInv
<1> SUFFICES ASSUME Init PROVE IInv
  OBVIOUS
<1>1. TypeOK
  <2>1. q \in Seq(Tasks) /\ accepted \in Seq(Tasks) /\ started \in Seq(Tasks)
    BY DEF Init
  <2>2. wpc \in [Workers -> WorkerPc] /\ cpc \in [Callers -> CallerPc]
    BY DEF Init, WorkerPc, CallerPc
  <2>3. st \in [Tasks -> TaskState] /\ spc \in StopperPc
    BY DEF Init, TaskState, StopperPc
  <2>4. wtask \in [Workers -> Tasks \cup {NoTask}] /\ ctask \in [Callers -> Tasks \cup {NoTask}]
    BY DEF Init
  <2> QED
    BY <2>1, <2>2, <2>3, <2>4, ZenonT(40) DEF Init, TypeOK
<1>2. Mutex /\ Hands /\ Ended /\ Returned
  BY DEF Init, Mutex, Hands, Ended, Returned
<1>3. Queued
  BY DEF Init, Queued
<1>4. StartsInOrder
  BY DEF Init, StartsInOrder
<1> QED
  BY <1>1, <1>2, <1>3, <1>4 DEF IInv

\* Every step of a caller of submit, of a worker_loop and of shutdown keeps the
\* invariant.
LEMMA StepIInv == IInv /\ [Next]_vars => IInv'
<1> SUFFICES ASSUME IInv, [Next]_vars PROVE IInv'
  OBVIOUS
<1> USE ThreadAssumption DEF IInv, TypeOK, WorkerPc, CallerPc, StopperPc, TaskState
<1>1. ASSUME NEW c \in Callers, NEW t \in Tasks, Submit(c, t) PROVE IInv'
  <2>1. Hands'
    <3>1. CASE stopping
      <4>1. /\ st[t] = "fresh" /\ st' = [st EXCEPT ![t] = "rejected"]
            /\ UNCHANGED <<cpc, ctask, wpc, wtask>>
        BY <1>1, <3>1 DEF Submit
      <4>2. \A s \in Tasks : st[s] \in {"offered", "running"} \/ st'[s] \in {"offered", "running"} => st'[s] = st[s]
        BY <4>1
      <4> QED
        BY <4>1, <4>2 DEF Hands
    <3>2. CASE ~stopping
      <4>1. /\ st[t] = "fresh" /\ st' = [st EXCEPT ![t] = "offered"] /\ cpc[c] = "idle"
            /\ cpc' = [cpc EXCEPT ![c] = "lock"] /\ ctask' = [ctask EXCEPT ![c] = t]
            /\ UNCHANGED <<wpc, wtask>>
        BY <1>1, <3>2 DEF Submit
      <4>2. \A d \in Callers : d # c /\ cpc'[d] \in {"lock", "push"} =>
              /\ cpc[d] \in {"lock", "push"} /\ ctask'[d] = ctask[d]
              /\ ctask[d] # t /\ st'[ctask[d]] = "offered" /\ ctask[d] \in Tasks
        BY <4>1 DEF Hands
      <4>3. cpc'[c] = "lock" /\ ctask'[c] = t /\ st'[t] = "offered"
        BY <4>1
      <4>4. \A d \in Callers : cpc'[d] \in {"lock", "push"} =>
              ctask'[d] \in Tasks /\ st'[ctask'[d]] = "offered"
        BY <4>2, <4>3
      <4>5. \A d, e \in Callers :
              cpc'[d] \in {"lock", "push"} /\ cpc'[e] \in {"lock", "push"} /\ ctask'[d] = ctask'[e]
                => d = e
        BY <4>2, <4>3 DEF Hands
      <4> QED
        BY <4>1, <4>4, <4>5 DEF Hands
    <3> QED BY <3>1, <3>2
  <2>2. TypeOK'
    BY <1>1 DEF Submit, poolState
  <2>3. Mutex' /\ Ended' /\ Returned' /\ StartsInOrder'
    BY <1>1 DEF Mutex, Ended, Returned, StartsInOrder, Submit, poolState
  <2>4. Queued'
    <3>1. st[t] = "fresh" /\ st'[t] # "queued" /\ q' = q /\ \A s \in Tasks \ {t} : st'[s] = st[s]
      BY <1>1 DEF Submit, poolState
    <3>2. \A i \in 1..Len(q) : q[i] \in Tasks /\ q[i] # t
      <4>1. q \in Seq(Tasks)
        BY DEF TypeOK
      <4>2. \A i \in 1..Len(q) : q[i] \in Tasks
        BY ONLY <4>1
      <4> QED
        BY <3>1, <4>2, Zenon DEF Queued
    <3>3. /\ \A i \in 1..Len(q') : st'[q'[i]] = "queued"
          /\ \A i, j \in 1..Len(q') : q'[i] = q'[j] => i = j
      BY <3>1, <3>2 DEF Queued
    <3>4. \A s \in Tasks : st'[s] = "queued" => \E i \in 1..Len(q') : q'[i] = s
      BY <3>1 DEF Queued
    <3> QED
      BY <3>3, <3>4, Zenon DEF Queued
  <2> QED
    BY <2>1, <2>2, <2>3, <2>4
<1>2. ASSUME NEW c \in Callers, SubmitLock(c) PROVE IInv'
  <2>1. Hands'
    <3>1. CASE stopping
      <4>1. /\ st' = [st EXCEPT ![ctask[c]] = "rejected"] /\ cpc[c] = "lock"
            /\ cpc' = [cpc EXCEPT ![c] = "idle"] /\ ctask' = [ctask EXCEPT ![c] = NoTask]
            /\ UNCHANGED <<wpc, wtask>>
        BY <1>2, <3>1 DEF SubmitLock
      <4>2. ctask[c] \in Tasks /\ st[ctask[c]] = "offered"
        BY <4>1 DEF Hands
      <4>3. \A d \in Callers : cpc'[d] \in {"lock", "push"} =>
              /\ d # c /\ cpc[d] \in {"lock", "push"}
              /\ ctask'[d] = ctask[d] /\ ctask[d] # ctask[c]
        BY <4>1 DEF Hands
      <4>4. \A t \in Tasks : t # ctask[c] => st'[t] = st[t]
        BY <4>1
      <4>5. \A d \in Callers : cpc'[d] \in {"lock", "push"} =>
              ctask'[d] \in Tasks /\ st'[ctask'[d]] = "offered"
        BY <4>3, <4>4 DEF Hands
      <4>6. \A w \in Workers : wpc[w] = "run" => wtask[w] # ctask[c]
        BY <4>2 DEF Hands
      <4> QED
        BY <4>1, <4>2, <4>3, <4>4, <4>5, <4>6 DEF Hands
    <3>2. CASE ~stopping
      BY <1>2, <3>2 DEF Hands, SubmitLock
    <3> QED BY <3>1, <3>2
  <2>2. Queued'
    BY <1>2 DEF Queued, Hands, SubmitLock
  <2>3. TypeOK' /\ Mutex' /\ Ended' /\ Returned' /\ StartsInOrder'
    BY <1>2 DEF Mutex, Ended, Returned, StartsInOrder, SubmitLock
  <2> QED
    BY <2>1, <2>2, <2>3
<1>3. ASSUME NEW c \in Callers, SubmitPush(c) PROVE IInv'
  <2>1. TypeOK'
    <3>1. ctask[c] \in Tasks
      BY <1>3 DEF Hands, SubmitPush
    <3> QED
      BY <1>3, <3>1 DEF SubmitPush
  <2>2. Queued'
    <3>1. ctask[c] \in Tasks /\ st[ctask[c]] = "offered" /\ q' = Append(q, ctask[c])
      BY <1>3 DEF Hands, SubmitPush
    <3>2. st' = [st EXCEPT ![ctask[c]] = "queued"]
      BY <1>3 DEF SubmitPush
    <3>3. /\ Len(q') = Len(q) + 1 /\ q'[Len(q) + 1] = ctask[c]
          /\ \A i \in 1..Len(q) : q'[i] = q[i] /\ q[i] \in Tasks
      BY <3>1, AppendFacts
    <3>4. Len(q) \in Nat
      OBVIOUS
    <3>5. \A t \in Tasks : st'[t] = "queued" => \E i \in 1..Len(q') : q'[i] = t
      BY <3>1, <3>2, <3>3, <3>4 DEF Queued
    <3>6. \A i \in 1..Len(q) : q[i] \in Tasks /\ st[q[i]] = "queued" /\ q[i] # ctask[c]
      BY <3>1, <3>3 DEF Queued
    <3>7. \A i \in 1..Len(q') : (i \in 1..Len(q) /\ q'[i] = q[i]) \/ (i = Len(q) + 1 /\ q'[i] = ctask[c])
      BY <3>3, <3>4
    <3>8. \A i \in 1..Len(q') : st'[q'[i]] = "queued"
      BY <3>1, <3>2, <3>6, <3>7
    <3>9. \A i, j \in 1..Len(q') : q'[i] = q'[j] => i = j
      BY <3>1, <3>6, AppendDistinct DEF Queued
    <3> QED
      BY <3>5, <3>8, <3>9 DEF Queued
  <2>3. StartsInOrder'
    <3>1. ctask[c] \in Tasks
      BY <1>3 DEF Hands, SubmitPush
    <3>2. started \o Append(q, ctask[c]) = Append(started \o q, ctask[c])
      BY <3>1, AppendConcat
    <3> QED
      BY <1>3, <3>2 DEF StartsInOrder, SubmitPush
  <2>4. Mutex' /\ Hands' /\ Ended' /\ Returned'
    BY <1>3 DEF Mutex, Hands, Ended, Returned, SubmitPush
  <2> QED
    BY <2>1, <2>2, <2>3, <2>4
<1>4. ASSUME NEW c \in Callers, SubmitNotify(c) PROVE IInv'
  <2>1. TypeOK'
    BY <1>4, ZenonT(40) DEF SubmitNotify, WakeOneOf, poolState
  <2>2. Mutex'
    BY <1>4 DEF Mutex, SubmitNotify, WakeOneOf, poolState
  <2>3. Hands'
    BY <1>4 DEF Hands, SubmitNotify, WakeOneOf, poolState
  <2>4. Ended'
    BY <1>4 DEF Ended, SubmitNotify, WakeOneOf, poolState
  <2>5. Queued' /\ Returned' /\ StartsInOrder'
    BY <1>4 DEF Queued, Returned, StartsInOrder, SubmitNotify, WakeOneOf, poolState
  <2> QED
    BY <2>1, <2>2, <2>3, <2>4, <2>5
<1>5. ASSUME NEW w \in Workers, WorkerLock(w) PROVE IInv'
  BY <1>5 DEF WorkerLock,
     Mutex, Hands, Queued, Ended, Returned, StartsInOrder
<1>6. ASSUME NEW w \in Workers, WorkerTest(w) PROVE IInv'
  BY <1>6 DEF WorkerTest, poolState,
     Mutex, Hands, Queued, Ended, Returned, StartsInOrder
<1>7. ASSUME NEW w \in Workers, WorkerBlock(w) PROVE IInv'
  BY <1>7 DEF WorkerBlock,
     Mutex, Hands, Queued, Ended, Returned, StartsInOrder
<1>8. ASSUME NEW w \in Workers, SpuriousWakeup(w) PROVE IInv'
  BY <1>8 DEF SpuriousWakeup, poolState,
     Mutex, Hands, Queued, Ended, Returned, StartsInOrder
<1>9. ASSUME NEW w \in Workers, WorkerTake(w), q = << >> PROVE IInv'
  <2>1. TypeOK'
    BY <1>9 DEF WorkerTake, TakeUnless
  <2>2. Mutex' /\ Hands' /\ Queued' /\ StartsInOrder' /\ Returned'
    BY <1>9 DEF WorkerTake, TakeUnless, Mutex, Hands, Queued, StartsInOrder, Returned
  <2>3. Ended'
    BY <1>9 DEF WorkerTake, TakeUnless, Mutex, Ended
  <2> QED
    BY <2>1, <2>2, <2>3
<1>10. ASSUME NEW w \in Workers, WorkerTake(w), q # << >> PROVE IInv'
  <2> DEFINE h == Head(q)
  <2>1. /\ mu' = Nobody /\ q' = Tail(q) /\ started' = Append(started, h)
        /\ wpc[w] = "take" /\ wpc' = [wpc EXCEPT ![w] = "run"]
        /\ wtask' = [wtask EXCEPT ![w] = h] /\ st' = [st EXCEPT ![h] = "running"]
        /\ UNCHANGED <<stopping, cpc, ctask, spc, accepted>>
    BY <1>10 DEF WorkerTake, TakeUnless
  <2>2. /\ h \in Tasks /\ h = q[1] /\ q' \in Seq(Tasks) /\ Len(q) \in Nat \ {0}
        /\ Len(q') = Len(q) - 1 /\ \A i \in 1..Len(q') : q'[i] = q[i + 1]
    BY <1>10, <2>1, TailFacts
  <2>3. st[h] = "queued"
    BY <2>2 DEF Queued
  <2> HIDE DEF h
  <2>4. TypeOK'
    BY <2>1, <2>2
  <2>5. Mutex' /\ Returned'
    BY <2>1 DEF Mutex, Returned
  <2>6. Hands'
    BY <2>1, <2>2, <2>3 DEF Hands
  <2>7. Queued'
    <3>1. \A i \in 1..Len(q') : q[i + 1] \in Tasks /\ q[i + 1] # h /\ st[q[i + 1]] = "queued"
      BY <2>2 DEF Queued
    <3>2. \A i \in 1..Len(q') : st'[q'[i]] = "queued"
      BY <2>1, <2>2, <3>1
    <3>3. ASSUME NEW i \in 1..Len(q'), NEW j \in 1..Len(q'), q'[i] = q'[j] PROVE i = j
      <4>1. i + 1 \in 1..Len(q) /\ j + 1 \in 1..Len(q)
        BY <2>2
      <4>2. q[i + 1] = q[j + 1]
        BY <2>2, <3>3
      <4>3. i + 1 = j + 1
        BY <4>1, <4>2 DEF Queued
      <4> QED
        BY <4>3
    <3>4. ASSUME NEW t \in Tasks, st'[t] = "queued" PROVE \E i \in 1..Len(q') : q'[i] = t
      <4>1. t # h /\ st[t] = "queued"
        BY <2>1, <2>2, <3>4
      <4>2. PICK i \in 1..Len(q) : q[i] = t
        BY <4>1 DEF Queued
      <4>3. i - 1 \in 1..Len(q') /\ q'[i - 1] = t
        BY <4>1, <4>2, <2>2
      <4> QED
        BY <4>3
    <3> QED
      BY <3>2, <3>3, <3>4 DEF Queued
  <2>8. Ended'
    BY <1>10, <2>1 DEF Ended
  <2>9. StartsInOrder'
    BY <1>10, <2>1, ShiftConcat DEF StartsInOrder, h
  <2> QED
    BY <2>4, <2>5, <2>6, <2>7, <2>8, <2>9
<1>11. ASSUME NEW w \in Workers, WorkerRun(w) PROVE IInv'
  <2>1. Queued'
    BY <1>11 DEF Queued, Hands, WorkerRun, poolState
  <2>2. TypeOK' /\ Mutex' /\ Hands' /\ Ended' /\ Returned' /\ StartsInOrder'
    BY <1>11 DEF Mutex, Hands, Ended, Returned, StartsInOrder, WorkerRun, poolState
  <2> QED
    BY <2>1, <2>2
<1>12. ASSUME ShutdownBegin PROVE IInv'
  BY <1>12 DEF ShutdownBegin,
     Mutex, Hands, Queued, Ended, Returned, StartsInOrder
<1>13. ASSUME ShutdownNotifyAll PROVE IInv'
  BY <1>13 DEF ShutdownNotifyAll, poolState,
     Mutex, Hands, Queued, Ended, Returned, StartsInOrder
<1>14. ASSUME ShutdownJoinAll PROVE IInv'
  BY <1>14 DEF ShutdownJoinAll, poolState,
     Mutex, Hands, Queued, Ended, Returned, StartsInOrder
<1>15. CASE UNCHANGED vars
  BY <1>15 DEF vars, Mutex, Hands, Queued, Ended, Returned, StartsInOrder
<1> QED
  BY <1>1, <1>2, <1>3, <1>4, <1>5, <1>6, <1>7, <1>8, <1>9, <1>10, <1>11, <1>12, <1>13, <1>14, <1>15,
     ZenonT(40)
     DEF Next, CallerStep, WorkerStep
-----------------------------------------------------------------------------
(* What holds in every state *)

\* The strengthened invariant holds of every behaviour of worker_loop(),
\* submit() and shutdown().
THEOREM Invariance == Spec => []IInv
BY InitIInv, StepIInv, PTL DEF Spec

\* Every variable of the pool keeps its type.
THEOREM TypeCorrect == Spec => []TypeOK
<1>1. IInv => TypeOK
  BY DEF IInv
<1> QED
  BY <1>1, Invariance, PTL

\* When shutdown() returns, no accepted task is queued or running.
THEOREM GracefulShutdown == Spec => []DrainedAtReturn
<1>1. IInv => DrainedAtReturn
  <2> SUFFICES ASSUME IInv, spc = "returned"
               PROVE  q = << >> /\ \A t \in Tasks : st[t] \notin {"queued", "running"}
    BY DEF DrainedAtReturn
  <2>1. \A w \in Workers : wpc[w] = "exited"
    BY DEF IInv, Returned
  <2>2. q = << >>
    BY <2>1, ThreadAssumption DEF IInv, Ended
  <2>3. \A t \in Tasks : st[t] # "queued"
    BY <2>2 DEF IInv, Queued
  <2>4. \A t \in Tasks : st[t] # "running"
    BY <2>1 DEF IInv, Hands
  <2> QED
    BY <2>2, <2>3, <2>4
<1> QED
  BY <1>1, Invariance, PTL

\* Tasks start in the order in which submit() pushed them.
THEOREM FifoStart == Spec => []StartsInOrder
<1>1. IInv => StartsInOrder
  BY DEF IInv
<1> QED
  BY <1>1, Invariance, PTL

\* submit() accepts nothing once a worker has returned from worker_loop().
THEOREM ClosedAfterExit == Spec => NothingAcceptedAfterExit
<1>1. IInv /\ [Next]_vars => [(\E w \in Workers : wpc[w] = "exited") => accepted' = accepted]_vars
  <2> SUFFICES ASSUME IInv, Next, NEW w \in Workers, wpc[w] = "exited"
               PROVE  accepted' = accepted
    OBVIOUS
  <2>1. \A c \in Callers : ~SubmitPush(c)
    BY DEF IInv, Ended, SubmitPush
  <2> QED
    BY <2>1 DEF Next, CallerStep, WorkerStep, Submit, SubmitLock, SubmitNotify,
       WakeOneOf, WorkerLock, WorkerTest, WorkerBlock, SpuriousWakeup, WorkerTake, TakeUnless,
       WorkerRun, ShutdownBegin, ShutdownNotifyAll, ShutdownJoinAll, vars
<1> QED
  BY <1>1, Invariance, PTL DEF Spec, NothingAcceptedAfterExit
-----------------------------------------------------------------------------
(* ThreadPool implements TaskPool *)

\* The tasks of q are the queued ones.
LEMMA QueueRange == IInv => Range(q) = {t \in Tasks : st[t] = "queued"}
<1> SUFFICES ASSUME IInv PROVE Range(q) = {t \in Tasks : st[t] = "queued"}
  OBVIOUS
<1>1. DOMAIN q = 1..Len(q) /\ \A i \in 1..Len(q) : q[i] \in Tasks
  BY DEF IInv, TypeOK
<1> QED
  BY <1>1 DEF IInv, Queued, Range

\* Every step of the threads is a step of TaskPool or changes nothing it sees.
LEMMA StepPromise == IInv /\ IInv' /\ [Next]_vars => [Promise!PoolNext]_(Promise!poolVars)
<1> DEFINE Running == {t \in Tasks : st[t] = "running"}
           Done == {t \in Tasks : st[t] = "done"}
           AllEnded == \A w \in Workers : wpc[w] = "exited"
           Same == UNCHANGED <<q, Running, Done, AllEnded>>
<1> SUFFICES ASSUME IInv, IInv', [Next]_vars
             PROVE  Promise!PoolNext \/ Same
  BY DEF Promise!poolVars
<1> USE ThreadAssumption DEF IInv, TypeOK
<1>1. ASSUME NEW c \in Callers, NEW t \in Tasks, Submit(c, t)
      PROVE  Same
  BY <1>1 DEF Submit, poolState
<1>2. ASSUME NEW c \in Callers, SubmitLock(c)
      PROVE  Same
  BY <1>2 DEF SubmitLock, Hands
<1>3. ASSUME NEW c \in Callers, SubmitPush(c)
      PROVE  Promise!Accept(ctask[c]) /\ ctask[c] \in Tasks
  <2>1. ctask[c] \in Tasks /\ st[ctask[c]] = "offered" /\ cpc[c] = "push"
    BY <1>3 DEF SubmitPush, Hands
  <2>2. ~AllEnded
    BY <2>1 DEF Ended
  <2>3. ctask[c] \notin Range(q) \cup Running \cup Done
    BY <2>1, QueueRange
  <2>4. q' = Append(q, ctask[c]) /\ UNCHANGED <<Running, Done, AllEnded>>
    BY <1>3, <2>1 DEF SubmitPush
  <2> QED
    BY <2>1, <2>2, <2>3, <2>4 DEF Promise!Accept, Promise!Range, Range
<1>4. ASSUME NEW c \in Callers, SubmitNotify(c)
      PROVE  Same
  <2>1. AllEnded' = AllEnded
    BY <1>4 DEF SubmitNotify, WakeOneOf
  <2> QED
    BY <1>4, <2>1 DEF SubmitNotify, WakeOneOf, poolState
<1>5. ASSUME NEW w \in Workers,
             WorkerLock(w) \/ WorkerTest(w) \/ WorkerBlock(w) \/ SpuriousWakeup(w)
      PROVE  Same
  <2>1. wpc[w] # "exited" /\ wpc'[w] # "exited"
    BY <1>5 DEF WorkerLock, WorkerTest, WorkerBlock, SpuriousWakeup
  <2> QED
    BY <1>5, <2>1 DEF WorkerLock, WorkerTest, WorkerBlock, SpuriousWakeup, poolState
<1>6. ASSUME NEW w \in Workers, WorkerTake(w), q = << >>
      PROVE  Promise!Close \/ Same
  <2>1. UNCHANGED <<q, Running, Done>> /\ ~AllEnded
    BY <1>6 DEF WorkerTake, TakeUnless
  <2>2. CASE AllEnded'
    <3>1. Running' = {}
      BY <2>2 DEF Hands
    <3> QED
      BY <1>6, <2>1, <2>2, <3>1 DEF Promise!Close
  <2>3. CASE ~AllEnded'
    BY <2>1, <2>3
  <2> QED
    BY <2>2, <2>3
<1>7. ASSUME NEW w \in Workers, WorkerTake(w), q # << >>
      PROVE  Promise!Start
  <2>1. /\ q' = Tail(q) /\ st' = [st EXCEPT ![Head(q)] = "running"]
        /\ wpc[w] = "take" /\ wpc' = [wpc EXCEPT ![w] = "run"]
    BY <1>7 DEF WorkerTake, TakeUnless
  <2>2. Head(q) \in Tasks /\ st[Head(q)] = "queued"
    BY <1>7, TailFacts, SMTT(40) DEF Queued
  <2>3. Running' = Running \cup {Head(q)} /\ Done' = Done /\ AllEnded' = AllEnded
    BY <2>1, <2>2
  <2> QED
    BY <1>7, <2>1, <2>3 DEF Promise!Start
<1>8. ASSUME NEW w \in Workers, WorkerRun(w)
      PROVE  \E t \in Tasks : Promise!Finish(t)
  <2>1. wtask[w] \in Tasks /\ st[wtask[w]] = "running"
    BY <1>8 DEF WorkerRun, Hands
  <2>2. /\ Running' = Running \ {wtask[w]} /\ Done' = Done \cup {wtask[w]}
        /\ q' = q /\ AllEnded' = AllEnded
    BY <1>8, <2>1 DEF WorkerRun, poolState
  <2>3. PICK t \in Tasks : t = wtask[w]
    BY <2>1
  <2>4. Promise!Finish(t)
    BY <2>1, <2>2, <2>3 DEF Promise!Finish
  <2> QED
    BY <2>4
<1>9. ASSUME ShutdownBegin \/ ShutdownJoinAll PROVE Same
  BY <1>9 DEF ShutdownBegin, ShutdownJoinAll, poolState
<1>10. ASSUME ShutdownNotifyAll PROVE Same
  <2>1. \A w \in Workers : wpc'[w] = "exited" <=> wpc[w] = "exited"
    BY <1>10 DEF ShutdownNotifyAll
  <2> QED
    BY <1>10, <2>1 DEF ShutdownNotifyAll, poolState
<1>11. CASE UNCHANGED vars
  BY <1>11 DEF vars
<1> HIDE DEF IInv, TypeOK, Same
<1>12. ASSUME NEW c \in Callers, CallerStep(c) PROVE Promise!PoolNext \/ Same
  BY <1>2, <1>3, <1>4, <1>12 DEF CallerStep, Promise!PoolNext
<1>13. ASSUME NEW w \in Workers, WorkerStep(w) \/ SpuriousWakeup(w) PROVE Promise!PoolNext \/ Same
  <2>1. CASE WorkerTake(w)
    BY <1>6, <1>7, <2>1 DEF Promise!PoolNext
  <2>2. CASE WorkerRun(w)
    BY <1>8, <2>2 DEF Promise!PoolNext
  <2> QED
    BY <1>5, <1>13, <2>1, <2>2 DEF WorkerStep
<1> QED
  BY <1>1, <1>9, <1>10, <1>11, <1>12, <1>13 DEF Next

\* worker_loop(), submit() and shutdown() together implement TaskPool: FIFO
\* start, and a pool that closes only when all it accepted has been run.
THEOREM Refinement == Spec => KeepsPromise
<1>1. Init => Promise!PoolInit
  BY ThreadAssumption DEF Init, Promise!PoolInit
<1> QED
  BY <1>1, StepPromise, Invariance, PTL DEF Spec, KeepsPromise, Promise!PoolSpec
-----------------------------------------------------------------------------
(* MysqlPool *)

\* The parts of the state that the proof needs the types of.
Types ==
  /\ idle \subseteq Conns
  /\ pc \in [Borrowers -> Pcs]
  /\ lease \in [Borrowers -> Conns \cup {None}]

\* A caller has a connection from the end of acquire to the end of release, and
\* holds mu_ while it pings and connects.
Places ==
  /\ \A t \in Borrowers : lease[t] # None <=> pc[t] \in {"query", "release", "ping", "connect"}
  /\ \A t \in Borrowers : pc[t] \in {"ping", "connect"} <=> holder = t

\* The callers that will test the queue before they sleep.
Looking == {t \in Borrowers : pc[t] = "acquire"}

\* Every member of S has one of T to itself.
Covered(S, T) == \E f \in [S -> T] : \A x, y \in S : f[x] = f[y] => x = y

\* While anybody sleeps there is a caller about to look for every idle
\* connection: each push wakes a sleeper, and each caller takes one connection.
\* NobodySleepsInVain alone is not inductive: with two idle connections, the one
\* caller that looks would leave the other beside the sleeper.
EnoughAwake == Sleepers # {} => Covered(idle, Looking)

PoolInv == Types /\ Places /\ LeasesAreExclusive /\ EnoughAwake
-----------------------------------------------------------------------------
\* With nothing to cover, and with more to cover it with.
LEMMA CoveredEasily ==
  ASSUME NEW S, NEW T, NEW U, T \subseteq U
  PROVE  /\ S = {} => Covered(S, T)
         /\ Covered(S, T) => Covered(S, U)
<1>1. ASSUME S = {} PROVE Covered(S, T)
  <2>1. [x \in S |-> x] \in [S -> T]
    BY <1>1
  <2> QED
    BY <1>1, <2>1, Zenon DEF Covered
<1>2. ASSUME Covered(S, T) PROVE Covered(S, U)
  <2>1. PICK f \in [S -> T] : \A x, y \in S : f[x] = f[y] => x = y
    BY <1>2 DEF Covered
  <2>2. f \in [S -> U]
    BY <2>1
  <2> QED
    BY <2>1, <2>2 DEF Covered
<1> QED
  BY <1>1, <1>2

\* One more of each.
LEMMA CoveredMore ==
  ASSUME NEW S, NEW T, NEW c, NEW t, c \notin S, t \notin T, Covered(S, T)
  PROVE  Covered(S \cup {c}, T \cup {t})
<1>1. PICK f \in [S -> T] : \A x, y \in S : f[x] = f[y] => x = y
  BY DEF Covered
<1> DEFINE g == [x \in S \cup {c} |-> IF x = c THEN t ELSE f[x]]
<1>2. g \in [S \cup {c} -> T \cup {t}]
  OBVIOUS
<1>3. \A x, y \in S \cup {c} : g[x] = g[y] => x = y
  BY <1>1
<1> QED
  BY <1>2, <1>3, Zenon DEF Covered

\* One less of each, any one: whoever had t to itself gets what c had.
LEMMA CoveredLess ==
  ASSUME NEW S, NEW T, NEW c \in S, NEW t \in T, Covered(S, T)
  PROVE  Covered(S \ {c}, T \ {t})
<1>1. PICK f \in [S -> T] : \A x, y \in S : f[x] = f[y] => x = y
  BY DEF Covered
<1> DEFINE g == [x \in S \ {c} |-> IF f[x] = t THEN f[c] ELSE f[x]]
<1>2. g \in [S \ {c} -> T \ {t}]
  BY <1>1
<1>3. \A x, y \in S \ {c} : g[x] = g[y] => x = y
  BY <1>1
<1> QED
  BY <1>2, <1>3, Zenon DEF Covered

\* MysqlPool::init leaves every connection in the queue.
LEMMA PoolInitial == PoolInit => PoolInv
<1> SUFFICES ASSUME PoolInit PROVE PoolInv
  OBVIOUS
<1>1. Types /\ Places /\ EnoughAwake
  BY PoolAssumption DEF PoolInit, Types, Pcs, Places, EnoughAwake, Sleepers, Borrowers
<1>2. LeasesAreExclusive
  BY DEF PoolInit, LeasesAreExclusive, Leased
<1> QED
  BY <1>1, <1>2 DEF PoolInv

\* A step that leaves the queue and the leases alone, puts nobody to sleep and
\* takes no caller away from looking.
LEMMA AwakeKept ==
  ASSUME EnoughAwake, idle' = idle, Sleepers' \subseteq Sleepers, Looking \subseteq Looking'
  PROVE  EnoughAwake'
BY CoveredEasily DEF EnoughAwake
-----------------------------------------------------------------------------
\* acquire takes a connection out of the queue, or sleeps when there is none.
LEMMA AcquireStep ==
  ASSUME PoolInv, NEW t \in Borrowers, Acquire(t)
  PROVE  PoolInv'
<1> USE DEF PoolInv, Types, Pcs
<1>1. CASE idle = {} /\ Goto(t, "asleep") /\ UNCHANGED <<idle, outstanding, lease>>
  <2>1. Types' /\ Places' /\ LeasesAreExclusive'
    BY <1>1, PoolAssumption DEF Acquire, Goto, Places, LeasesAreExclusive, Leased
  <2>2. EnoughAwake'
    BY <1>1, CoveredEasily DEF EnoughAwake
  <2> QED
    BY <2>1, <2>2
<1>2. ASSUME NEW c \in idle, idle' = idle \ {c}, lease' = [lease EXCEPT ![t] = c], Goto(t, "query")
      PROVE  PoolInv'
  <2>1. pc[t] = "acquire" /\ holder' = holder /\ lost' = lost /\ c \in Conns /\ c # None
    BY <1>2, PoolAssumption DEF Acquire
  <2>2. Types' /\ Places'
    BY <1>2, <2>1 DEF Goto, Places
  <2>3. lease[t] = None /\ c \notin Leased
    BY <1>2, <2>1 DEF Places, LeasesAreExclusive
  <2>4. Leased' = Leased \cup {c}
    BY <1>2, <2>1, <2>3 DEF Leased
  <2>5. LeasesAreExclusive'
    <3>1. \A s \in Borrowers : s # t => lease'[s] = lease[s] /\ lease[s] # c
      BY <1>2, <2>1, <2>3 DEF Leased
    <3>2. lease'[t] = c
      BY <1>2
    <3>3. \A r, s \in Borrowers : r # s /\ lease'[r] # None => lease'[r] # lease'[s]
      BY <3>1, <3>2, <2>1 DEF LeasesAreExclusive
    <3>4. Leased' \cap idle' = {} /\ Conns \ (idle' \cup Leased') = lost'
      BY <1>2, <2>1, <2>4 DEF LeasesAreExclusive
    <3> QED
      BY <3>3, <3>4 DEF LeasesAreExclusive
  <2>6. EnoughAwake'
    <3>1. Looking' = Looking \ {t} /\ t \in Looking /\ Sleepers' = Sleepers
      BY <1>2, <2>1 DEF Goto, Looking, Sleepers
    <3>2. Covered(idle, Looking) => Covered(idle', Looking')
      BY <1>2, <3>1, CoveredLess
    <3> QED
      BY <3>1, <3>2 DEF EnoughAwake
  <2> QED
    BY <2>2, <2>5, <2>6
<1> QED
  BY <1>1, <1>2 DEF Acquire

\* release gives the connection back and wakes a sleeper, if there is one.
LEMMA PushStep ==
  ASSUME PoolInv, NEW t \in Borrowers, pc[t] \in {"ping", "connect"}, Push(t)
  PROVE  PoolInv'
<1> USE DEF PoolInv, Types, Pcs
<1>1. PICK woken \in SUBSET Sleepers :
        /\ PushAs(t, woken)
        /\ \/ Sleepers = {} /\ woken = {}
           \/ \E s \in Sleepers : woken = {s}
  BY ZenonT(40) DEF Push
<1>2. /\ idle' = idle \cup {lease[t]} /\ lease' = [lease EXCEPT ![t] = None]
      /\ holder' = None /\ lost' = lost
      /\ pc' = [s \in Borrowers |-> IF s = t THEN "return" ELSE IF s \in woken THEN "acquire" ELSE pc[s]]
  BY <1>1 DEF PushAs
<1>3. lease[t] \in Conns /\ holder = t /\ t \notin Sleepers
  BY DEF Places, Sleepers
<1>4. \A s \in woken : pc[s] = "asleep"
  BY <1>1 DEF Sleepers
<1>5. Types'
  BY <1>2, <1>3
<1>6. Places'
  <2>1. \A s \in Borrowers : s # t => pc[s] \notin {"ping", "connect"} /\ lease'[s] = lease[s]
    BY <1>2, <1>3 DEF Places
  <2>2. \A s \in Borrowers : s # t => /\ pc'[s] \notin {"ping", "connect"}
                                    /\ lease'[s] # None <=> pc'[s] \in {"query", "release"}
    BY <1>2, <1>4, <2>1 DEF Places
  <2> QED
    BY <1>2, <2>2, PoolAssumption DEF Places, Borrowers
<1>7. LeasesAreExclusive'
  <2>1. Leased' = Leased \ {lease[t]}
    BY <1>2, <1>3 DEF Leased, LeasesAreExclusive
  <2>2. lease[t] \in Leased
    BY <1>3, PoolAssumption DEF Leased
  <2>3. \A r, s \in Borrowers : r # s /\ lease'[r] # None => lease'[r] # lease'[s]
    BY <1>2 DEF LeasesAreExclusive
  <2>4. Leased' \cap idle' = {} /\ Conns \ (idle' \cup Leased') = lost'
    BY <1>2, <2>1, <2>2 DEF LeasesAreExclusive
  <2> QED
    BY <2>3, <2>4 DEF LeasesAreExclusive
<1>8. EnoughAwake'
  <2>1. CASE Sleepers = {}
    <3>1. Sleepers' = {}
      BY <1>1, <1>2, <2>1 DEF Sleepers
    <3> QED
      BY <3>1 DEF EnoughAwake
  <2>2. ASSUME NEW s \in Sleepers, woken = {s} PROVE EnoughAwake'
    <3>1. s \in Borrowers /\ s # t /\ s \notin Looking /\ t \notin Looking
      BY <1>3, <2>2 DEF Sleepers, Looking
    <3>2. Looking' = Looking \cup {s}
      BY <1>2, <1>3, <2>2, <3>1 DEF Looking
    <3>3. lease[t] \notin idle
      BY <1>3, PoolAssumption DEF LeasesAreExclusive, Leased
    <3>4. Covered(idle, Looking)
      BY <2>2 DEF EnoughAwake
    <3>5. Covered(idle', Looking')
      BY <1>2, <3>1, <3>2, <3>3, <3>4, CoveredMore
    <3> QED
      BY <3>5 DEF EnoughAwake
  <2> QED
    BY <1>1, <2>1, <2>2
<1> QED
  BY <1>5, <1>6, <1>7, <1>8

\* A connection that cannot be made again is given up.
LEMMA DropStep ==
  ASSUME PoolInv, NEW t \in Borrowers, pc[t] = "connect", Drop(t)
  PROVE  PoolInv'
<1> USE DEF PoolInv, Types, Pcs
<1>1. /\ idle' = idle /\ lost' = lost \cup {lease[t]} /\ holder' = None
      /\ lease' = [lease EXCEPT ![t] = None] /\ pc' = [pc EXCEPT ![t] = "return"]
  BY DEF Drop, Goto
<1>2. lease[t] \in Conns /\ holder = t
  BY DEF Places
<1>3. Types'
  BY <1>1
<1>4. Places'
  BY <1>1, <1>2, PoolAssumption DEF Places, Borrowers
<1>5. LeasesAreExclusive'
  <2>1. Leased' = Leased \ {lease[t]} /\ lease[t] \in Leased
    BY <1>1, <1>2, PoolAssumption DEF Leased, LeasesAreExclusive
  <2>2. \A r, s \in Borrowers : r # s /\ lease'[r] # None => lease'[r] # lease'[s]
    BY <1>1 DEF LeasesAreExclusive
  <2>3. Leased' \cap idle' = {} /\ Conns \ (idle' \cup Leased') = lost'
    BY <1>1, <1>2, <2>1 DEF LeasesAreExclusive
  <2> QED
    BY <2>2, <2>3 DEF LeasesAreExclusive
<1>6. EnoughAwake'
  <2>1. Sleepers' = Sleepers /\ Looking' = Looking
    BY <1>1 DEF Sleepers, Looking
  <2> QED
    BY <1>1, <1>3, <2>1, AwakeKept
<1> QED
  BY <1>3, <1>4, <1>5, <1>6

\* A step that moves one caller to another place, short of sleeping, and leaves the
\* queue, the leases and mu_ alone.
LEMMA MoveStep ==
  ASSUME PoolInv, NEW t \in Borrowers, NEW l \in Pcs \ {"asleep"},
         pc[t] # "acquire", Goto(t, l),
         UNCHANGED <<idle, lease, holder, lost>>,
         l \in {"ping", "connect"} <=> pc[t] \in {"ping", "connect"},
         l \in {"query", "release", "ping", "connect"} <=> pc[t] \in {"query", "release", "ping", "connect"}
  PROVE  PoolInv'
<1> USE DEF PoolInv, Types, Pcs
<1>1. pc' = [pc EXCEPT ![t] = l]
  BY DEF Goto
<1>2. Types' /\ LeasesAreExclusive'
  BY <1>1 DEF LeasesAreExclusive, Leased
<1>3. Places'
  BY <1>1 DEF Places
<1>4. Sleepers' \subseteq Sleepers /\ Looking \subseteq Looking'
  BY <1>1 DEF Sleepers, Looking
<1> QED
  BY <1>2, <1>3, <1>4, AwakeKept

\* release locks mu_.
LEMMA ReleaseStep ==
  ASSUME PoolInv, NEW t \in Borrowers, Release(t)
  PROVE  PoolInv'
<1> USE DEF PoolInv, Types, Pcs
<1>1. /\ pc[t] = "release" /\ pc' = [pc EXCEPT ![t] = "ping"] /\ holder = None /\ holder' = t
      /\ UNCHANGED <<idle, lease, lost>>
  BY DEF Release, Goto
<1>2. Types' /\ LeasesAreExclusive'
  BY <1>1 DEF LeasesAreExclusive, Leased
<1>3. Places'
  BY <1>1, PoolAssumption DEF Places
<1>4. Sleepers' \subseteq Sleepers /\ Looking \subseteq Looking'
  BY <1>1 DEF Sleepers, Looking
<1> QED
  BY <1>1, <1>2, <1>3, <1>4, AwakeKept

\* Every step of a caller, and of the server, keeps the invariant.
LEMMA PoolKept == PoolInv /\ [PoolNext]_poolVars => PoolInv'
<1> SUFFICES ASSUME PoolInv, [PoolNext]_poolVars PROVE PoolInv'
  OBVIOUS
<1>1. ASSUME NEW t \in Borrowers, Begin(t) PROVE PoolInv'
  BY <1>1, MoveStep DEF Begin, Pcs
<1>2. ASSUME NEW t \in Borrowers, LockRoom(t) PROVE PoolInv'
  BY <1>2, MoveStep DEF LockRoom, Pcs
<1>3. ASSUME NEW t \in Borrowers, Query(t) PROVE PoolInv'
  BY <1>3, MoveStep DEF Query, Pcs
<1>4. ASSUME NEW t \in Borrowers, Ping(t) PROVE PoolInv'
  BY <1>4, MoveStep, PushStep DEF Ping, Pcs
<1>5. ASSUME NEW t \in Borrowers, Connect(t) PROVE PoolInv'
  BY <1>5, PushStep, DropStep DEF Connect
<1>6. ASSUME NEW t \in Borrowers, Return(t) PROVE PoolInv'
  BY <1>6, MoveStep DEF Return, ReturnAs, Pcs
<1>7. CASE ServerFails \/ ServerReturns \/ UNCHANGED poolVars
  <2>1. UNCHANGED <<idle, lease, holder, lost, pc>>
    BY <1>7 DEF ServerFails, ServerReturns, poolVars
  <2> QED
    BY <2>1 DEF PoolInv, Types, Places, LeasesAreExclusive, Leased, EnoughAwake, Sleepers, Looking
<1> QED
  BY <1>1, <1>2, <1>3, <1>4, <1>5, <1>6, <1>7, AcquireStep, ReleaseStep DEF PoolNext, Step

\* The invariant holds throughout.
LEMMA PoolInvariant == PoolSpec => []PoolInv
BY PoolInitial, PoolKept, PTL DEF PoolSpec
-----------------------------------------------------------------------------
(* acquire and release never lend a connection twice, and each connection is *)
(* in the queue, lent or given up, however the outages fall.                 *)
THEOREM ExclusiveLeases == PoolSpec => []LeasesAreExclusive
<1>1. PoolInv => LeasesAreExclusive
  BY DEF PoolInv
<1> QED
  BY <1>1, PoolInvariant, PTL

(* One notify_one for each connection that release pushes is enough, though  *)
(* callers that never slept compete for the connections.                     *)
THEOREM NotifyOneSuffices == PoolSpec => []NobodySleepsInVain
<1>1. PoolInv => NobodySleepsInVain
  <2> SUFFICES ASSUME PoolInv, Sleepers # {}, idle # {}
               PROVE  \E t \in Borrowers : pc[t] = "acquire"
    BY DEF NobodySleepsInVain
  <2>1. PICK f \in [idle -> Looking] : TRUE
    BY DEF PoolInv, EnoughAwake, Covered
  <2> QED
    BY <2>1 DEF Looking
<1> QED
  BY <1>1, PoolInvariant, PTL
=============================================================================
