------------------------------ MODULE TaskPool ------------------------------
(***************************************************************************)
(* What ThreadPool promises its callers (include/common/thread_pool.h,     *)
(* lines 13-19), with no threads, mutex or condition variable: accepted    *)
(* tasks start in the order they were accepted, and the pool closes only   *)
(* when every accepted task has been run to its end.                       *)
(***************************************************************************)
EXTENDS Sequences, Functions

CONSTANT Tasks

VARIABLES
  pending,    \* accepted and not yet started, oldest first
  executing,  \* started and not yet finished
  finished,   \* run to the end
  closed      \* the pool has ended: nothing is accepted any more

poolVars == <<pending, executing, finished, closed>>

PoolInit ==
  /\ pending = << >>
  /\ executing = {}
  /\ finished = {}
  /\ closed = FALSE

\* submit() returned true.
Accept(t) ==
  /\ ~closed
  /\ t \notin Range(pending) \cup executing \cup finished
  /\ pending' = Append(pending, t)
  /\ UNCHANGED <<executing, finished, closed>>

Start ==
  /\ pending # << >>
  /\ pending' = Tail(pending)
  /\ executing' = executing \cup {Head(pending)}
  /\ UNCHANGED <<finished, closed>>

Finish(t) ==
  /\ t \in executing
  /\ executing' = executing \ {t}
  /\ finished' = finished \cup {t}
  /\ UNCHANGED <<pending, closed>>

Close ==
  /\ pending = << >>
  /\ executing = {}
  /\ closed' = TRUE
  /\ UNCHANGED <<pending, executing, finished>>

PoolNext ==
  \/ \E t \in Tasks : Accept(t) \/ Finish(t)
  \/ Start
  \/ Close

PoolSpec == PoolInit /\ [][PoolNext]_poolVars
=============================================================================
