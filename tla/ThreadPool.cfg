SPECIFICATION FairSpec
CONSTANTS
  Workers = {w1, w2}
  Callers = {c1, c2}
  Tasks = {t1, t2, t3}
  Nobody = Nobody
  NoTask = NoTask
INVARIANT DrainedAtReturn
PROPERTIES KeepsPromise AcceptedTaskRuns ShutdownReturnsUnlessMissed
