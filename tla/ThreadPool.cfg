CONSTANTS
  Worker = {w1, w2}
  Client = {c1, c2}
  Owner = c1
  Task = {t1, t2, t3}
  NoTask = NoTask
SPECIFICATION FairSpec
CHECK_DEADLOCK FALSE
INVARIANTS
  ActiveCounts
  RunsOnce
  JoinNeverSleepsIdle
  DestroyedMeansDone
PROPERTIES
  JoinMeansDone
  TasksRun
  DestructorReturns
