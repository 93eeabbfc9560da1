CONSTANTS
  Workers = {w1, w2, w3}
  Tasks = {1, 2, 3, 4, 5}
  NoTask = NoTask
  Members <- MCMembers
SPECIFICATION FairServerSpec
INVARIANTS
  TypeOK
  EachTaskOnce
  NoLostWakeup
  DrainedAtExit
  NobodyOvertakes
  ContextsOutliveHandlers
PROPERTIES
  WorkConserving
  EveryTaskRuns
  RefinesTaskPool
  EveryClientIsServed
  ServerEnds
