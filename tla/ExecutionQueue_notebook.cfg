\* Three tasks on one VM bound to a notebook that can be deleted meanwhile, under
\* fairness.  The model stops when the tasks are spent.
SPECIFICATION FairSpec
CONSTANTS
  t1 = t1
  t2 = t2
  t3 = t3
  nb = nb
  vm = vm
  NoTask = NoTask
  Tasks <- MCTasks3
  Codes <- MCNotebook
  FileCodes <- MCNotebook
  MaxRetained = 1
  MaxJobs = 2
INVARIANTS
  TypeOK
  QueueAgrees
  OneAtATime
  CancellationsHold
  CompletionAgrees
PROPERTIES
  QueueDrains
CHECK_DEADLOCK FALSE
