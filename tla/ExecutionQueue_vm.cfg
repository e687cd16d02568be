\* Three tasks on two VMs created by code: no session is ever disposed of.  The
\* model stops when the tasks are spent and nobody asks anything else.
SPECIFICATION Spec
CONSTANTS
  t1 = t1
  t2 = t2
  t3 = t3
  nb = nb
  vm = vm
  NoTask = NoTask
  Tasks <- MCTasks3
  Codes <- MCCodes
  FileCodes <- MCNoNotebook
  MaxRetained = 1
  MaxJobs = 1
SYMMETRY MCSymmetry
INVARIANTS
  TasksAreServed
PROPERTIES
  SerialExecution
CHECK_DEADLOCK FALSE
