SPECIFICATION Spec
CONSTANTS
  Scripts = {clock, sync}
  Handles = {h1, h2, h3}
  Admins = {a, b}
  Shared = {sync}
  Lingering = {sync}
  Quitting = {sync}
  Garbling = {sync}
  Nil = Nil
SYMMETRY Symmetry
INVARIANTS TypeOK OneWorkerPerScript DeadIsReported
PROPERTIES StoppedHasEnded
CHECK_DEADLOCK FALSE
