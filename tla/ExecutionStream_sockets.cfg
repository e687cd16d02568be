\* A client that waits for its answers and one that does not.
SPECIFICATION FairSpec
CONSTANTS
  Streams = {a, b}
  Tasks = {t1, t2, t3}
  Patient = {a}
  Nil = Nil
INVARIANTS TypeOK ActiveIsLive ListenersServe
PROPERTIES AnswersCome
CHECK_DEADLOCK FALSE
