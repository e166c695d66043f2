SPECIFICATION Spec
CONSTANTS
  Threads = {t1, t2, t3}
  Node = {n1, n2, n3}
  Data = {d1, d2}
  NULL = NULL
INVARIANTS ListShape NoDangling PullAsserts
PROPERTIES ImplementsFifo ImplementsFifoLive
