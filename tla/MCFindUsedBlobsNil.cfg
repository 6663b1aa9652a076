\* The caller may cancel and gets nil all the same.
\* The model stops when the call has returned.
CHECK_DEADLOCK FALSE
SPECIFICATION Spec
CONSTANTS
  t1 = t1
  t2 = t2
  t3 = t3
  t4 = t4
  t5 = t5
  Tree = {t1, t2, t3, t4, t5}
  Subtrees <- Shared
  Huge = {t3, t5}
  Roots <- FourRoots
  Seen = {t4}
  Loader = {l1, l2}
  HugeLoader = h
  HugeCap = 1
  None = None
  Faults = {"cancel"}
INVARIANTS
  NilMeansFound
