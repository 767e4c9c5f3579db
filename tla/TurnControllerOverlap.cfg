SPECIFICATION Spec
CONSTANTS
  Sessions = {k1}
  s1 = s1
  s2 = s2
  s3 = s3
  s4 = s4
  Subs <- SubsAll
  Hooked <- HookedSome
  Signalled <- SubsAll
  NoSub = NoSub
INVARIANT AtMostOneRun
CHECK_DEADLOCK FALSE
