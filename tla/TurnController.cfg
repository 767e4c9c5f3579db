SPECIFICATION FairSpec
CONSTANTS
  Sessions = {k1, k2}
  s1 = s1
  s2 = s2
  s3 = s3
  s4 = s4
  Subs <- SubsAll
  Hooked <- HookedSome
  Signalled <- SubsAll
  NoSub = NoSub
INVARIANTS
  AtMostOneRunUnlessDropped
  OwnershipAgrees
  TailIsLive
  IInv
PROPERTIES
  EverySubmissionSettles
  RefinesFifo
CHECK_DEADLOCK FALSE
