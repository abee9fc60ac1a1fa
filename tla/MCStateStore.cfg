SPECIFICATION FairSpec
CONSTANTS
  Proc = {p1, p2, p3}
  MaxCount = 2
  State <- MCState
  Default = 0
  Update <- MCUpdate
  Apply <- MCApply
  Failed = Failed
  NoState = NoState
  Missing = Missing
  Empty = Empty
  Garbage = Garbage
INVARIANTS
  StoreInv
  ClosureSeesCurrent
PROPERTIES
  WholeDocuments
  LockReleased
  StoreIsAtomic
