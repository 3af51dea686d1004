CONSTANTS
  t1 = t1
  t2 = t2
  Tasks = {t1, t2}
  Ghost = Ghost
  Insts <- Two
  TaskOf <- Together
  Addresses <- Several
  Commands <- Silence
  MayFail = {}
  MaxSends <- TwoAndOne
  MaxTrans = 3
SPECIFICATION Spec
INVARIANTS OneOwner PairOrder
