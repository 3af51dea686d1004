CONSTANTS
  t1 = t1
  t2 = t2
  Tasks = {t1, t2}
  Ghost = Ghost
  Insts <- Two
  TaskOf <- Together
  Addresses <- Everyone
  Commands <- Silence
  MayFail = {}
  MaxSends <- OneEach
  MaxTrans = 3
SPECIFICATION Spec
INVARIANT FreedOnce
