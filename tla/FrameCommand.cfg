CONSTANTS
  t1 = t1
  t2 = t2
  Tasks = {t1, t2}
  Ghost = Ghost
  Insts <- Two
  TaskOf <- Apart
  Addresses <- Across
  Commands <- Orders
  MayFail = {2}
  MaxSends <- OneAndNone
  MaxTrans = 5
SPECIFICATION FairSpec
INVARIANT TransactionOnce
PROPERTIES RequestsAnswered MessagesSettle
