SPECIFICATION FairSpec
CONSTANTS
  Users = {u1, u2}
  FirstUsers = {u1}
  Codes = {c1}
  Feedbacks = {f1}
  Jobs = {j1}
  Author <- MCAuthor
  Threads = {t1, t2}
  None = none
  Writers = {"platform", "reserve", "refund", "account"}
  RowLocks = TRUE
  Prices = {2}
  Gifts <- MCGifts
  Rewards = {1, 2}
  Balances = {4}
  Expiries = {0}
  Uses = {1, 2}
  ImagePrice = 1
  Bonus = 1
  InitialPoints = 3
  MaxDay = 3
  MaxWrites = 2
INVARIANTS CodeHonoured RewardPaidOnce
PROPERTIES OnlyStaleWritesDrift EveryWriteEnds
CHECK_DEADLOCK FALSE
