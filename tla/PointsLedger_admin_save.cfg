SPECIFICATION Spec
CONSTANTS
  Users = {u1}
  FirstUsers = {u1}
  Codes = {c1}
  Feedbacks = {f1}
  Jobs = {j1}
  Author <- MCAuthor
  Threads = {t1, t2}
  None = none
  Writers = {"platform", "account"}
  RowLocks = TRUE
  Prices = {2}
  Gifts <- MCGifts
  Rewards = {1, 2}
  Balances = {}
  Expiries = {}
  Uses = {1, 2}
  ImagePrice = 1
  Bonus = 0
  InitialPoints = 3
  MaxDay = 2
  MaxWrites = 2
INVARIANTS BalanceAccounted
SYMMETRY Symmetry
CHECK_DEADLOCK FALSE
