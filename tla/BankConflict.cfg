SPECIFICATION BankSpec
CONSTANTS
  Answers = {a1, a2}
  Requests = {t1, t2}
  MinConfirmations = 2
  MaxRequests = 4
INVARIANTS ContestedNotServed
CHECK_DEADLOCK FALSE
