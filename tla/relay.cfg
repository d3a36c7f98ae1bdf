SPECIFICATION FairSpec
CONSTANTS
  e1 = e1
  e2 = e2
  e3 = e3
  w1 = w1
  w2 = w2
  w3 = w3
  Events = {e1, e2, e3}
  Approvals = {e1, e2}
  Priority = {e1, e2}
  Rank <- MCRank
  ExpiresAt <- MCExpiresAt
  Workload <- MCWorkload
  Modes = {"host", "sms"}
  Handlers = {h1, h2}
  Webhooks = {w1, w2, w3}
  AnswerOf <- MCAnswerOf
  SmsLimit = 2
  SmsReserve = 1
  PageLimit = 1
  Overlap = 1
  MaxTime = 1
  MaxFaults = 1
  None = None
INVARIANTS TypeOK NothingSkipped OneDecisionPerEvent ReceiptMeansSent AtMostOneSms ReserveKept
  
CHECK_DEADLOCK FALSE
