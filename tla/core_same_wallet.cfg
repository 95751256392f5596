SPECIFICATION Spec
CONSTANTS
  None = None
  Hook = Hook
  BillOwner <- MCBillOwner
  Amount <- MCAmount
  HasAccount <- MCHasAccount
  DueDay <- MCDueDay
  InitStatus <- MCInitStatus
  ReqBill <- MCReqBill
  ReqUser <- MCReqUser
  Kind <- MCKind
  CreditUser <- MCCreditUser
  CreditAmount <- MCCreditAmount
  InitBalance <- MCInitBalance
  CancelBill <- MCCancelBill
  CancelUser <- MCCancelUser
  Fee = 1
  Recurring <- MCRecurring
  Copies <- MCCopies
  CopyOf <- MCCopyOf
  Period <- MCPeriod
  FirstDay <- MCFirstDay
  Users = {"u1"}
  Bills = {"b1", "b2"}
  Reqs = {"pay1", "pay2"}
  Credits = {"c1", "c2"}
  CreditRows = {"c1"}
  Cancels = {}
  EventIds = {"e1"}
  MaxRetries = 1
  MaxNow = 1
  MaxSweeps = 1
  MaxCrashes = 0
  MaxSpawns = 0
  Together <- AtOnce
INVARIANT NonNegativeBalance
INVARIANT OneOpenPayout
INVARIANT PaidHasSuccess
INVARIANT ProcessingHasDebit
PROPERTY OnlyStaleCommitsDrift
PROPERTY AtomicUnlessStale
CHECK_DEADLOCK FALSE
