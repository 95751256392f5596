SPECIFICATION FairSpec
CONSTANTS
  None = None
  Hook = Hook
  BillOwner <- MCBillOwner
  Amount <- MCAmount
  HasAccount <- MCHasAccount
  DueDay <- MCDueDay
  InitStatus <- MCInitStatus
  ReqBill <- MCReqBill
  ReqUser <- MCReqUser
  Kind <- MCKind
  CreditUser <- MCCreditUser
  CreditAmount <- MCCreditAmount
  InitBalance <- MCInitBalance
  CancelBill <- MCCancelBill
  CancelUser <- MCCancelUser
  Fee = 1
  Recurring <- MCRecurring
  Copies <- MCCopies
  CopyOf <- MCCopyOf
  Period <- MCPeriod
  FirstDay <- MCFirstDay
  Users = {"u1", "u2"}
  Bills = {"b1", "b3"}
  Reqs = {"pay1", "pay3"}
  Credits = {}
  CreditRows = {}
  Cancels = {}
  EventIds = {"e1", "e2"}
  MaxRetries = 1
  MaxNow = 0
  MaxSweeps = 0
  MaxCrashes = 0
  MaxSpawns = 0
  Together <- AtOnce
PROPERTY EveryRequestAnswered
PROPERTY NewsReconciles
PROPERTY ImplementsWallet
PROPERTY ReconciledForGood
CHECK_DEADLOCK FALSE
