SPECIFICATION Spec
CONSTANTS
  None = None
  Hook = Hook
  BillOwner <- MCBillOwner
  Amount <- MCAmount
  HasAccount <- MCHasAccount
  DueDay <- MCDueDay
  InitStatus <- MCInitStatus
  ReqBill <- MCReqBill
  ReqUser <- MCReqUser
  Kind <- MCKind
  CreditUser <- MCCreditUser
  CreditAmount <- MCCreditAmount
  InitBalance <- MCInitBalance
  CancelBill <- MCCancelBill
  CancelUser <- MCCancelUser
  Fee = 1
  Recurring <- MCRecurring
  Copies <- MCCopies
  CopyOf <- MCCopyOf
  Period <- MCPeriod
  FirstDay <- MCFirstDay
  Users = {"u1", "u2"}
  Bills = {"b1", "b3", "b4", "b5", "b6", "x1", "y1"}
  Reqs = {"pay1", "again1", "payx", "upload4", "create5", "pay6", "stray3"}
  Credits = {}
  CreditRows = {}
  Cancels = {"cancel1"}
  EventIds = {"e1"}
  MaxRetries = 2
  MaxNow = 1
  MaxSweeps = 0
  MaxCrashes = 1
  MaxSpawns = 2
  Together <- BillScenarios
INVARIANT TypeOK
INVARIANT OneLiveDebit
INVARIANT ProcessingHasDebit
INVARIANT AnswersMatchBooks
INVARIANT BooksFollowProvider
INVARIANT BillInv
INVARIANT CoreInv
INVARIANT OccurrenceOnce
CHECK_DEADLOCK FALSE
