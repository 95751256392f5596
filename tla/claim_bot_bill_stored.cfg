SPECIFICATION ConvSpec
CONSTANTS
  Amounts = {1, 9}
  Texts <- MCTexts
  Histories <- MCHistories
  Balance = 5
  Fee = 1
  h1 = h1
  h2 = h2
  m1 = m1
  m2 = m2
  Slots <- MCSlots
  Messages <- MCMessages
  Start <- MCStart
  Pause = 20
  None = None
SYMMETRY MCSymmetry
INVARIANT ConfirmedBillStored
CHECK_DEADLOCK FALSE
