SPECIFICATION FairSpec
CONSTANTS
  People = {"u1", "u2"}
  Signups = {"s1", "again1", "s2"}
  Provisions = {"open1", "open2"}
  Submissions = {"k1", "k2", "k3"}
  Payouts = {"pay"}
  Clients = {"open1", "open2", "pay"}
  AutoProvision = TRUE
  MaxCrashes = 1
  None = None
  Together <- MCTogether
  PersonOf <- MCPersonOf
  Bvn <- MCBvn
  Script <- MCScript
INVARIANT OnboardTypeOK
INVARIANT RowsMatchAnswers
INVARIANT StoredAccountOpen
PROPERTY CallsTakeEffectOnce
PROPERTY AnsweredUnlessStranded
CHECK_DEADLOCK FALSE
