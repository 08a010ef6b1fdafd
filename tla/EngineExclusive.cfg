SPECIFICATION Spec
CONSTANTS
  r1 = r1
  r2 = r2
  r3 = r3
  alice = alice
  bob = bob
  wallet = wallet
  plain = plain
  factory = factory
  Requests = {r1, r2, r3}
  Accounts <- MCAccounts
  ForkNonce <- MCForkNonce
  Registered <- MCRegistered
  Wallet <- MCWallet
  Mapped <- NoneMapped
  Payloads = {plain, factory}
  Factories = {factory}
  MaxBundle = 2
  Workload <- OneAtATime
  Admission = "exclusive"
SYMMETRY RequestSymmetry
CHECK_DEADLOCK FALSE
PROPERTY ImplementsLedger
INVARIANT SucceededStays
INVARIANT FailedLeaveNoEffects
