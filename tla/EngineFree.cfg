SPECIFICATION FairSpec
CONSTANTS
  r1 = r1
  r2 = r2
  r3 = r3
  alice = alice
  bob = bob
  wallet = wallet
  plain = plain
  factory = factory
  Requests = {r1, r2}
  Accounts <- MCAccounts
  ForkNonce <- MCForkNonce
  Registered <- MCRegistered
  Wallet <- MCWallet
  Mapped <- NoneMapped
  Payloads = {plain, factory}
  Factories = {factory}
  MaxBundle = 2
  Workload <- Overlapping
  Admission = "free"
CHECK_DEADLOCK FALSE
INVARIANT TypeOK
INVARIANT SectionsBalanced
INVARIANT CodeRestored
INVARIANT ResultsIndexed
PROPERTY BaseMovesByCommit
PROPERTY Settles
PROPERTY SectionsClose
PROPERTY WorkAdvances
