SPECIFICATION Spec
CONSTANTS
  t1 = t1
  t2 = t2
  t3 = t3
  t4 = t4
  alice = alice
  nobody = nobody
  Addresses <- MCAddresses
  ForkBlock <- MCForkBlock
  LaterBlock <- MCLaterBlock
  NoJob = NoJob
  Gone = Gone
  Missing = Missing
  Tasks = {t1, t2, t3}
  Jobs <- BalanceJobs
  Quiet = FALSE
SYMMETRY TaskSymmetry
INVARIANT LatestBalanceRead
