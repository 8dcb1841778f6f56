CONSTANTS
  Addrs <- MCAddrs
  Data <- MCData
  Status <- MCStatus
  POLL_GAP = 8
SPECIFICATION FairSpec
INVARIANTS TypeOK PollGap PathInv
PROPERTIES Answered AtomicAccess
