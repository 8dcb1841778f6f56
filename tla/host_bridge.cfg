CONSTANTS
  RdAddrs <- MCRdAddrs
  WrAddrs <- MCWrAddrs
  Lens <- MCLens
  W = 2
SPECIFICATION FairSpec
INVARIANTS TypeOK ReadBeat ReadAccess WriteAccess WriteResponse
PROPERTIES Served
