SPECIFICATION FairSpec
CONSTANTS
  C = 2
  K = 3
  Cap = 2
  MaxActive = 2
  Sticky = TRUE
  Errors = {FALSE}
INVARIANTS TypeOK StartPulse DoneMeansQuiet OnePacketInFlight IInv
PROPERTY RunReturns
