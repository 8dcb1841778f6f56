SPECIFICATION FairSpec
CONSTANTS
  C = 2
  K = 1
  Cap = 1
  MaxActive = 1
  Sticky = TRUE
  Errors = {TRUE, FALSE}
  p1 = p1
  p2 = p2
  Procs = {p1, p2}
  OutLens = {1}
  Configs <- RunConfigs
  BufSize = 3
  Timeouts = TRUE
INVARIANTS TypeOK TakenTogether OnePacketInFlight
PROPERTY StartFalls
