SPECIFICATION Spec
CONSTANTS
  C = 2
  K = 2
  Cap = 1
  MaxActive = 1
  Sticky = TRUE
  Errors = {FALSE}
  p1 = p1
  Procs = {p1}
  OutLens = {2}
  Configs <- RunConfigs
  BufSize = 3
  Timeouts = TRUE
INVARIANT RunMeansDone
