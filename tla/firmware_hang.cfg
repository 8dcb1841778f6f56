SPECIFICATION FairSpec
CONSTANTS
  C = 2
  K = 3
  Cap = 2
  MaxActive = 2
  Sticky = FALSE
  Errors = {FALSE}
PROPERTY RunReturns
