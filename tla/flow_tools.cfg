SPECIFICATION FlowSpec
CONSTANTS
  ArgLists <- MCArgLists
  Testlists <- MCTestlists
  DvTests <- MCDvTests
  Yamls <- MCYamls
  ParamSets <- MCParamSets
  Asked <- MCAsked
  Handwritten <- MCHandwritten
  SuiteFiles <- MCSuiteFiles
  Configs <- MCConfigs
  Envs <- MCEnvs
  Requirements <- MCRequirements
  NamedTools <- MCNamedTools
  Installs <- MCInstalls
  Results <- MCResults
  CovReports <- MCCovReports
INVARIANTS
  TestsSelected
  BinaryArrives
  ConfigArrives
  ToolsChecked
  ReportsAgree
CHECK_DEADLOCK FALSE
