SPECIFICATION FairSpec
CONSTANTS
  NPc = 4
  TrapTargets = {1, 2}
INVARIANTS TypeOK ReadPcOneAhead
PROPERTIES ProgramOrder NextPcIssued
