SPECIFICATION FairSpec
CONSTANTS
  Tags = {t1, t2}
  Indexes = {i1, i2}
INVARIANTS TypeOK ValidLineIsMemory BurstFillsLine
PROPERTY FetchAnswered
