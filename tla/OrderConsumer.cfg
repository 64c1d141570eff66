\* Two batches of two, with every combination of good and bad values.
CONSTANTS MaxRecords = 4
          MaxBatch = 2
SPECIFICATION FairSpec
INVARIANTS TypeOK EveryRecordCounted BatchesAreFinished
PROPERTY RecordsAreHandled
