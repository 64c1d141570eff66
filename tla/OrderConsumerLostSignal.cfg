CONSTANTS MaxRecords = 1
          MaxBatch = 1
SPECIFICATION FairSpec
PROPERTY OneSignalStops
