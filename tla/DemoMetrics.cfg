\* Two deliveries side by side; one more order than that is counted.
CONSTANTS MaxInFlight = 2
          MaxCount = 3
SPECIFICATION Spec
INVARIANTS ProcessedHaveStages ProducedHaveValues CountsCoverRecords
