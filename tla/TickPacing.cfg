\* In units of 2.5 ms: the default of 50 orders a second and tokio's 5 ms.
CONSTANTS Period = 8
          Tolerance = 2
          Horizon = 60
SPECIFICATION Spec
INVARIANTS RateIsKept RateIsNotExceeded
PROPERTY OneOrderPerPeriod
