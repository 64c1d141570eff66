CONSTANTS Interval = 0
          Retain = 1
          PruneEvery = 3
          RestartTakes = 1
          MaxClock = 4
          MaxId = 5
SPECIFICATION Spec
INVARIANT NoCollision
