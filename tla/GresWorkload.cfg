\* A restart takes as long as a pass; the prune comes around every third id.
CONSTANTS Interval = 1
          Retain = 1
          PruneEvery = 3
          RestartTakes = 1
          MaxClock = 9
          MaxId = 10
SPECIFICATION Spec
INVARIANTS NoCollision TableBounded
