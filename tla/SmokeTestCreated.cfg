CONSTANTS LongRunning = {gres}
          HealthChecked = {}
          OneShots = {setup}
          Expectations = {}
          Targets = {logs}
          gres = gres setup = setup logs = logs
SPECIFICATION Spec
INVARIANT OnlyFailuresFail
