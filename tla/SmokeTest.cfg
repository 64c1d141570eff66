\* One service with a healthcheck, one without, a one-shot, two targets; all
\* long-running services are expected, or only the one with a healthcheck.
CONSTANTS LongRunning = {broker, gres}
          HealthChecked = {broker}
          OneShots = {setup}
          Expectations = {{broker}}
          Targets = {logs, traces}
          broker = broker gres = gres setup = setup logs = logs traces = traces
SPECIFICATION FairSpec
INVARIANTS TypeOK FailuresEndTheTest PassMeansSettled SlowIsNotFailed
PROPERTY TestEnds
