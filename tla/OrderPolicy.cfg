\* The default work of the stages, a fraction that does not divide 10000, and
\* two windows of 10000 orders.
CONSTANTS Work <- DefaultWork
          SlowNum = 1
          SlowDen = 64
          MaxIndex = 20500
SPECIFICATION Spec
INVARIANTS SlowShare EveryLabelAppears
