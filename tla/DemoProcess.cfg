\* Any two of the role-specific flags, of any role, at any rank.
CONSTANTS TooLarge = 3
          MaxGiven = 2
SPECIFICATION FairSpec
INVARIANTS ArgumentsComeFirst FlushIsLast
PROPERTY HeardSignalsEnd
