\* Three categories, two slots, five orders, so that the bound, an occupied key
\* and a category met twice all occur.
CONSTANTS MaxInFlight = 2
          NumCategories = 3
          MaxOrders = 5
SPECIFICATION FairSpec
INVARIANTS TypeOK KeyOrder InFlightBound ReportTallies
           NothingAbandoned ErrorIffPanic FewLateOrders
PROPERTIES ShutdownReturns EndedIsJoined AdmissionProgresses
           ImplementsKeyedDelivery
