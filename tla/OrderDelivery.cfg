\* Two categories and three orders: order 2 shares its category with order 0, so
\* a retried, duplicated or late order 0 meets a successor.
CONSTANTS MaxInFlight = 2
          NumCategories = 2
          MaxOrders = 3
          MaxAttempts = 2
SPECIFICATION FairDeliverySpec
INVARIANTS DeliveryTypeOK TopicKeyOrder AcknowledgedIsLogged ErrorsCountAttempts
           ReportLagsMetric LossIsReported
PROPERTY ImplementsScheduler
